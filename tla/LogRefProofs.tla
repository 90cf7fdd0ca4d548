---------------------------- MODULE LogRefProofs ----------------------------
(***************************************************************************)
(* Proofs about the log refs of Ratchet: what Save's compare-and-swap,     *)
(* fetches and pushes make of their histories, the published log the       *)
(* commands and the witnesses implement together, and what the runs of     *)
(* Workflows make of the origin's.                                         *)
(***************************************************************************)
EXTENDS Workflows, RatchetProofs

-----------------------------------------------------------------------------
(* Histories of log commits.                                               *)

\* From commit to commit of h the entries and the stored checkpoint only grow.
Grows(h) ==
    \A i, j \in 1..Len(h) : i <= j =>
        /\ IsPrefix(h[i].entries, h[j].entries)
        /\ IsPrefix(h[i].cp.tree, h[j].cp.tree)

\* A log ref that named h and names g has lost nothing.
Keeps(h, g) ==
    /\ IsPrefix(entriesOf(h), entriesOf(g))
    /\ IsPrefix(checkpointOf(h).tree, checkpointOf(g).tree)

\* The entries and trees of a history's commits are logs.
LEMMA CommitTypes ==
    ASSUME NEW h \in History, NEW i \in 1..Len(h)
    PROVE  /\ h[i].entries \in Log
           /\ h[i].cp \in Checkpoint
           /\ h[i].cp.tree \in Log
<1>1. h[i] \in Commit
  BY DEF History
<1>. QED BY <1>1 DEF Commit, Checkpoint

\* A history loses nothing to itself.
LEMMA KeepsItself ==
    ASSUME NEW h \in History
    PROVE  Keeps(h, h)
<1>1. entriesOf(h) \in Log /\ checkpointOf(h).tree \in Log
  BY OpenedTypes DEF Checkpoint
<1>. QED BY <1>1, PrefixReflexive DEF Keeps, Log

\* A commit that extends the last one extends all of them.
LEMMA AppendGrows ==
    ASSUME NEW h \in History, NEW c \in Commit, Grows(h),
           IsPrefix(entriesOf(h), c.entries),
           IsPrefix(checkpointOf(h).tree, c.cp.tree)
    PROVE  /\ Append(h, c) \in History
           /\ Grows(Append(h, c))
           /\ Keeps(h, Append(h, c))
<1> DEFINE g == Append(h, c)
           n == Len(h)
<1>1. /\ g \in History
      /\ n \in Nat
      /\ Len(g) = n + 1
      /\ g[n + 1] = c
      /\ \A i \in 1..n : g[i] = h[i]
      /\ g # <<>>
  BY DEF History
<1>2. c.entries \in Log /\ c.cp.tree \in Log
  BY DEF Commit, Checkpoint
<1>3. ASSUME NEW i \in 1..n
      PROVE  IsPrefix(h[i].entries, c.entries) /\ IsPrefix(h[i].cp.tree, c.cp.tree)
  <2>1. h # <<>> /\ n \in 1..n /\ i <= n
    BY <1>1
  <2>2. h[n].entries = entriesOf(h) /\ h[n].cp.tree = checkpointOf(h).tree
    BY <2>1 DEF entriesOf, checkpointOf
  <2>3. IsPrefix(h[i].entries, h[n].entries) /\ IsPrefix(h[i].cp.tree, h[n].cp.tree)
    BY <2>1 DEF Grows
  <2>4. /\ h[i].entries \in Log /\ h[i].cp.tree \in Log
        /\ h[n].entries \in Log /\ h[n].cp.tree \in Log
    BY <2>1, CommitTypes
  <2>. HIDE DEF n
  <2>. QED BY <1>2, <2>2, <2>3, <2>4, PrefixTransitive DEF Log
<1>4. IsPrefix(c.entries, c.entries) /\ IsPrefix(c.cp.tree, c.cp.tree)
  BY <1>2, PrefixReflexive DEF Log
<1>5. ASSUME NEW i \in 1..Len(g), NEW j \in 1..Len(g), i <= j
      PROVE  IsPrefix(g[i].entries, g[j].entries) /\ IsPrefix(g[i].cp.tree, g[j].cp.tree)
  <2>. HIDE DEF g, n
  <2>1. CASE j \in 1..n
    <3>1. i \in 1..n /\ g[i] = h[i] /\ g[j] = h[j]
      BY <1>1, <1>5, <2>1
    <3>. QED BY <1>5, <2>1, <3>1 DEF Grows, n
  <2>2. CASE j = n + 1 /\ i \in 1..n
    BY <1>1, <1>3, <2>2
  <2>3. CASE j = n + 1 /\ i = n + 1
    BY <1>1, <1>4, <2>3
  <2>. QED BY <1>1, <1>5, <2>1, <2>2, <2>3
<1>6. entriesOf(g) = c.entries /\ checkpointOf(g).tree = c.cp.tree
  BY <1>1 DEF entriesOf, checkpointOf
<1>. QED BY <1>1, <1>5, <1>6 DEF Grows, Keeps

\* An earlier commit of a history that grows has a history that grows, and moving
\* from the earlier one to the later one loses nothing.
LEMMA EarlierGrows ==
    ASSUME NEW h \in History, NEW g \in History, IsPrefix(h, g), Grows(g)
    PROVE  Grows(h) /\ Keeps(h, g)
<1>1. /\ Len(h) \in Nat /\ Len(g) \in Nat
      /\ Len(h) <= Len(g)
      /\ \A i \in 1..Len(h) : h[i] = g[i]
  BY PrefixPointwise DEF History
<1>2. Grows(h)
  BY <1>1 DEF Grows
<1>3. CASE h = <<>>
  <2>1. entriesOf(g) \in Log /\ checkpointOf(g).tree \in Log
    BY OpenedTypes DEF Checkpoint
  <2>2. entriesOf(h) = <<>> /\ checkpointOf(h).tree = <<>>
    BY <1>3 DEF entriesOf, checkpointOf, NoCheckpoint
  <2>. QED BY <1>2, <2>1, <2>2, PrefixReflexive DEF Keeps, Log
<1>4. CASE h # <<>>
  <2>1. Len(h) \in 1..Len(h) /\ Len(h) \in 1..Len(g) /\ Len(g) \in 1..Len(g)
    BY <1>1, <1>4 DEF History
  <2>2. g # <<>>
    BY <2>1
  <2>3. /\ entriesOf(h) = g[Len(h)].entries
        /\ checkpointOf(h).tree = g[Len(h)].cp.tree
        /\ entriesOf(g) = g[Len(g)].entries
        /\ checkpointOf(g).tree = g[Len(g)].cp.tree
    BY <1>1, <1>4, <2>1, <2>2 DEF entriesOf, checkpointOf
  <2>. QED BY <1>1, <1>2, <2>1, <2>3 DEF Grows, Keeps
<1>. QED BY <1>3, <1>4

-----------------------------------------------------------------------------
(* Every log ref grows from commit to commit.                              *)

\* checkpointLog changes nothing in the log it opened: it checkpoints the commit
\* the ref named then.
CosignHoldsHead ==
    \A p \in Procs : pc[p] = "cosign" => log[p] = entriesOf(head[p])

\* HistoryGrows and what it needs: LogExtendsHead of Inv for logRefs,
\* CosignHoldsHead and StoredCheckpointVerifies for checkpointLog, whose new
\* checkpoint covers all entries and thereby the checkpoint before it.
HistoryInv ==
    /\ Inv
    /\ CosignHoldsHead
    /\ HistoryGrows

\* The tree of the checkpoint a log ref names is a prefix of the entries it names.
LEMMA HeadCovers ==
    ASSUME Inv, NEW r \in Repos
    PROVE  IsPrefix(checkpointOf(ref[r]).tree, entriesOf(ref[r]))
<1>1. ref[r] \in History
  BY DEF Inv, TypeOK
<1>2. entriesOf(ref[r]) \in Log
  BY <1>1, OpenedTypes
<1>3. CASE checkpointOf(ref[r]) = NoCheckpoint
  BY <1>2, <1>3, PrefixReflexive DEF NoCheckpoint, Log
<1>4. CASE checkpointOf(ref[r]) # NoCheckpoint
  BY <1>4, HeadVerifies DEF CheckpointVerifies
<1>. QED BY <1>3, <1>4

\* Only Open, LogRef and Return change what a process holds.
LEMMA CosignHoldsHeadStep ==
    ASSUME Inv, CosignHoldsHead, [Next]_vars
    PROVE  CosignHoldsHead'
<1>. USE DEF Inv, TypeOK, CosignHoldsHead
<1>1. CASE UNCHANGED <<pc, head, log>>
  BY <1>1
<1>2. ASSUME NEW p \in Procs, Return(p)
      PROVE  CosignHoldsHead'
  BY <1>2 DEF Return
<1>3. ASSUME NEW p \in Procs, NEW st, Open(p, st)
      PROVE  CosignHoldsHead'
  BY <1>3 DEF Open
<1>4. ASSUME NEW p \in Procs, NEW name \in Refs, NEW object \in Objects, LogRef(p, name, object)
      PROVE  CosignHoldsHead'
  BY <1>4 DEF LogRef
<1>5. \/ UNCHANGED <<pc, head, log>>
      \/ \E p \in Procs : \/ Return(p)
                          \/ Open(p, "log")
                          \/ Open(p, "cosign")
                          \/ \E name \in Refs, object \in Objects : LogRef(p, name, object)
  BY DEF Next, Command, Environment, vars, procVars, LogOpen, LogNothing, LogSave,
         CheckpointOpen, WitnessAnswers, WitnessLate, Receive, Timeout, CheckpointRefused,
         CheckpointFinish, Crash, PushEntry, Rollback, Fetch, Push
<1>. QED BY <1>1, <1>2, <1>3, <1>4, <1>5

\* What a step that resets no log ref does to one of them: nothing, an append of
\* a commit that extends the last one, or a fast-forward.
RefAdvances(r) ==
    \/ ref'[r] = ref[r]
    \/ \E c \in Commit :
          /\ ref'[r] = Append(ref[r], c)
          /\ IsPrefix(entriesOf(ref[r]), c.entries)
          /\ IsPrefix(checkpointOf(ref[r]).tree, c.cp.tree)
    \/ \E q \in Repos : ref'[r] = ref[q] /\ IsPrefix(ref[r], ref[q])

\* Every step but a reset.
Advance ==
    \/ \E p \in Procs : Command(p)
    \/ \E m \in late : WitnessLate(m)
    \/ \E r \in Repos, e \in Pushed : PushEntry(r, e)
    \/ \E r \in Repos : Fetch(r) \/ Push(r)

\* A Save of a commit that extends the head it was made for, won or lost.
LEMMA SaveAdvances ==
    ASSUME Inv, NEW p \in Procs, NEW checkpoint \in Checkpoint, Save(p, checkpoint),
           ref[RepoOf[p]] = head[p] =>
              /\ IsPrefix(entriesOf(head[p]), log[p])
              /\ IsPrefix(checkpointOf(head[p]).tree, checkpoint.tree),
           NEW r \in Repos
    PROVE  RefAdvances(r)
<1> DEFINE c == [entries |-> log[p], cp |-> checkpoint]
<1>1. c \in Commit /\ RepoOf[p] \in Repos
  BY ProcsAssumption DEF Inv, TypeOK, Commit
<1>2. CASE ref[RepoOf[p]] = head[p] /\ r = RepoOf[p]
  <2>1. ref'[r] = Append(ref[r], c)
    BY <1>1, <1>2 DEF Save, Inv, TypeOK
  <2>2. IsPrefix(entriesOf(ref[r]), c.entries) /\ IsPrefix(checkpointOf(ref[r]).tree, c.cp.tree)
    BY <1>2
  <2>. HIDE DEF c
  <2>. QED BY <1>1, <2>1, <2>2 DEF RefAdvances
<1>3. CASE ~ (ref[RepoOf[p]] = head[p] /\ r = RepoOf[p])
  <2>1. ref'[r] = ref[r]
    BY <1>1, <1>3 DEF Save, Inv, TypeOK
  <2>. QED BY <2>1 DEF RefAdvances
<1>. QED BY <1>2, <1>3

\* Every step but a reset advances every log ref or leaves it alone.
LEMMA EveryRefAdvances ==
    ASSUME Inv, CosignHoldsHead, [Advance]_vars, NEW r \in Repos
    PROVE  RefAdvances(r)
<1>1. CASE UNCHANGED ref
  BY <1>1 DEF RefAdvances
<1>2. ASSUME NEW p \in Procs, LogSave(p), Save(p, cp[p])
      PROVE  RefAdvances(r)
  <2>1. pc[p] = "log" /\ cp[p] \in Checkpoint
    BY <1>2 DEF LogSave, Inv, TypeOK
  <2>2. cp[p] = checkpointOf(head[p]) /\ IsPrefix(entriesOf(head[p]), log[p])
    BY <2>1 DEF Inv, LogExtendsHead
  <2>3. cp[p].tree \in Log
    BY <2>1 DEF Checkpoint
  <2>4. IsPrefix(checkpointOf(head[p]).tree, cp[p].tree)
    BY <2>2, <2>3, PrefixReflexive DEF Log
  <2>. QED BY <1>2, <2>1, <2>2, <2>4, SaveAdvances
<1>3. ASSUME NEW p \in Procs, CheckpointFinish(p),
             Save(p, [tree |-> log[p], by |-> Cosigners(p)])
      PROVE  RefAdvances(r)
  <2> DEFINE c == [tree |-> log[p], by |-> Cosigners(p)]
  <2>1. log[p] \in Log /\ c \in Checkpoint /\ c.tree = log[p] /\ RepoOf[p] \in Repos
    BY ProcsAssumption DEF Inv, TypeOK, Checkpoint, Cosigners
  <2>2. log[p] = entriesOf(head[p])
    BY <1>3 DEF CheckpointFinish, CosignHoldsHead
  <2>3. IsPrefix(entriesOf(head[p]), log[p])
    BY <2>1, <2>2, PrefixReflexive DEF Log
  <2>4. ref[RepoOf[p]] = head[p] => IsPrefix(checkpointOf(head[p]).tree, c.tree)
    BY <2>1, <2>2, HeadCovers
  <2>5. Save(p, c)
    BY <1>3
  <2>. HIDE DEF c
  <2>. QED BY <2>1, <2>3, <2>4, <2>5, SaveAdvances
<1>4. ASSUME NEW q \in Repos, NEW e \in Pushed, PushEntry(q, e)
      PROVE  RefAdvances(r)
  <2> DEFINE f == Append(entriesOf(ref[q]), e)
             c == [entries |-> f, cp |-> checkpointOf(ref[q])]
  <2>1. e \in Entry /\ ref[q] \in History
    BY ProcsAssumption DEF Inv, TypeOK
  <2>2. /\ entriesOf(ref[q]) \in Log
        /\ checkpointOf(ref[q]) \in Checkpoint
        /\ checkpointOf(ref[q]).tree \in Log
    BY <2>1, OpenedTypes DEF Checkpoint
  <2>3. f \in Log /\ IsPrefix(entriesOf(ref[q]), f)
    BY <2>1, <2>2, PrefixAppend DEF Log
  <2>4. c \in Commit /\ c.entries = f /\ c.cp = checkpointOf(ref[q])
    BY <2>2, <2>3 DEF Commit
  <2>5. IsPrefix(checkpointOf(ref[q]).tree, c.cp.tree)
    BY <2>2, <2>4, PrefixReflexive DEF Log
  <2>6. CASE r = q
    <3>1. ref'[r] = Append(ref[r], c)
      BY <1>4, <2>6 DEF PushEntry, Inv, TypeOK
    <3>. HIDE DEF c, f
    <3>. QED BY <2>3, <2>4, <2>5, <2>6, <3>1 DEF RefAdvances
  <2>7. CASE r # q
    BY <1>4, <2>7 DEF PushEntry, Inv, TypeOK, RefAdvances
  <2>. QED BY <2>6, <2>7
<1>5. ASSUME NEW q \in Repos, Fetch(q) \/ Push(q)
      PROVE  RefAdvances(r)
  BY <1>5, ProcsAssumption DEF Fetch, Push, IsStrictPrefix, Inv, TypeOK, RefAdvances
<1>6. \/ UNCHANGED ref
      \/ \E p \in Procs : LogSave(p) /\ Save(p, cp[p])
      \/ \E p \in Procs : /\ CheckpointFinish(p)
                          /\ Save(p, [tree |-> log[p], by |-> Cosigners(p)])
      \/ \E q \in Repos, e \in Pushed : PushEntry(q, e)
      \/ \E q \in Repos : Fetch(q) \/ Push(q)
  BY DEF Advance, Command, vars, LogOpen, LogRef, LogNothing, LogSave,
         CheckpointOpen, WitnessAnswers, WitnessLate, Receive, Timeout,
         CheckpointRefused, CheckpointFinish, Crash
<1>. QED BY <1>1, <1>2, <1>3, <1>4, <1>5, <1>6

\* Every other step resets one log ref to an earlier commit of its own.
LEMMA NextAdvances ==
    ASSUME TypeOK, Next
    PROVE  \/ Advance
           \/ Rollbacks /\ \A r \in Repos : IsPrefix(ref'[r], ref[r])
<1>1. ASSUME NEW q \in Repos, NEW k \in 0..Len(ref[q]), Rollback(q, k)
      PROVE  Rollbacks /\ \A r \in Repos : IsPrefix(ref'[r], ref[r])
  <2>1. Rollbacks /\ ref' = [ref EXCEPT ![q] = SubSeq(@, 1, k)]
    BY <1>1 DEF Rollback
  <2>2. ASSUME NEW r \in Repos
        PROVE  IsPrefix(ref'[r], ref[r])
    <3>1. ref[r] \in Seq(Commit)
      BY DEF TypeOK, History
    <3>2. CASE r = q
      <4>1. ref'[r] = SubSeq(ref[r], 1, k) /\ k \in 0..Len(ref[r])
        BY <2>1, <3>2 DEF TypeOK
      <4>. QED BY <3>1, <4>1, PrefixSubSeq
    <3>3. CASE r # q
      BY <2>1, <3>1, <3>3, PrefixReflexive DEF TypeOK
    <3>. QED BY <3>2, <3>3
  <2>. QED BY <2>1, <2>2
<1>. QED BY <1>1 DEF Next, Environment, Advance

\* HistoryGrows is a property of each log ref on its own.
LEMMA HistoryGrowsByRef == HistoryGrows <=> \A r \in Repos : Grows(ref[r])
BY DEF HistoryGrows, Grows

\* A log ref that advances keeps growing from commit to commit, and loses nothing.
LEMMA AdvanceGrows ==
    ASSUME HistoryInv, NEW r \in Repos, RefAdvances(r)
    PROVE  /\ Grows(ref'[r])
           /\ Keeps(ref[r], ref'[r])
           /\ IsPrefix(ref[r], ref'[r])
<1>1. \A q \in Repos : ref[q] \in History /\ Grows(ref[q])
  BY HistoryGrowsByRef DEF HistoryInv, Inv, TypeOK
<1>2. CASE ref'[r] = ref[r]
  BY <1>1, <1>2, KeepsItself, PrefixReflexive DEF History
<1>3. ASSUME NEW c \in Commit,
             ref'[r] = Append(ref[r], c),
             IsPrefix(entriesOf(ref[r]), c.entries),
             IsPrefix(checkpointOf(ref[r]).tree, c.cp.tree)
      PROVE  Grows(ref'[r]) /\ Keeps(ref[r], ref'[r]) /\ IsPrefix(ref[r], ref'[r])
  BY <1>1, <1>3, AppendGrows, PrefixAppend DEF History
<1>4. ASSUME NEW q \in Repos, ref'[r] = ref[q], IsPrefix(ref[r], ref[q])
      PROVE  Grows(ref'[r]) /\ Keeps(ref[r], ref'[r]) /\ IsPrefix(ref[r], ref'[r])
  BY <1>1, <1>4, EarlierGrows
<1>. QED BY <1>2, <1>3, <1>4 DEF RefAdvances

\* HistoryInv is inductive.
LEMMA NextHistoryInv ==
    ASSUME HistoryInv, [Next]_vars
    PROVE  HistoryInv'
<1>1. Inv' /\ CosignHoldsHead'
  BY NextInv, CosignHoldsHeadStep DEF HistoryInv
<1>2. ASSUME NEW r \in Repos
      PROVE  Grows(ref'[r])
  <2>1. CASE [Advance]_vars
    BY <2>1, EveryRefAdvances, AdvanceGrows DEF HistoryInv
  <2>2. CASE \A q \in Repos : IsPrefix(ref'[q], ref[q])
    <3>1. ref[r] \in History /\ ref'[r] \in History /\ Grows(ref[r])
      BY <1>1, HistoryGrowsByRef DEF HistoryInv, Inv, TypeOK
    <3>. QED BY <2>2, <3>1, EarlierGrows
  <2>. QED BY <2>1, <2>2, NextAdvances DEF HistoryInv, Inv
<1>3. HistoryGrows'
  BY <1>2 DEF HistoryGrows, Grows
<1>. QED BY <1>1, <1>3 DEF HistoryInv

\* Every log ref is empty at first.
LEMMA InitHistoryInv == Init => HistoryInv
BY InitInv DEF Init, HistoryInv, CosignHoldsHead, HistoryGrows

\* HistoryInv holds in every reachable state.
THEOREM HistoryInvariance == Spec => []HistoryInv
BY InitHistoryInv, NextHistoryInv, PTL DEF Spec

\* In every log ref entries and checkpoints only grow from commit to commit,
\* whatever processes of logRefs and checkpointLog raced, crashed, fetched or
\* were reset: no Save buries the entries of another writer.
THEOREM HistoriesGrow == Spec => []HistoryGrows
<1>1. HistoryInv => HistoryGrows
  BY DEF HistoryInv
<1>. QED BY <1>1, HistoryInvariance, PTL

\* Unless log refs are reset, no step of any process or clone takes an entry or
\* a checkpoint back from any of them.
THEOREM LogRefsMoveForward == ~ Rollbacks => (Spec => LogRefMovesForward)
<1>. SUFFICES ASSUME ~ Rollbacks PROVE Spec => LogRefMovesForward
  OBVIOUS
<1>1. ASSUME HistoryInv, [Next]_vars
      PROVE  [\A r \in Repos :
                 /\ IsPrefix(entriesOf(ref[r]), entriesOf(ref'[r]))
                 /\ IsPrefix(checkpointOf(ref[r]).tree, checkpointOf(ref'[r]).tree)]_vars
  <2>1. [Advance]_vars
    BY <1>1, NextAdvances DEF HistoryInv, Inv
  <2>2. ASSUME NEW r \in Repos
        PROVE  Keeps(ref[r], ref'[r])
    BY <1>1, <2>1, EveryRefAdvances, AdvanceGrows DEF HistoryInv
  <2>. QED BY <2>2 DEF Keeps
<1>. QED BY <1>1, HistoryInvariance, PTL DEF Spec, LogRefMovesForward

\* A log ref loses an entry or a checkpoint only in a step that resets that very ref.
OnlyResetsTakeBack ==
    [][\A r \in Repos : \/ Keeps(ref[r], ref'[r])
                        \/ \E k \in 0..Len(ref[r]) : Rollback(r, k)]_vars

\* Where log refs are reset, all others still only move forward: neither Save, Fetch
\* nor Push takes anything back, also not from a clone that was itself reset.
THEOREM ResetsAreLocal == Spec => OnlyResetsTakeBack
<1>1. ASSUME HistoryInv, [Next]_vars
      PROVE  [\A r \in Repos : \/ Keeps(ref[r], ref'[r])
                               \/ \E k \in 0..Len(ref[r]) : Rollback(r, k)]_vars
  <2>1. CASE [Advance]_vars
    <3>1. ASSUME NEW r \in Repos PROVE Keeps(ref[r], ref'[r])
      BY <1>1, <2>1, EveryRefAdvances, AdvanceGrows DEF HistoryInv
    <3>. QED BY <3>1
  <2>2. ASSUME NEW q \in Repos, NEW k \in 0..Len(ref[q]), Rollback(q, k), NEW r \in Repos
        PROVE  r = q \/ Keeps(ref[r], ref'[r])
    <3>. SUFFICES ASSUME r # q PROVE Keeps(ref[r], ref'[r])
      OBVIOUS
    <3>1. ref[r] \in History /\ ref'[r] = ref[r]
      BY <1>1, <2>2 DEF Rollback, HistoryInv, Inv, TypeOK
    <3>. QED BY <3>1, KeepsItself
  <2>3. Next => Advance \/ \E q \in Repos : \E k \in 0..Len(ref[q]) : Rollback(q, k)
    BY DEF Next, Environment, Advance
  <2>4. ASSUME NEW q \in Repos, NEW k \in 0..Len(ref[q]), Rollback(q, k)
        PROVE  \A r \in Repos : \/ Keeps(ref[r], ref'[r])
                                \/ \E i \in 0..Len(ref[r]) : Rollback(r, i)
    BY <2>2, <2>4
  <2>. QED BY <1>1, <2>1, <2>3, <2>4
<1>. QED BY <1>1, HistoryInvariance, PTL DEF Spec, OnlyResetsTakeBack

-----------------------------------------------------------------------------
(* The published log.                                                      *)

\* The trees LongestAttested chooses from.
Attestable == AttestedTrees \cup {<<>>}

\* One of them is at least as long as every other.
HasLongest == \E t \in Attestable : \A u \in Attestable : Len(u) <= Len(t)

\* What the choice of a longest sequence gives.
LEMMA LongestChosen ==
    ASSUME NEW T, \E t \in T : \A u \in T : Len(u) <= Len(t),
           NEW l, l = CHOOSE t \in T : \A u \in T : Len(u) <= Len(t)
    PROVE  l \in T /\ \A u \in T : Len(u) <= Len(l)
OBVIOUS

\* The trees put before verifiers are logs.
LEMMA AttestableTypes ==
    ASSUME WitnessTypeOK
    PROVE  Attestable \subseteq Log
<1>1. AttestedTrees \subseteq Log
  BY DEF AttestedTrees, WitnessTypeOK
<1>2. <<>> \in Log
  BY DEF Log
<1>. QED BY <1>1, <1>2 DEF Attestable

\* A step makes at most one more tree attested, the one a witness has cosigned,
\* and takes none back.
LEMMA OneMoreAttested ==
    ASSUME Inv, [Next]_vars
    PROVE  /\ Attestable \subseteq Attestable'
           /\ \E tree \in Log : Attestable' \subseteq Attestable \cup {tree}
<1>1. CosignedGrows
  BY WitnessStep
<1>2. \A Q \in Quorums : \A w \in Q : w \in Witnesses
  BY QuorumAssumption
<1>3. Attestable \subseteq Attestable'
  BY <1>1, <1>2 DEF Attestable, AttestedTrees, Attested, CosignedGrows
<1>4. ASSUME NEW tree \in Log,
             \A v \in Witnesses : \A t \in cosigned'[v] : t \in cosigned[v] \/ t = tree
      PROVE  Attestable' \subseteq Attestable \cup {tree}
  BY <1>2, <1>4 DEF Attestable, AttestedTrees, Attested
<1>5. \E tree \in Log :
         \A v \in Witnesses : \A t \in cosigned'[v] : t \in cosigned[v] \/ t = tree
  <2>1. CASE UNCHANGED WitnessVars
    <3>1. <<>> \in Log
      BY DEF Log
    <3>. QED BY <2>1, <3>1 DEF WitnessVars
  <2>2. ASSUME NEW p \in Procs, NEW w \in Witnesses, WitnessAnswers(p, w)
        PROVE  \A v \in Witnesses : \A t \in cosigned'[v] : t \in cosigned[v] \/ t = log[p]
    BY <2>2, UpdateExtends DEF WitnessAnswers, Inv, TypeOK
  <2>3. ASSUME NEW m \in late, WitnessLate(m)
        PROVE  \A v \in Witnesses : \A t \in cosigned'[v] : t \in cosigned[v] \/ t = m.tree
    BY <2>3, UpdateExtends DEF WitnessLate, Inv, TypeOK, Request
  <2>4. /\ \A p \in Procs : log[p] \in Log
        /\ \A m \in late : m.tree \in Log
    BY DEF Inv, TypeOK, Request
  <2>5. \/ UNCHANGED WitnessVars
        \/ \E p \in Procs, w \in Witnesses : WitnessAnswers(p, w)
        \/ \E m \in late : WitnessLate(m)
    BY DEF Next, Command, Environment, vars, WitnessVars, LogOpen, LogRef, LogNothing, LogSave,
           CheckpointOpen, Receive, Timeout, CheckpointRefused, CheckpointFinish, Crash,
           PushEntry, Rollback, Fetch, Push
  <2>. QED BY <2>1, <2>2, <2>3, <2>4, <2>5
<1>. QED BY <1>3, <1>4, <1>5

\* There is a longest tree after the step if there was one before it.
LEMMA LongestStays ==
    ASSUME Inv, HasLongest, [Next]_vars
    PROVE  HasLongest'
<1>1. PICK tree \in Log : Attestable' \subseteq Attestable \cup {tree}
  BY OneMoreAttested
<1>2. PICK t \in Attestable : \A u \in Attestable : Len(u) <= Len(t)
  BY DEF HasLongest
<1>3. Attestable \subseteq Log /\ Attestable \subseteq Attestable'
  BY OneMoreAttested, AttestableTypes DEF Inv, TypeOK
<1>4. /\ \A u \in Attestable : Len(u) \in Nat
      /\ Len(t) \in Nat /\ Len(tree) \in Nat
  BY <1>2, <1>3 DEF Log
<1>5. CASE tree \in Attestable' /\ Len(t) < Len(tree)
  <2>1. \A u \in Attestable' : Len(u) <= Len(tree)
    BY <1>1, <1>2, <1>4, <1>5
  <2>. QED BY <1>5, <2>1 DEF HasLongest
<1>6. CASE ~ (tree \in Attestable' /\ Len(t) < Len(tree))
  <2>1. \A u \in Attestable' : Len(u) <= Len(t)
    BY <1>1, <1>2, <1>4, <1>6
  <2>. QED BY <1>2, <1>3, <2>1 DEF HasLongest
<1>. QED BY <1>5, <1>6

\* Inv and the existence of what the refinement mapping chooses.
PublishedInv == Inv /\ HasLongest

\* Of the trees put before verifiers, the shorter is a prefix of the longer.
LEMMA AttestableComparable ==
    ASSUME Inv, NEW t \in Attestable, NEW u \in Attestable, Len(t) <= Len(u)
    PROVE  IsPrefix(t, u)
<1>1. t \in Log /\ u \in Log
  BY AttestableTypes DEF Inv, TypeOK
<1>2. CASE t = <<>>
  BY <1>1, <1>2, PrefixReflexive DEF Log
<1>3. CASE t # <<>>
  <2>1. u # <<>>
    BY <1>1, <1>3 DEF Log
  <2>2. Attested(t) /\ Attested(u)
    BY <1>3, <2>1 DEF Attestable, AttestedTrees
  <2>. QED BY <1>1, <2>2, AttestedComparable
<1>. QED BY <1>2, <1>3

\* What the refinement needs of a state: verifiers are shown prefixes of one log
\* with unbroken chains, and the longest of them is the one published.
OneLogPublished ==
    /\ Attestable \subseteq Log
    /\ \A t, u \in Attestable : Len(t) <= Len(u) => IsPrefix(t, u)
    /\ \A t \in Attestable : checkLogChains(t)
    /\ LongestAttested \in Attestable
    /\ \A u \in Attestable : Len(u) <= Len(LongestAttested)

\* It follows from the invariant.
LEMMA PublishedFromInv == PublishedInv => OneLogPublished
<1>. SUFFICES ASSUME Inv, HasLongest PROVE OneLogPublished
  BY DEF PublishedInv
<1>1. Attestable \subseteq Log
  BY AttestableTypes DEF Inv, TypeOK
<1>2. \A t, u \in Attestable : Len(t) <= Len(u) => IsPrefix(t, u)
  BY AttestableComparable
<1>3. ASSUME NEW t \in Attestable
      PROVE  checkLogChains(t)
  <2>1. CASE t = <<>>
    BY <2>1 DEF checkLogChains, checkRefChain
  <2>2. CASE t # <<>>
    BY <2>2 DEF Attestable, AttestedTrees, Inv, CosignedChainsHold
  <2>. QED BY <2>1, <2>2
<1>4. LongestAttested = CHOOSE t \in Attestable : \A u \in Attestable : Len(u) <= Len(t)
  BY DEF LongestAttested, Attestable
<1>5. /\ LongestAttested \in Attestable
      /\ \A u \in Attestable : Len(u) <= Len(LongestAttested)
  BY <1>4, LongestChosen DEF HasLongest
<1>. QED BY <1>1, <1>2, <1>3, <1>5 DEF OneLogPublished

\* Nothing is published at first.
LEMMA InitPublished == Init => PublishedInv /\ Published!Init
<1>. SUFFICES ASSUME Init PROVE PublishedInv /\ Published!Init
  OBVIOUS
<1>1. Attestable = {<<>>}
  BY DEF Init, WitnessInit, Attestable, AttestedTrees
<1>2. HasLongest
  <2>1. Len(<<>>) <= Len(<<>>)
    OBVIOUS
  <2>. QED BY <1>1, <2>1 DEF HasLongest
<1>3. PublishedInv
  BY <1>2, InitInv DEF PublishedInv
<1>4. LongestAttested = <<>>
  BY <1>1, <1>3, PublishedFromInv DEF OneLogPublished
<1>. QED BY <1>3, <1>4 DEF Published!Init

\* Every step leaves the published log alone or extends it.
LEMMA StepPublished ==
    ASSUME Inv, [Next]_vars, OneLogPublished, OneLogPublished'
    PROVE  [Published!Extend]_LongestAttested
<1> DEFINE old == LongestAttested
           new == LongestAttested'
<1>1. Attestable \subseteq Attestable'
  BY OneMoreAttested
<1>2. old \in Attestable' /\ new \in Attestable' /\ Len(old) <= Len(new)
  BY <1>1 DEF OneLogPublished
<1>3. IsPrefix(old, new) /\ checkLogChains(new)
  BY <1>2 DEF OneLogPublished
<1>4. new # old => IsStrictPrefix(old, new)
  BY <1>3 DEF IsStrictPrefix
<1>. HIDE DEF old, new
<1>5. new # old => Published!IsStrictPrefix(old, new)
  BY <1>4 DEF IsStrictPrefix, IsPrefix, Published!IsStrictPrefix, Published!IsPrefix
<1>6. Published!checkLogChains(new)
  BY <1>3 DEF checkLogChains, checkRefChain, Consecutive, RefRecords, RefRecord, Refs, IsAncestor,
              Published!checkLogChains, Published!checkRefChain, Published!Consecutive,
              Published!RefRecords, Published!RefRecord, Published!Refs, Published!IsAncestor
<1>. QED BY <1>5, <1>6 DEF Published!Extend, old, new

\* The commands and the witnesses together implement one append-only log with
\* unbroken chains, for any number of processes, clones and witnesses, through
\* crashes, resets and late answers.
THEOREM RatchetImplementsPublishedLog == Spec => ImplementsPublishedLog
<1>1. Init => PublishedInv /\ Published!Init
  BY InitPublished
<1>2. PublishedInv /\ [Next]_vars => PublishedInv'
  BY NextInv, LongestStays DEF PublishedInv
<1>3. PublishedInv => OneLogPublished
  BY PublishedFromInv
<1>4. PublishedInv /\ OneLogPublished /\ OneLogPublished' /\ [Next]_vars
         => [Published!Extend]_LongestAttested
  BY StepPublished DEF PublishedInv
<1>. QED BY <1>1, <1>2, <1>3, <1>4, PTL DEF Spec, ImplementsPublishedLog, Published!Spec

-----------------------------------------------------------------------------
(* Refusals.                                                               *)

\* Everything submitted to a witness, in flight or held by it, is a prefix of the
\* log the origin's ref names.
OneLine ==
    /\ \A w \in Witnesses : IsPrefix(held[w], entriesOf(ref[Origin]))
    /\ \A p \in Procs : pc[p] = "cosign" => IsPrefix(log[p], entriesOf(ref[Origin]))
    /\ \A m \in late : IsPrefix(m.tree, entriesOf(ref[Origin]))

\* No exchange has been refused, is about to be, or was started from a size its
\* log does not have.
NoRefusalPending ==
    \A p \in Procs, w \in Witnesses :
        /\ exch[p][w].st = "sent" => exch[p][w].from <= Len(log[p])
        /\ exch[p][w].st = "answered" => exch[p][w].ans \in {"cosigned", "stale"}
        /\ exch[p][w].st # "refused"

\* A witness refuses no log on one line with the one it holds, proved from a size
\* the log has.
LEMMA OneLineIsNotRefused ==
    ASSUME NEW mine \in Log, NEW tree \in Log, NEW main \in Log, NEW from \in Nat,
           IsPrefix(mine, main), IsPrefix(tree, main), from <= Len(tree)
    PROVE  AnswerFrom(mine, from, tree) \in {"cosigned", "stale"}
<1>1. CASE from # Len(mine)
  BY <1>1 DEF AnswerFrom
<1>2. CASE from = Len(mine)
  <2>1. IsPrefix(mine, tree)
    BY <1>2, PrefixComparable DEF Log
  <2>. QED BY <1>2, <2>1 DEF AnswerFrom
<1>. QED BY <1>1, <1>2

\* The origin's log has not shrunk, and a checkpoint that is started now is for a
\* prefix of it: what OneLine asks of a step.
StaysOnLine ==
    /\ IsPrefix(entriesOf(ref[Origin]), entriesOf(ref'[Origin]))
    /\ \A p \in Procs : CheckpointOpen(p) =>
          IsPrefix(entriesOf(ref[RepoOf[p]]), entriesOf(ref[Origin]))

\* A step that stays on line keeps everything on one line.
LEMMA OneLineStep ==
    ASSUME Inv, Inv', OneLine, [Next]_vars, StaysOnLine
    PROVE  OneLine'
<1> DEFINE main == entriesOf(ref[Origin])
           main2 == entriesOf(ref'[Origin])
<1>0. /\ main \in Log
      /\ main2 \in Log
      /\ IsPrefix(main, main2)
  BY ProcsAssumption, OpenedTypes DEF Inv, TypeOK, StaysOnLine
<1>1. ASSUME NEW tree \in Log, IsPrefix(tree, main)
      PROVE  IsPrefix(tree, main2)
  <2>. HIDE DEF main, main2
  <2>. QED BY <1>0, <1>1, PrefixTransitive DEF Log
<1>2. ASSUME NEW w \in Witnesses
      PROVE  IsPrefix(held'[w], main)
  <2>1. CASE UNCHANGED held
    BY <2>1 DEF OneLine
  <2>2. ASSUME NEW p \in Procs, NEW v \in Witnesses, WitnessAnswers(p, v)
        PROVE  IsPrefix(held'[w], main)
    <3>1. held'[w] \in {held[w], log[p]}
      BY <2>2 DEF WitnessAnswers, Update, WitnessVars, Inv, TypeOK, WitnessTypeOK
    <3>2. pc[p] = "cosign"
      BY <2>2 DEF WitnessAnswers, Inv, RequestChainsHold
    <3>. QED BY <3>1, <3>2 DEF OneLine
  <2>3. ASSUME NEW m \in late, WitnessLate(m)
        PROVE  IsPrefix(held'[w], main)
    <3>1. held'[w] \in {held[w], m.tree}
      BY <2>3 DEF WitnessLate, Update, WitnessVars, Inv, TypeOK, WitnessTypeOK, Request
    <3>. QED BY <3>1 DEF OneLine
  <2>4. \/ UNCHANGED held
        \/ \E p \in Procs, v \in Witnesses : WitnessAnswers(p, v)
        \/ \E m \in late : WitnessLate(m)
    BY DEF Next, Command, Environment, vars, WitnessVars, LogOpen, LogRef, LogNothing, LogSave,
           CheckpointOpen, Receive, Timeout, CheckpointRefused, CheckpointFinish, Crash,
           PushEntry, Rollback, Fetch, Push
  <2>. QED BY <2>1, <2>2, <2>3, <2>4
<1>3. ASSUME NEW p \in Procs, pc'[p] = "cosign"
      PROVE  IsPrefix(log'[p], main)
  <2>1. CASE pc[p] = "cosign" /\ log'[p] = log[p]
    BY <2>1 DEF OneLine
  <2>2. CASE CheckpointOpen(p)
    <3>1. log'[p] = entriesOf(ref[RepoOf[p]])
      BY <2>2 DEF CheckpointOpen, Open, Inv, TypeOK
    <3>. QED BY <2>2, <3>1 DEF StaysOnLine
  <2>3. CASE UNCHANGED <<pc, log>>
    BY <1>3, <2>3 DEF OneLine
  <2>4. ASSUME NEW q \in Procs, Return(q)
        PROVE  pc[p] = "cosign" /\ log'[p] = log[p]
    BY <1>3, <2>4 DEF Return, Inv, TypeOK
  <2>5. ASSUME NEW q \in Procs,
               LogOpen(q) \/ \E name \in Refs, object \in Objects : LogRef(q, name, object)
        PROVE  pc[p] = "cosign" /\ log'[p] = log[p]
    BY <1>3, <2>5 DEF LogOpen, Open, LogRef, Inv, TypeOK
  <2>6. ASSUME NEW q \in Procs, CheckpointOpen(q), q # p
        PROVE  pc[p] = "cosign" /\ log'[p] = log[p]
    BY <1>3, <2>6 DEF CheckpointOpen, Open, Inv, TypeOK
  <2>7. \/ UNCHANGED <<pc, log>>
        \/ \E q \in Procs :
              \/ Return(q)
              \/ LogOpen(q)
              \/ \E name \in Refs, object \in Objects : LogRef(q, name, object)
              \/ CheckpointOpen(q)
    BY DEF Next, Command, Environment, vars, procVars, LogNothing, LogSave, WitnessAnswers,
           WitnessLate, Receive, Timeout, CheckpointRefused, CheckpointFinish, Crash,
           PushEntry, Rollback, Fetch, Push
  <2>. QED BY <2>1, <2>2, <2>3, <2>4, <2>5, <2>6, <2>7
<1>4. ASSUME NEW m \in late'
      PROVE  IsPrefix(m.tree, main)
  <2>1. CASE late' \subseteq late
    BY <2>1 DEF OneLine
  <2>2. ASSUME NEW q \in Procs, NEW W \in SUBSET Witnesses, Abandon(q, W)
        PROVE  IsPrefix(m.tree, main)
    <3>1. \/ m \in late
          \/ m.tree = log[q] /\ \E w \in Witnesses : exch[q][w].st = "sent"
      BY <2>2 DEF Abandon
    <3>2. (\E w \in Witnesses : exch[q][w].st = "sent") => pc[q] = "cosign"
      BY DEF Inv, RequestChainsHold
    <3>. QED BY <3>1, <3>2 DEF OneLine
  <2>3. \/ late' \subseteq late
        \/ \E q \in Procs : \E W \in SUBSET Witnesses : Abandon(q, W)
    BY DEF Next, Command, Environment, vars, procVars, LogOpen, LogRef, LogNothing, LogSave,
           CheckpointOpen, WitnessAnswers, WitnessLate, Receive, Timeout, CheckpointRefused,
           CheckpointFinish, Crash, PushEntry, Rollback, Fetch, Push, Return
  <2>. QED BY <2>1, <2>2, <2>3
<1>5. /\ \A w \in Witnesses : held'[w] \in Log
      /\ \A p \in Procs : log'[p] \in Log
      /\ \A m \in late' : m.tree \in Log
  BY DEF Inv, TypeOK, WitnessTypeOK, Request
<1>. QED BY <1>1, <1>2, <1>3, <1>4, <1>5 DEF OneLine

\* submit starts an exchange only from a size the log has, and is never refused.
LEMMA SubmitFits ==
    ASSUME NEW tree \in Log, NEW from \in Nat, NEW retry \in BOOLEAN
    PROVE  /\ Submit(tree, from, retry).st \in {"sent", "skipped"}
           /\ Submit(tree, from, retry).st = "sent" => Submit(tree, from, retry).from <= Len(tree)
<1>1. Len(tree) \in Nat
  BY DEF Log
<1>. QED BY <1>1 DEF Submit, Settled

\* As long as everything is on one line, no witness refuses anything.
LEMMA NoRefusalStep ==
    ASSUME Inv, OneLine, NoRefusalPending, [Next]_vars
    PROVE  NoRefusalPending'
<1>. USE DEF Inv, TypeOK
<1>1. CASE UNCHANGED <<log, exch>>
  BY <1>1 DEF NoRefusalPending
<1>2. ASSUME NEW p \in Procs, Return(p)
      PROVE  NoRefusalPending'
  BY <1>2 DEF Return, NoExchange, Settled, NoRefusalPending
<1>3. ASSUME NEW p \in Procs, pc[p] # "cosign", UNCHANGED exch,
             \A q \in Procs : q # p => log'[q] = log[q]
      PROVE  NoRefusalPending'
  <2>1. \A w \in Witnesses : exch[p][w].st = "none"
    BY <1>3 DEF RequestChainsHold
  <2>. QED BY <1>3, <2>1 DEF NoRefusalPending
<1>4. ASSUME NEW p \in Procs, CheckpointOpen(p)
      PROVE  NoRefusalPending'
  <2> DEFINE h == ref[RepoOf[p]]
             x(w) == IF w \in NoURL THEN Settled("skipped")
                     ELSE Submit(entriesOf(h), Len(checkpointOf(h).tree), FALSE)
  <2>1. h \in History
    BY ProcsAssumption
  <2>2. entriesOf(h) \in Log /\ Len(checkpointOf(h).tree) \in Nat
    BY <2>1, OpenedTypes DEF Checkpoint, Log
  <2>3. /\ exch' = [exch EXCEPT ![p] = [w \in Witnesses |-> x(w)]]
        /\ log' = [log EXCEPT ![p] = entriesOf(h)]
    BY <1>4 DEF CheckpointOpen, Open
  <2>4. ASSUME NEW w \in Witnesses
        PROVE  /\ x(w).st \in {"sent", "skipped"}
               /\ x(w).st = "sent" => x(w).from <= Len(entriesOf(h))
    BY <2>2, SubmitFits DEF Settled
  <2>. HIDE DEF h, x
  <2>. QED BY <2>3, <2>4 DEF NoRefusalPending
<1>5. ASSUME NEW p \in Procs, NEW w \in Witnesses, WitnessAnswers(p, w)
      PROVE  NoRefusalPending'
  <2> DEFINE x == exch[p][w]
             y == [st |-> "answered", from |-> x.from, retry |-> x.retry,
                   ans |-> Answer(w, x.from, log[p]), size |-> Len(held[w])]
  <2>1. x.st = "sent" /\ exch' = [exch EXCEPT ![p][w] = y] /\ log' = log
    BY <1>5 DEF WitnessAnswers
  <2>2. pc[p] = "cosign" /\ x.from \in Nat /\ x.from <= Len(log[p])
    BY <2>1 DEF RequestChainsHold, NoRefusalPending, Exchange
  <2>3. /\ held[w] \in Log /\ log[p] \in Log /\ entriesOf(ref[Origin]) \in Log
        /\ IsPrefix(held[w], entriesOf(ref[Origin]))
        /\ IsPrefix(log[p], entriesOf(ref[Origin]))
    BY <2>2, ProcsAssumption, OpenedTypes DEF OneLine, WitnessTypeOK
  <2>4. Answer(w, x.from, log[p]) \in {"cosigned", "stale"}
    BY <2>2, <2>3, OneLineIsNotRefused DEF Answer
  <2>5. y.st = "answered" /\ y.ans \in {"cosigned", "stale"}
    BY <2>4
  <2>. HIDE DEF y
  <2>. QED BY <2>1, <2>5 DEF NoRefusalPending
<1>6. ASSUME NEW p \in Procs, NEW w \in Witnesses, Receive(p, w)
      PROVE  NoRefusalPending'
  <2> DEFINE x == exch[p][w]
             y == IF x.ans = "cosigned" THEN Settled("cosigned")
                  ELSE IF x.ans # "stale" THEN Settled("refused")
                  ELSE IF x.size # x.from /\ ~ x.retry THEN Submit(log[p], x.size, TRUE)
                  ELSE Settled("skipped")
  <2>1. x.st = "answered" /\ exch' = [exch EXCEPT ![p][w] = y] /\ log' = log
    BY <1>6 DEF Receive
  <2>2. x.ans \in {"cosigned", "stale"} /\ x.size \in Nat /\ log[p] \in Log
    BY <2>1 DEF NoRefusalPending, Exchange
  <2>3. /\ y.st \in {"sent", "skipped", "cosigned"}
        /\ y.st = "sent" => y.from <= Len(log[p])
    BY <2>2, SubmitFits DEF Settled
  <2>. HIDE DEF y
  <2>. QED BY <2>1, <2>3 DEF NoRefusalPending
<1>7. ASSUME NEW p \in Procs, NEW w \in Witnesses, Timeout(p, w)
      PROVE  NoRefusalPending'
  BY <1>7 DEF Timeout, Settled, NoRefusalPending
<1>8. \/ UNCHANGED <<log, exch>>
      \/ \E p \in Procs :
            \/ Return(p)
            \/ LogOpen(p)
            \/ \E name \in Refs, object \in Objects : LogRef(p, name, object)
            \/ CheckpointOpen(p)
            \/ \E w \in Witnesses : WitnessAnswers(p, w) \/ Receive(p, w) \/ Timeout(p, w)
  BY DEF Next, Command, Environment, vars, procVars, LogNothing, LogSave, WitnessLate,
         CheckpointRefused, CheckpointFinish, Crash, PushEntry, Rollback, Fetch, Push
<1>9. ASSUME NEW p \in Procs,
             LogOpen(p) \/ \E name \in Refs, object \in Objects : LogRef(p, name, object)
      PROVE  NoRefusalPending'
  BY <1>3, <1>9 DEF LogOpen, Open, LogRef
<1>. QED BY <1>1, <1>2, <1>4, <1>5, <1>6, <1>7, <1>8, <1>9

\* Nothing is submitted at first.
LEMMA InitOneLine == Init => OneLine /\ NoRefusalPending
<1>. SUFFICES ASSUME Init PROVE OneLine /\ NoRefusalPending
  OBVIOUS
<1>1. entriesOf(ref[Origin]) = <<>> /\ IsPrefix(<<>>, <<>>)
  <2>1. <<>> \in Log
    BY DEF Log
  <2>. QED BY <2>1, PrefixReflexive, ProcsAssumption DEF Init, entriesOf, Log
<1>2. OneLine
  BY <1>1 DEF Init, WitnessInit, OneLine
<1>3. NoRefusalPending
  BY DEF Init, NoExchange, Settled, NoRefusalPending
<1>. QED BY <1>2, <1>3

\* Where all commands run in one clone and nobody resets a log ref, no interleaving
\* of commands, crashes, timeouts and late requests has a witness refuse a
\* checkpoint: a refusal is evidence that the log did not grow by appending.
THEOREM RefusalIsEvidence ==
    (\A p \in Procs : RepoOf[p] = Origin) /\ ~ Rollbacks => (Spec => []NoSpuriousRefusal)
<1>. SUFFICES ASSUME \A p \in Procs : RepoOf[p] = Origin, ~ Rollbacks
              PROVE  Spec => []NoSpuriousRefusal
  OBVIOUS
<1> DEFINE I == HistoryInv /\ OneLine /\ NoRefusalPending
<1>1. Init => I
  <2>1. Init => HistoryInv
    BY InitHistoryInv
  <2>. QED BY <2>1, InitOneLine
<1>2. I /\ [Next]_vars => I'
  <2>. SUFFICES ASSUME I, [Next]_vars PROVE I'
    OBVIOUS
  <2>1. HistoryInv'
    BY NextHistoryInv
  <2>2. [Advance]_vars
    BY NextAdvances DEF HistoryInv, Inv
  <2>3. Keeps(ref[Origin], ref'[Origin])
    BY <2>2, EveryRefAdvances, AdvanceGrows, ProcsAssumption DEF HistoryInv
  <2>4. entriesOf(ref[Origin]) \in Log
    BY OpenedTypes, ProcsAssumption DEF HistoryInv, Inv, TypeOK
  <2>5. StaysOnLine
    BY <2>3, <2>4, PrefixReflexive DEF StaysOnLine, Keeps, Log
  <2>. QED BY <2>1, <2>5, OneLineStep, NoRefusalStep DEF HistoryInv
<1>3. I => NoSpuriousRefusal
  BY DEF NoRefusalPending, NoSpuriousRefusal
<1>. QED BY <1>1, <1>2, <1>3, PTL DEF Spec

-----------------------------------------------------------------------------
(* Workflows, for any number of overlapping runs.                          *)

\* A run that has not saved yet works on a log ref that is a commit of the
\* origin's history, current or not.
CloneIsBehind ==
    \A p \in Procs : step[p] = "command" => IsPrefix(ref[RepoOf[p]], ref[Origin])

\* A clone without a run is empty.
ClonesStartEmpty ==
    /\ step \in [Procs -> {"none", "command", "push", "ended"}]
    /\ \A p \in Procs : step[p] = "none" => ref[RepoOf[p]] = <<>>

\* The inductive invariant of the workflows: HistoryInv for the log refs, OneLine
\* and NoRefusalPending for the witnesses, and where each run's clone stands.
WorkflowsInv ==
    /\ HistoryInv
    /\ ClonesStartEmpty
    /\ CloneIsBehind
    /\ OneLine
    /\ NoRefusalPending

\* The origin is no run's clone.
LEMMA ClonesApart ==
    ASSUME NEW p \in Procs
    PROVE  RepoOf[p] \in Repos /\ RepoOf[p] # Origin /\ Origin \in Repos
BY ProcsAssumption, WorkflowsAssumption

\* A run takes the steps of module Ratchet, resets excepted, or throws its clone
\* away.
LEMMA RunAdvances ==
    ASSUME WorkflowsNext
    PROVE  [Advance]_vars \/ \E p \in Procs : Discard(p)
BY ClonesApart, ProcsAssumption
   DEF WorkflowsNext, Run, Others, CheckoutAndFetch, CommandRuns, CommandSucceeds, CommandFails,
       PushLogRef, RunEnds, Command, Advance

\* A step that resets nothing is one of module Ratchet.
LEMMA AdvanceIsNext ==
    ASSUME [Advance]_vars
    PROVE  [Next]_vars
BY DEF Advance, Next, Environment

\* A clone that is thrown away takes nothing with it that the invariants speak of.
LEMMA DiscardHistoryInv ==
    ASSUME HistoryInv, NEW p \in Procs, Discard(p)
    PROVE  HistoryInv'
<1>1. ref' = [ref EXCEPT ![RepoOf[p]] = <<>>] /\ UNCHANGED <<WitnessVars, procVars, late>>
  BY DEF Discard
<1>2. \A q \in Repos : ref'[q] = ref[q] \/ ref'[q] = <<>>
  BY <1>1 DEF HistoryInv, Inv, TypeOK
<1>3. TypeOK'
  <2>1. <<>> \in History
    BY DEF History
  <2>. QED BY <1>1, <2>1 DEF HistoryInv, Inv, TypeOK, WitnessTypeOK, WitnessVars, procVars
<1>4. CosignedGrows
  BY <1>1 DEF WitnessVars, CosignedGrows
<1>5. StoredCheckpointVerifies'
  BY <1>2, <1>4, OldCommitsVerify DEF HistoryInv
<1>6. HeldExtendsCosigned' /\ CosignedChainsHold'
  BY <1>1 DEF HistoryInv, Inv, WitnessVars, HeldExtendsCosigned, CosignedChainsHold
<1>7. RequestChainsHold' /\ CollectedIsGenuine' /\ LogExtendsHead' /\ CosignHoldsHead'
  BY <1>1 DEF HistoryInv, Inv, WitnessVars, procVars, RequestChainsHold, CollectedIsGenuine,
              LogExtendsHead, CosignHoldsHead
<1>8. HistoryGrows'
  BY <1>2 DEF HistoryInv, HistoryGrows
<1>. QED BY <1>3, <1>5, <1>6, <1>7, <1>8 DEF HistoryInv, Inv

\* The origin's log ref moves to descendants only.
LEMMA OriginStep ==
    ASSUME HistoryInv, [WorkflowsNext]_wvars
    PROVE  IsPrefix(ref[Origin], ref'[Origin]) /\ Keeps(ref[Origin], ref'[Origin])
<1>1. Origin \in Repos /\ ref[Origin] \in History
  BY ProcsAssumption DEF HistoryInv, Inv, TypeOK
<1>2. CASE [Advance]_vars
  BY <1>1, <1>2, EveryRefAdvances, AdvanceGrows DEF HistoryInv
<1>3. ASSUME NEW p \in Procs, Discard(p)
      PROVE  ref'[Origin] = ref[Origin]
  BY <1>1, <1>3, ClonesApart DEF Discard, HistoryInv, Inv, TypeOK
<1>4. CASE ref'[Origin] = ref[Origin]
  BY <1>1, <1>4, KeepsItself, PrefixReflexive DEF History
<1>5. CASE UNCHANGED wvars
  BY <1>4, <1>5 DEF wvars, vars
<1>. QED BY <1>2, <1>3, <1>4, <1>5, RunAdvances

\* The commands of a slot change their own process and their own clone only.
LEMMA CommandIsPrivate ==
    ASSUME TypeOK, NEW q \in Procs, Command(q), NEW p \in Procs, p # q
    PROVE  ref'[RepoOf[p]] = ref[RepoOf[p]] /\ pc'[p] = pc[p]
<1>1. RepoOf[p] # RepoOf[q] /\ RepoOf[p] \in Repos /\ RepoOf[q] \in Repos
  BY WorkflowsAssumption, ProcsAssumption
<1>2. pc'[p] = pc[p]
  BY DEF TypeOK, Command, LogOpen, LogRef, LogNothing, LogSave, CheckpointOpen, WitnessAnswers,
         Receive, Timeout, CheckpointRefused, CheckpointFinish, Crash, Return, Open
<1>3. \/ ref' = ref
      \/ \E checkpoint : Save(q, checkpoint)
  BY DEF Command, LogOpen, LogRef, LogNothing, LogSave, CheckpointOpen, WitnessAnswers,
         Receive, Timeout, CheckpointRefused, CheckpointFinish, Crash
<1>. QED BY <1>1, <1>2, <1>3 DEF Save, TypeOK

\* A command that goes on has not saved.
LEMMA RunningHasNotSaved ==
    ASSUME TypeOK, NEW p \in Procs, Command(p), pc'[p] # "idle"
    PROVE  ref' = ref
BY DEF TypeOK, Command, LogOpen, LogRef, LogNothing, LogSave, CheckpointOpen, WitnessAnswers,
       Receive, Timeout, CheckpointRefused, CheckpointFinish, Crash, Return

\* No run touches the clone, the step or the process of another, and none of them
\* is touched from outside.
LEMMA OtherRunsStay ==
    ASSUME TypeOK, NEW q \in Procs, Run(q), NEW p \in Procs, p # q,
           step \in [Procs -> {"none", "command", "push", "ended"}]
    PROVE  ref'[RepoOf[p]] = ref[RepoOf[p]] /\ pc'[p] = pc[p] /\ step'[p] = step[p]
<1>1. /\ RepoOf[p] # RepoOf[q] /\ RepoOf[p] # Origin
      /\ RepoOf[p] \in Repos /\ RepoOf[q] \in Repos /\ Origin \in Repos
  BY WorkflowsAssumption, ProcsAssumption
<1>2. step'[p] = step[p]
  BY DEF Run, CheckoutAndFetch, CommandRuns, CommandSucceeds, CommandFails, PushLogRef, RunEnds,
         Discard, Goto
<1>3. CASE Command(q)
  BY <1>2, <1>3, CommandIsPrivate
<1>4. CASE Fetch(RepoOf[q]) \/ Push(RepoOf[q]) \/ Discard(q) \/ UNCHANGED vars
  BY <1>1, <1>2, <1>4 DEF Fetch, Push, Discard, vars, procVars, TypeOK
<1>5. Command(q) \/ Fetch(RepoOf[q]) \/ Push(RepoOf[q]) \/ Discard(q) \/ UNCHANGED vars
  BY DEF Run, CheckoutAndFetch, CommandRuns, CommandSucceeds, CommandFails, PushLogRef, RunEnds,
         Command
<1>. QED BY <1>3, <1>4, <1>5

\* What one step does to the clone of one run: nothing outside its own steps; in
\* the command, nothing before it returns; the fetch makes it the origin's log.
CloneMoves(p) ==
    \/ ref'[RepoOf[p]] = ref[RepoOf[p]] /\ step'[p] = step[p] /\ pc'[p] = pc[p]
    \/ /\ step[p] = "none" /\ step'[p] = "command" /\ pc'[p] = pc[p]
       /\ ref'[RepoOf[p]] = ref[Origin] \/ ref'[RepoOf[p]] = ref[RepoOf[p]]
    \/ /\ step[p] = "command" /\ step'[p] # "none"
       /\ step'[p] = "command" => ref'[RepoOf[p]] = ref[RepoOf[p]]
    \/ /\ step[p] \in {"command", "push"} /\ step'[p] = "ended" /\ pc'[p] = pc[p]
    \/ /\ step[p] = "ended" /\ step'[p] = "none" /\ pc'[p] = pc[p]
       /\ ref'[RepoOf[p]] = <<>>

\* Every step is one of these for every run.
LEMMA CloneStep ==
    ASSUME TypeOK, [WorkflowsNext]_wvars, NEW p \in Procs,
           step \in [Procs -> {"none", "command", "push", "ended"}]
    PROVE  CloneMoves(p)
<1>. USE DEF CloneMoves
<1>0. RepoOf[p] \in Repos /\ RepoOf[p] # Origin /\ Origin \in Repos
  BY ClonesApart
<1>1. CASE CheckoutAndFetch(p)
  BY <1>0, <1>1 DEF CheckoutAndFetch, Goto, Fetch, vars, procVars, TypeOK
<1>2. CASE CommandRuns(p)
  BY <1>2, RunningHasNotSaved DEF CommandRuns
<1>3. CASE CommandSucceeds(p) \/ CommandFails(p)
  BY <1>3 DEF CommandSucceeds, CommandFails, Goto
<1>4. CASE PushLogRef(p) \/ RunEnds(p)
  BY <1>4 DEF PushLogRef, RunEnds, Goto, Push, vars, procVars
<1>5. CASE Discard(p)
  BY <1>0, <1>5 DEF Discard, Goto, procVars, TypeOK
<1>6. ASSUME NEW q \in Procs, Run(q), q # p
      PROVE  CloneMoves(p)
  BY <1>6, OtherRunsStay
<1>7. CASE Others \/ UNCHANGED wvars
  BY <1>0, <1>7 DEF Others, WitnessLate, PushEntry, procVars, wvars, vars, TypeOK
<1>. QED BY <1>1, <1>2, <1>3, <1>4, <1>5, <1>6, <1>7 DEF WorkflowsNext, Run

\* Where the clones stand after a step.
LEMMA ClonesStep ==
    ASSUME WorkflowsInv, [WorkflowsNext]_wvars
    PROVE  ClonesStartEmpty' /\ CloneIsBehind'
<1>0. TypeOK /\ step \in [Procs -> {"none", "command", "push", "ended"}]
  BY DEF WorkflowsInv, HistoryInv, Inv, ClonesStartEmpty
<1>1. step' \in [Procs -> {"none", "command", "push", "ended"}]
  BY <1>0 DEF WorkflowsNext, Run, Others, CheckoutAndFetch, CommandRuns, CommandSucceeds,
              CommandFails, PushLogRef, RunEnds, Discard, Goto, wvars
<1>2. HistoryInv'
  BY NextHistoryInv, DiscardHistoryInv, RunAdvances, AdvanceIsNext DEF WorkflowsInv, wvars, vars
<1>3. ASSUME NEW p \in Procs, step'[p] = "none"
      PROVE  ref'[RepoOf[p]] = <<>>
  BY <1>0, <1>3, CloneStep DEF CloneMoves, WorkflowsInv, ClonesStartEmpty
<1>4. ASSUME NEW p \in Procs, step'[p] = "command"
      PROVE  IsPrefix(ref'[RepoOf[p]], ref'[Origin])
  <2>1. /\ RepoOf[p] \in Repos /\ Origin \in Repos
        /\ ref[RepoOf[p]] \in History /\ ref'[RepoOf[p]] \in History
        /\ ref[Origin] \in History /\ ref'[Origin] \in History
    BY <1>0, <1>2, ClonesApart DEF HistoryInv, Inv, TypeOK
  <2>2. IsPrefix(ref[Origin], ref'[Origin])
    BY OriginStep DEF WorkflowsInv
  <2>3. \/ ref'[RepoOf[p]] = ref[Origin]
        \/ ref'[RepoOf[p]] = ref[RepoOf[p]] /\ step[p] \in {"none", "command"}
    BY <1>0, <1>4, CloneStep DEF CloneMoves
  <2>4. IsPrefix(ref'[RepoOf[p]], ref[Origin])
    <3>1. step[p] = "none" => ref[RepoOf[p]] = <<>>
      BY DEF WorkflowsInv, ClonesStartEmpty
    <3>2. step[p] = "command" => IsPrefix(ref[RepoOf[p]], ref[Origin])
      BY DEF WorkflowsInv, CloneIsBehind
    <3>3. IsPrefix(<<>>, ref[Origin]) /\ IsPrefix(ref[Origin], ref[Origin])
      BY <2>1, PrefixReflexive DEF History
    <3>. QED BY <2>3, <3>1, <3>2, <3>3
  <2>. QED BY <2>1, <2>2, <2>4, PrefixTransitive DEF History
<1>. QED BY <1>1, <1>3, <1>4 DEF ClonesStartEmpty, CloneIsBehind

\* Everything submitted to a witness stays on the origin's line.
LEMMA WorkflowsLine ==
    ASSUME WorkflowsInv, [WorkflowsNext]_wvars
    PROVE  HistoryInv' /\ OneLine' /\ NoRefusalPending'
<1>1. HistoryInv'
  BY NextHistoryInv, DiscardHistoryInv, RunAdvances, AdvanceIsNext DEF WorkflowsInv, wvars, vars
<1>2. CASE [Advance]_vars
  <2>1. IsPrefix(entriesOf(ref[Origin]), entriesOf(ref'[Origin]))
    BY OriginStep DEF WorkflowsInv, Keeps
  <2>2. ASSUME NEW p \in Procs, CheckpointOpen(p)
        PROVE  IsPrefix(entriesOf(ref[RepoOf[p]]), entriesOf(ref[Origin]))
    <3>1. pc[p] = "idle" /\ pc'[p] = "cosign"
      BY <2>2 DEF CheckpointOpen, Open, WorkflowsInv, HistoryInv, Inv, TypeOK
    <3>2. step[p] = "command"
      BY <3>1, CloneStep DEF CloneMoves, WorkflowsInv, HistoryInv, Inv, ClonesStartEmpty
    <3>3. IsPrefix(ref[RepoOf[p]], ref[Origin])
      BY <3>2 DEF WorkflowsInv, CloneIsBehind
    <3>4. /\ ref[RepoOf[p]] \in History
          /\ ref[Origin] \in History
          /\ Grows(ref[Origin])
      BY ClonesApart, HistoryGrowsByRef DEF WorkflowsInv, HistoryInv, Inv, TypeOK
    <3>. QED BY <3>3, <3>4, EarlierGrows DEF Keeps
  <2>3. StaysOnLine
    BY <2>1, <2>2 DEF StaysOnLine
  <2>. QED BY <1>1, <1>2, <2>3, AdvanceIsNext, OneLineStep, NoRefusalStep
           DEF WorkflowsInv, HistoryInv
<1>3. ASSUME NEW p \in Procs, Discard(p)
      PROVE  OneLine' /\ NoRefusalPending'
  <2>1. ref'[Origin] = ref[Origin] /\ UNCHANGED <<WitnessVars, procVars, late>>
    BY <1>3, ClonesApart DEF Discard, WorkflowsInv, HistoryInv, Inv, TypeOK
  <2>. QED BY <2>1 DEF WorkflowsInv, OneLine, NoRefusalPending, WitnessVars, procVars
<1>4. CASE UNCHANGED wvars
  BY <1>2, <1>4 DEF wvars
<1>. QED BY <1>1, <1>2, <1>3, <1>4, RunAdvances

\* WorkflowsInv holds in every reachable state.
THEOREM WorkflowsInvariance == WorkflowsSpec => []WorkflowsInv
<1>1. WorkflowsInit => WorkflowsInv
  <2>. SUFFICES ASSUME WorkflowsInit PROVE WorkflowsInv
    OBVIOUS
  <2>1. ClonesStartEmpty /\ CloneIsBehind
    BY ClonesApart DEF WorkflowsInit, Init, ClonesStartEmpty, CloneIsBehind
  <2>. QED BY <2>1, InitHistoryInv, InitOneLine DEF WorkflowsInit, WorkflowsInv
<1>2. WorkflowsInv /\ [WorkflowsNext]_wvars => WorkflowsInv'
  BY ClonesStep, WorkflowsLine DEF WorkflowsInv
<1>. QED BY <1>1, <1>2, PTL DEF WorkflowsSpec

\* Whatever runs are lost, rejected or answered late, everything a witness ever
\* holds is in the log of the origin, so that log can be checkpointed again.
THEOREM WitnessesHoldOriginsLog == WorkflowsSpec => []HeldIsInLog
<1>1. WorkflowsInv => HeldIsInLog
  BY DEF WorkflowsInv, OneLine, HeldIsInLog
<1>. QED BY <1>1, WorkflowsInvariance, PTL

\* No overlap of runs has a witness refuse a checkpoint.
THEOREM RunsAreNotRefused == WorkflowsSpec => []NoSpuriousRefusal
<1>1. WorkflowsInv => NoSpuriousRefusal
  BY DEF WorkflowsInv, NoRefusalPending, NoSpuriousRefusal
<1>. QED BY <1>1, WorkflowsInvariance, PTL

\* The origin's log ref moves only to descendants, though every run pushes from a
\* clone that may be out of date.
THEOREM OriginIsFastForwarded == WorkflowsSpec => OriginMovesForward
<1>1. WorkflowsInv /\ [WorkflowsNext]_wvars => [IsPrefix(ref[Origin], ref'[Origin])]_wvars
  BY OriginStep DEF WorkflowsInv
<1>. QED BY <1>1, WorkflowsInvariance, PTL DEF WorkflowsSpec, OriginMovesForward
=============================================================================
