--------------------------- MODULE RatchetProofs ---------------------------
(***************************************************************************)
(* Proofs about Ratchet for every number of processes, clones, witnesses,  *)
(* refs, objects and entries.                                              *)
(***************************************************************************)
EXTENDS Ratchet, PrefixLemmas

-----------------------------------------------------------------------------
(* The ratchet rule of RefChain: comparing each entry of a ref with the    *)
(* one before it relates all of them.                                      *)

\* The relation the rule asks of two entries for a ref.
Follows(t, name, i, j) ==
    \/ t[i].object = t[j].object
    \/ /\ name \in Branches
       /\ IsAncestor(t[i].object, t[j].object)

\* The rule is transitive, because ancestry is.
LEMMA FollowsTransitive ==
    ASSUME NEW t \in Log, NEW name \in Refs,
           NEW i \in RefRecords(t, name), NEW j \in RefRecords(t, name),
           NEW k \in RefRecords(t, name),
           Follows(t, name, i, j), Follows(t, name, j, k)
    PROVE  Follows(t, name, i, k)
<1>1. /\ t[i].object \in Objects
      /\ t[j].object \in Objects
      /\ t[k].object \in Objects
  BY DEF RefRecords, RefRecord
<1>. QED BY <1>1, AncestryAssumption DEF Follows, IsAncestor

\* checkRefChain compares neighbours only, after collapsing repeats; on every log
\* it thereby relates any two entries for the ref.
THEOREM ChainRelatesAll ==
    ASSUME NEW t \in Log, NEW name \in Refs, checkRefChain(t, name),
           NEW i \in RefRecords(t, name), NEW j \in RefRecords(t, name), i <= j
    PROVE  Follows(t, name, i, j)
<1> DEFINE R == RefRecords(t, name)
           Bad == {m \in R : i <= m /\ ~ Follows(t, name, i, m)}
<1>1. R \subseteq 1..Len(t) /\ Len(t) \in Nat
  BY DEF RefRecords, Log
<1>2. SUFFICES ASSUME Bad # {} PROVE FALSE
  OBVIOUS
<1>3. PICK b \in Bad : \A m \in Bad : b <= m
  <2>1. Bad \subseteq Nat
    BY <1>1
  <2>. HIDE DEF Bad
  <2>. QED BY <1>2, <2>1, LeastNatural
<1>4. b # i
  BY <1>3 DEF Follows
<1> DEFINE Before == {m \in R : i <= m /\ m < b}
<1>5. PICK k \in Before : \A m \in Before : m <= k
  <2>1. i \in Before /\ Before \subseteq 0..Len(t)
    BY <1>1, <1>3, <1>4
  <2>. HIDE DEF Before
  <2>. QED BY <1>1, <2>1, GreatestNatural
<1>6. Consecutive(t, name, k, b)
  BY <1>1, <1>3, <1>5 DEF Consecutive
<1>7. Follows(t, name, k, b)
  BY <1>1, <1>3, <1>5, <1>6 DEF checkRefChain, Follows
<1>8. Follows(t, name, i, k)
  BY <1>1, <1>3, <1>5
<1>9. Follows(t, name, i, b)
  BY <1>3, <1>5, <1>7, <1>8, FollowsTransitive
<1>. QED BY <1>3, <1>9

-----------------------------------------------------------------------------
(* Types of the operators the actions are built from.                      *)

\* What Open reads of a log ref: the entries and the stored checkpoint of the
\* commit it names, or an empty log.
LEMMA OpenedTypes ==
    ASSUME NEW h \in History
    PROVE  /\ entriesOf(h) \in Log
           /\ checkpointOf(h) \in Checkpoint
<1>1. CASE h = <<>>
  BY <1>1 DEF entriesOf, checkpointOf, NoCheckpoint, Checkpoint, Log
<1>2. CASE h # <<>>
  <2>1. h[Len(h)] \in Commit
    BY <1>2 DEF History
  <2>. QED BY <1>2, <2>1 DEF entriesOf, checkpointOf, Commit
<1>. QED BY <1>1, <1>2

\* An exchange that is settled, started or started again is an exchange.
LEMMA ExchangeTypes ==
    /\ \A st \in {"none", "sent", "cosigned", "skipped", "refused"} : Settled(st) \in Exchange
    /\ NoExchange \in [Witnesses -> Exchange]
    /\ \A tree \in Log, from \in Nat, retry \in BOOLEAN :
          Submit(tree, from, retry) \in Exchange
BY DEF Settled, Exchange, Answers, NoExchange, Submit

\* A witness answers every request, whatever tree it holds.
LEMMA AnswerType ==
    ASSUME NEW w, NEW from, NEW tree
    PROVE  Answer(w, from, tree) \in Answers
BY DEF Answer, AnswerFrom, Answers

\* Handling a request keeps the state of the witnesses well typed.
LEMMA UpdateType ==
    ASSUME WitnessTypeOK, NEW w \in Witnesses, NEW from, NEW tree \in Log,
           Update(w, from, tree)
    PROVE  WitnessTypeOK'
BY DEF WitnessTypeOK, Update, WitnessVars

\* The process state after a command has returned.
LEMMA ReturnType ==
    ASSUME TypeOK, NEW p \in Procs, Return(p)
    PROVE  /\ pc' \in [Procs -> {"idle", "log", "cosign"}]
           /\ head' \in [Procs -> History]
           /\ log' \in [Procs -> Log]
           /\ cp' \in [Procs -> Checkpoint]
           /\ exch' \in [Procs -> [Witnesses -> Exchange]]
           /\ late' \subseteq Request
<1>1. <<>> \in History /\ <<>> \in Log /\ NoCheckpoint \in Checkpoint
  BY DEF History, Log, NoCheckpoint, Checkpoint
<1>2. late' \subseteq Request
  BY DEF TypeOK, Return, Abandon, Request, Exchange
<1>. QED BY <1>1, <1>2, ExchangeTypes DEF TypeOK, Return

\* A compare-and-swap leaves every log ref a history.
LEMMA SaveType ==
    ASSUME TypeOK, NEW p \in Procs, NEW checkpoint \in Checkpoint, Save(p, checkpoint)
    PROVE  ref' \in [Repos -> History]
<1>1. RepoOf[p] \in Repos
  BY ProcsAssumption
<1>2. [entries |-> log[p], cp |-> checkpoint] \in Commit
  BY DEF TypeOK, Commit
<1>3. Append(head[p], [entries |-> log[p], cp |-> checkpoint]) \in History
  BY <1>2 DEF TypeOK, History
<1>. QED BY <1>1, <1>3 DEF TypeOK, Save

\* The process state after Open.
LEMMA OpenType ==
    ASSUME TypeOK, NEW p \in Procs, NEW st \in {"log", "cosign"}, Open(p, st)
    PROVE  /\ pc' \in [Procs -> {"idle", "log", "cosign"}]
           /\ head' \in [Procs -> History]
           /\ log' \in [Procs -> Log]
           /\ cp' \in [Procs -> Checkpoint]
<1>1. ref[RepoOf[p]] \in History
  BY ProcsAssumption DEF TypeOK
<1>. QED BY <1>1, OpenedTypes DEF TypeOK, Open

-----------------------------------------------------------------------------
(* Type correctness.                                                       *)

\* Everything starts empty, and so well typed.
LEMMA InitTypeOK == Init => TypeOK
<1>1. <<>> \in History /\ <<>> \in Log /\ NoCheckpoint \in Checkpoint
  BY DEF History, Log, NoCheckpoint, Checkpoint
<1>. QED BY <1>1, ExchangeTypes DEF Init, WitnessInit, TypeOK, WitnessTypeOK

\* Every step of a command keeps the types, one case per action.
LEMMA CommandTypeOK ==
    ASSUME TypeOK, NEW p \in Procs, Command(p)
    PROVE  TypeOK'
<1>. USE DEF WitnessTypeOK, WitnessVars
<1>1. CASE LogOpen(p)
  BY <1>1, OpenType DEF LogOpen, TypeOK
<1>2. ASSUME NEW name \in Refs, NEW object \in Objects, LogRef(p, name, object)
      PROVE  TypeOK'
  <2>1. [ref |-> name, object |-> object] \in Entry
    BY DEF Entry, RefRecord
  <2>2. Append(log[p], [ref |-> name, object |-> object]) \in Log
    BY <2>1 DEF TypeOK, Log
  <2>. QED BY <1>2, <2>2 DEF LogRef, TypeOK
<1>3. CASE LogNothing(p)
  BY <1>3, ReturnType DEF LogNothing, TypeOK
<1>4. CASE LogSave(p)
  <2>1. ref' \in [Repos -> History]
    BY <1>4, SaveType DEF LogSave, TypeOK
  <2>. QED BY <1>4, <2>1, ReturnType DEF LogSave, TypeOK
<1>5. CASE CheckpointOpen(p)
  <2>1. ref[RepoOf[p]] \in History
    BY ProcsAssumption DEF TypeOK
  <2>2. /\ entriesOf(ref[RepoOf[p]]) \in Log
        /\ Len(checkpointOf(ref[RepoOf[p]]).tree) \in Nat
    BY <2>1, OpenedTypes DEF Checkpoint, Log
  <2>3. exch' \in [Procs -> [Witnesses -> Exchange]]
    BY <1>5, <2>2, ExchangeTypes DEF CheckpointOpen, TypeOK
  <2>. QED BY <1>5, <2>3, OpenType DEF CheckpointOpen, TypeOK
<1>6. ASSUME NEW w \in Witnesses, WitnessAnswers(p, w)
      PROVE  TypeOK'
  <2>1. WitnessTypeOK'
    BY <1>6, UpdateType DEF WitnessAnswers, TypeOK
  <2>2. Len(held[w]) \in Nat /\ Answer(w, exch[p][w].from, log[p]) \in Answers
    BY AnswerType DEF TypeOK, Log
  <2> DEFINE x == exch[p][w]
             y == [st |-> "answered", from |-> x.from, retry |-> x.retry,
                   ans |-> Answer(w, x.from, log[p]), size |-> Len(held[w])]
  <2>3. y \in Exchange
    <3>1. x \in Exchange
      BY DEF TypeOK
    <3>. QED BY <2>2, <3>1 DEF Exchange
  <2>4. exch' = [exch EXCEPT ![p][w] = y]
    BY <1>6 DEF WitnessAnswers
  <2>5. exch' \in [Procs -> [Witnesses -> Exchange]]
    BY <2>3, <2>4 DEF TypeOK
  <2>. QED BY <1>6, <2>1, <2>5 DEF WitnessAnswers, TypeOK
<1>7. ASSUME NEW w \in Witnesses, Receive(p, w)
      PROVE  TypeOK'
  <2>1. exch[p][w].size \in Nat /\ log[p] \in Log
    BY DEF TypeOK, Exchange
  <2>2. /\ Submit(log[p], exch[p][w].size, TRUE) \in Exchange
        /\ Settled("cosigned") \in Exchange
        /\ Settled("refused") \in Exchange
        /\ Settled("skipped") \in Exchange
    BY <2>1, ExchangeTypes
  <2>3. exch' \in [Procs -> [Witnesses -> Exchange]]
    BY <1>7, <2>2 DEF Receive, TypeOK
  <2>. QED BY <1>7, <2>3 DEF Receive, TypeOK
<1>8. ASSUME NEW w \in Witnesses, Timeout(p, w)
      PROVE  TypeOK'
  <2>1. exch' \in [Procs -> [Witnesses -> Exchange]]
    BY <1>8, ExchangeTypes DEF Timeout, TypeOK
  <2>2. late' \subseteq Request
    BY <1>8 DEF Timeout, TypeOK, Abandon, Request, Exchange
  <2>. QED BY <1>8, <2>1, <2>2 DEF Timeout, TypeOK
<1>9. CASE CheckpointRefused(p)
  BY <1>9, ReturnType DEF CheckpointRefused, TypeOK
<1>10. CASE CheckpointFinish(p)
  <2>1. [tree |-> log[p], by |-> Cosigners(p)] \in Checkpoint
    BY DEF TypeOK, Checkpoint, Cosigners
  <2>2. ref' \in [Repos -> History]
    BY <1>10, <2>1, SaveType DEF CheckpointFinish, TypeOK
  <2>. QED BY <1>10, <2>2, ReturnType DEF CheckpointFinish, TypeOK
<1>11. CASE Crash(p)
  BY <1>11, ReturnType DEF Crash, TypeOK
<1>. QED BY <1>1, <1>2, <1>3, <1>4, <1>5, <1>6, <1>7, <1>8, <1>9, <1>10, <1>11 DEF Command

\* So does every step taken around the commands.
LEMMA EnvironmentTypeOK ==
    ASSUME TypeOK, Environment
    PROVE  TypeOK'
<1>. USE DEF WitnessTypeOK, WitnessVars, procVars
<1>1. ASSUME NEW m \in late, WitnessLate(m)
      PROVE  TypeOK'
  <2>1. m.to \in Witnesses /\ m.tree \in Log
    BY DEF TypeOK, Request
  <2>2. WitnessTypeOK'
    BY <1>1, <2>1, UpdateType DEF WitnessLate, TypeOK
  <2>. QED BY <1>1, <2>2 DEF WitnessLate, TypeOK
<1>2. ASSUME NEW r \in Repos, NEW e \in Pushed, PushEntry(r, e)
      PROVE  TypeOK'
  <2>1. ref[r] \in History /\ e \in Entry
    BY ProcsAssumption DEF TypeOK
  <2>2. entriesOf(ref[r]) \in Log /\ checkpointOf(ref[r]) \in Checkpoint
    BY <2>1, OpenedTypes
  <2>3. [entries |-> Append(entriesOf(ref[r]), e), cp |-> checkpointOf(ref[r])] \in Commit
    BY <2>1, <2>2 DEF Commit, Log
  <2>4. Append(ref[r], [entries |-> Append(entriesOf(ref[r]), e),
                        cp |-> checkpointOf(ref[r])]) \in History
    BY <2>1, <2>3 DEF History
  <2>. QED BY <1>2, <2>4 DEF PushEntry, TypeOK
<1>3. ASSUME NEW r \in Repos, NEW k \in 0..Len(ref[r]), Rollback(r, k)
      PROVE  TypeOK'
  <2>1. SubSeq(ref[r], 1, k) \in History
    BY DEF TypeOK, History
  <2>. QED BY <1>3, <2>1 DEF Rollback, TypeOK
<1>4. ASSUME NEW r \in Repos, Fetch(r)
      PROVE  TypeOK'
  BY <1>4, ProcsAssumption DEF Fetch, TypeOK
<1>5. ASSUME NEW r \in Repos, Push(r)
      PROVE  TypeOK'
  BY <1>5, ProcsAssumption DEF Push, TypeOK
<1>. QED BY <1>1, <1>2, <1>3, <1>4, <1>5 DEF Environment

\* So does a step that changes nothing.
LEMMA StutterTypeOK ==
    ASSUME TypeOK, UNCHANGED vars
    PROVE  TypeOK'
BY DEF TypeOK, WitnessTypeOK, vars

\* Every reachable state is well typed: in particular every log ref holds a
\* history of logs and checkpoints, whatever a crash or a race left in it.
THEOREM TypeCorrect == Spec => []TypeOK
<1>1. Init => TypeOK
  BY InitTypeOK
<1>2. TypeOK /\ [Next]_vars => TypeOK'
  BY CommandTypeOK, EnvironmentTypeOK, StutterTypeOK DEF Next
<1>. QED BY <1>1, <1>2, PTL DEF Spec

-----------------------------------------------------------------------------
(* The inductive invariant.                                                *)

\* Everything a witness has cosigned is a prefix of what it holds.
HeldExtendsCosigned ==
    \A w \in Witnesses : \A t \in cosigned[w] : IsPrefix(t, held[w])

\* Requests are sent by checkpointLog only, which has walked the chains of the
\* log it submits; a request that outlives its client still carries that log.
RequestChainsHold ==
    /\ \A p \in Procs, w \in Witnesses : exch[p][w].st # "none" => pc[p] = "cosign"
    /\ \A p \in Procs : pc[p] = "cosign" => checkLogChains(log[p])
    /\ \A m \in late : checkLogChains(m.tree)

\* A cosignature a process has collected, or that is on its way to it, was given
\* for the log it holds.
CollectedIsGenuine ==
    \A p \in Procs, w \in Witnesses :
        \/ exch[p][w].st = "cosigned"
        \/ exch[p][w].st = "answered" /\ exch[p][w].ans = "cosigned"
        => log[p] \in cosigned[w]

\* What a process has read and appended, relative to the head it observed.
LogExtendsHead ==
    \A p \in Procs : pc[p] = "log" =>
        /\ cp[p] = checkpointOf(head[p])
        /\ IsPrefix(entriesOf(head[p]), log[p])

\* The inductive invariant: the three safety properties above and what each of
\* them needs of the requests and answers in flight.
Inv ==
    /\ TypeOK
    /\ HeldExtendsCosigned
    /\ RequestChainsHold
    /\ CosignedChainsHold
    /\ CollectedIsGenuine
    /\ LogExtendsHead
    /\ StoredCheckpointVerifies

\* No cosignature is ever withdrawn.
CosignedGrows == \A w \in Witnesses : cosigned[w] \subseteq cosigned'[w]

\* The invariant holds of empty logs and idle processes.
LEMMA InitInv == Init => Inv
<1>. SUFFICES ASSUME Init PROVE Inv
  OBVIOUS
<1>1. TypeOK
  BY InitTypeOK
<1>2. HeldExtendsCosigned /\ CosignedChainsHold
  BY DEF Init, WitnessInit, HeldExtendsCosigned, CosignedChainsHold
<1>3. RequestChainsHold /\ CollectedIsGenuine /\ LogExtendsHead
  BY DEF Init, NoExchange, Settled, RequestChainsHold, CollectedIsGenuine, LogExtendsHead
<1>4. StoredCheckpointVerifies
  BY DEF Init, StoredCheckpointVerifies
<1>. QED BY <1>1, <1>2, <1>3, <1>4 DEF Inv

\* A witness that handles a request cosigns it or nothing, and then only an
\* extension of what it holds.
LEMMA UpdateExtends ==
    ASSUME WitnessTypeOK, HeldExtendsCosigned,
           NEW w \in Witnesses, NEW from, NEW tree \in Log, Update(w, from, tree)
    PROVE  /\ HeldExtendsCosigned'
           /\ CosignedGrows
           /\ Answer(w, from, tree) = "cosigned" => tree \in cosigned'[w]
           /\ \A v \in Witnesses : \A t \in cosigned'[v] : t \in cosigned[v] \/ t = tree
<1>1. CASE Answer(w, from, tree) = "cosigned"
  <2>1. IsPrefix(held[w], tree)
    BY <1>1 DEF Answer, AnswerFrom
  <2>2. /\ held' = [held EXCEPT ![w] = tree]
        /\ cosigned' = [cosigned EXCEPT ![w] = @ \cup {tree}]
    BY <1>1 DEF Update
  <2>3. ASSUME NEW v \in Witnesses, NEW t \in cosigned'[v]
        PROVE  IsPrefix(t, held'[v])
    <3>1. CASE v # w
      BY <2>2, <2>3, <3>1 DEF WitnessTypeOK, HeldExtendsCosigned
    <3>2. CASE v = w /\ t = tree
      BY <2>2, <3>2, PrefixReflexive DEF WitnessTypeOK, Log
    <3>3. CASE v = w /\ t \in cosigned[w]
      <4>1. IsPrefix(t, held[w]) /\ t \in Log /\ held[w] \in Log
        BY <3>3 DEF WitnessTypeOK, HeldExtendsCosigned
      <4>2. IsPrefix(t, tree)
        BY <2>1, <4>1, PrefixTransitive DEF Log
      <4>. QED BY <2>2, <3>3, <4>2 DEF WitnessTypeOK
    <3>. QED BY <2>2, <2>3, <3>1, <3>2, <3>3 DEF WitnessTypeOK
  <2>4. HeldExtendsCosigned'
    BY <2>3 DEF HeldExtendsCosigned
  <2>. QED BY <2>2, <2>4 DEF WitnessTypeOK, CosignedGrows
<1>2. CASE Answer(w, from, tree) # "cosigned"
  BY <1>2 DEF Update, WitnessVars, HeldExtendsCosigned, CosignedGrows
<1>. QED BY <1>1, <1>2

\* What any step does to the witnesses.
LEMMA WitnessStep ==
    ASSUME Inv, [Next]_vars
    PROVE  /\ HeldExtendsCosigned'
           /\ CosignedGrows
           /\ CosignedChainsHold'
<1>. USE DEF Inv
<1>1. CASE UNCHANGED WitnessVars
  BY <1>1 DEF WitnessVars, HeldExtendsCosigned, CosignedGrows, CosignedChainsHold
<1>2. ASSUME NEW p \in Procs, NEW w \in Witnesses, WitnessAnswers(p, w)
      PROVE  HeldExtendsCosigned' /\ CosignedGrows /\ CosignedChainsHold'
  <2>1. Update(w, exch[p][w].from, log[p]) /\ log[p] \in Log /\ WitnessTypeOK
    BY <1>2 DEF WitnessAnswers, TypeOK
  <2>2. checkLogChains(log[p])
    BY <1>2 DEF WitnessAnswers, RequestChainsHold
  <2>. QED BY <2>1, <2>2, UpdateExtends DEF CosignedChainsHold
<1>3. ASSUME NEW m \in late, WitnessLate(m)
      PROVE  HeldExtendsCosigned' /\ CosignedGrows /\ CosignedChainsHold'
  <2>1. Update(m.to, m.from, m.tree) /\ m.to \in Witnesses /\ m.tree \in Log /\ WitnessTypeOK
    BY <1>3 DEF WitnessLate, TypeOK, Request
  <2>2. checkLogChains(m.tree)
    BY DEF RequestChainsHold
  <2>. QED BY <2>1, <2>2, UpdateExtends DEF CosignedChainsHold
<1>4. \/ UNCHANGED WitnessVars
      \/ \E p \in Procs, w \in Witnesses : WitnessAnswers(p, w)
      \/ \E m \in late : WitnessLate(m)
  BY DEF Next, Command, Environment, vars, WitnessVars, LogOpen, LogRef, LogNothing, LogSave,
         CheckpointOpen, Receive, Timeout, CheckpointRefused, CheckpointFinish, Crash,
         PushEntry, Rollback, Fetch, Push
<1>. QED BY <1>1, <1>2, <1>3, <1>4

\* A process that returns leaves nothing behind but requests it had sent.
LEMMA ReturnInv ==
    ASSUME Inv, NEW p \in Procs, Return(p), CosignedGrows
    PROVE  RequestChainsHold' /\ CollectedIsGenuine' /\ LogExtendsHead'
<1>. USE DEF Inv
<1>1. \A m \in late' : checkLogChains(m.tree)
  BY DEF Return, Abandon, RequestChainsHold
<1>2. RequestChainsHold'
  BY <1>1 DEF Return, NoExchange, Settled, RequestChainsHold, TypeOK
<1>3. CollectedIsGenuine'
  BY DEF Return, NoExchange, Settled, CollectedIsGenuine, CosignedGrows, TypeOK
<1>4. LogExtendsHead'
  BY DEF Return, LogExtendsHead, TypeOK
<1>. QED BY <1>2, <1>3, <1>4

\* Every command keeps what its process holds in order.
LEMMA CommandInv ==
    ASSUME Inv, NEW p \in Procs, Command(p), CosignedGrows
    PROVE  RequestChainsHold' /\ CollectedIsGenuine' /\ LogExtendsHead'
<1>. USE DEF Inv
<1>1. CASE LogOpen(p)
  <2>1. ref[RepoOf[p]] \in History
    BY ProcsAssumption DEF TypeOK
  <2>2. IsPrefix(entriesOf(ref[RepoOf[p]]), entriesOf(ref[RepoOf[p]]))
    BY <2>1, OpenedTypes, PrefixReflexive DEF Log
  <2>3. LogExtendsHead'
    BY <1>1, <2>2 DEF LogOpen, Open, LogExtendsHead, TypeOK
  <2>4. \A w \in Witnesses : exch[p][w].st = "none"
    BY <1>1 DEF LogOpen, RequestChainsHold
  <2>5. RequestChainsHold'
    BY <1>1, <2>4 DEF LogOpen, Open, RequestChainsHold, TypeOK
  <2>6. CollectedIsGenuine'
    BY <1>1, <2>4 DEF LogOpen, Open, CollectedIsGenuine, CosignedGrows, TypeOK
  <2>. QED BY <2>3, <2>5, <2>6
<1>2. ASSUME NEW name \in Refs, NEW object \in Objects, LogRef(p, name, object)
      PROVE  RequestChainsHold' /\ CollectedIsGenuine' /\ LogExtendsHead'
  <2> DEFINE e == [ref |-> name, object |-> object]
  <2>1. e \in Entry /\ log[p] \in Log /\ entriesOf(head[p]) \in Log /\ pc[p] = "log"
    BY <1>2, OpenedTypes DEF Entry, RefRecord, TypeOK, LogRef
  <2>2. IsPrefix(log[p], Append(log[p], e)) /\ Append(log[p], e) \in Log
    BY <2>1, PrefixAppend DEF Log
  <2>3. IsPrefix(entriesOf(head[p]), Append(log[p], e))
    <3>1. IsPrefix(entriesOf(head[p]), log[p])
      BY <2>1 DEF LogExtendsHead
    <3>. QED BY <2>1, <2>2, <3>1, PrefixTransitive DEF Log
  <2>4. LogExtendsHead'
    BY <1>2, <2>3 DEF LogRef, LogExtendsHead, TypeOK
  <2>5. \A w \in Witnesses : exch[p][w].st = "none"
    BY <2>1 DEF RequestChainsHold
  <2>6. RequestChainsHold'
    BY <1>2, <2>1, <2>5 DEF LogRef, RequestChainsHold, TypeOK
  <2>7. CollectedIsGenuine'
    BY <1>2, <2>5 DEF LogRef, CollectedIsGenuine, CosignedGrows, TypeOK
  <2>. QED BY <2>4, <2>6, <2>7
<1>3. CASE LogNothing(p) \/ LogSave(p) \/ CheckpointRefused(p) \/ CheckpointFinish(p) \/ Crash(p)
  BY <1>3, ReturnInv DEF LogNothing, LogSave, CheckpointRefused, CheckpointFinish, Crash
<1>4. CASE CheckpointOpen(p)
  <2>1. \A w \in Witnesses : exch'[p][w].st \in {"sent", "skipped"}
    BY <1>4 DEF CheckpointOpen, Submit, Settled, TypeOK
  <2>2. RequestChainsHold'
    BY <1>4 DEF CheckpointOpen, Open, RequestChainsHold, TypeOK
  <2>3. CollectedIsGenuine'
    BY <1>4, <2>1 DEF CheckpointOpen, Open, CollectedIsGenuine, CosignedGrows, TypeOK
  <2>4. LogExtendsHead'
    BY <1>4 DEF CheckpointOpen, Open, LogExtendsHead, TypeOK
  <2>. QED BY <2>2, <2>3, <2>4
<1>5. ASSUME NEW w \in Witnesses, WitnessAnswers(p, w)
      PROVE  RequestChainsHold' /\ CollectedIsGenuine' /\ LogExtendsHead'
  <2>1. pc[p] = "cosign"
    BY <1>5 DEF WitnessAnswers, RequestChainsHold
  <2>2. RequestChainsHold'
    BY <1>5, <2>1 DEF WitnessAnswers, RequestChainsHold, TypeOK
  <2>3. Answer(w, exch[p][w].from, log[p]) = "cosigned" => log[p] \in cosigned'[w]
    BY <1>5, UpdateExtends DEF WitnessAnswers, TypeOK
  <2>4. CollectedIsGenuine'
    BY <1>5, <2>3 DEF WitnessAnswers, CollectedIsGenuine, CosignedGrows, TypeOK
  <2>5. LogExtendsHead'
    BY <1>5 DEF WitnessAnswers, LogExtendsHead, TypeOK
  <2>. QED BY <2>2, <2>4, <2>5
<1>6. ASSUME NEW w \in Witnesses, Receive(p, w)
      PROVE  RequestChainsHold' /\ CollectedIsGenuine' /\ LogExtendsHead'
  <2>1. pc[p] = "cosign"
    BY <1>6 DEF Receive, RequestChainsHold
  <2>2. RequestChainsHold'
    BY <1>6, <2>1 DEF Receive, RequestChainsHold, TypeOK
  <2>3. exch'[p][w].st = "cosigned" => exch[p][w].ans = "cosigned"
    BY <1>6 DEF Receive, Submit, Settled, TypeOK
  <2>4. exch'[p][w].st # "answered"
    BY <1>6 DEF Receive, Submit, Settled, TypeOK
  <2>5. CollectedIsGenuine'
    BY <1>6, <2>3, <2>4 DEF Receive, CollectedIsGenuine, CosignedGrows, TypeOK
  <2>6. LogExtendsHead'
    BY <1>6 DEF Receive, LogExtendsHead, TypeOK
  <2>. QED BY <2>2, <2>5, <2>6
<1>7. ASSUME NEW w \in Witnesses, Timeout(p, w)
      PROVE  RequestChainsHold' /\ CollectedIsGenuine' /\ LogExtendsHead'
  <2>1. pc[p] = "cosign" /\ checkLogChains(log[p])
    BY <1>7 DEF Timeout, RequestChainsHold
  <2>2. \A m \in late' : checkLogChains(m.tree)
    BY <1>7, <2>1 DEF Timeout, Abandon, RequestChainsHold
  <2>3. RequestChainsHold'
    BY <1>7, <2>1, <2>2 DEF Timeout, RequestChainsHold, TypeOK
  <2>4. CollectedIsGenuine'
    BY <1>7 DEF Timeout, Settled, CollectedIsGenuine, CosignedGrows, TypeOK
  <2>5. LogExtendsHead'
    BY <1>7 DEF Timeout, LogExtendsHead, TypeOK
  <2>. QED BY <2>3, <2>4, <2>5
<1>. QED BY <1>1, <1>2, <1>3, <1>4, <1>5, <1>6, <1>7 DEF Command

\* Nothing outside the processes disturbs what they hold.
LEMMA EnvironmentInv ==
    ASSUME Inv, Environment \/ UNCHANGED vars, CosignedGrows
    PROVE  RequestChainsHold' /\ CollectedIsGenuine' /\ LogExtendsHead'
<1>1. UNCHANGED procVars /\ late' \subseteq late
  BY DEF Environment, WitnessLate, PushEntry, Rollback, Fetch, Push, vars, procVars
<1>. QED BY <1>1 DEF Inv, procVars, RequestChainsHold, CollectedIsGenuine, LogExtendsHead,
                     CosignedGrows

\* CheckpointVerifies of a commit c after the step.
VerifiesNext(c) ==
    /\ IsPrefix(c.cp.tree, c.entries)
    /\ c.cp.by \in Quorums
    /\ \A w \in c.cp.by : c.cp.tree \in cosigned'[w]

\* A commit whose checkpoint verifies still verifies after more cosignatures.
LEMMA VerifiesStays ==
    ASSUME NEW c, CheckpointVerifies(c), CosignedGrows
    PROVE  VerifiesNext(c)
BY QuorumAssumption DEF CheckpointVerifies, VerifiesNext, CosignedGrows


\* What a process reads at the head of a log ref verifies.
LEMMA HeadVerifies ==
    ASSUME Inv, NEW r \in Repos, checkpointOf(ref[r]) # NoCheckpoint
    PROVE  CheckpointVerifies([entries |-> entriesOf(ref[r]), cp |-> checkpointOf(ref[r])])
<1>1. ref[r] \in History /\ ref[r] # <<>>
  BY DEF Inv, TypeOK, checkpointOf
<1>2. Len(ref[r]) \in 1..Len(ref[r])
  BY <1>1 DEF History
<1>3. CheckpointVerifies(ref[r][Len(ref[r])])
  BY <1>1, <1>2 DEF Inv, StoredCheckpointVerifies, checkpointOf
<1>. QED BY <1>1, <1>3 DEF entriesOf, checkpointOf, CheckpointVerifies

\* A checkpoint over a prefix of the entries is one over a prefix of more.
LEMMA VerifiesExtended ==
    ASSUME NEW e \in Log, NEW f \in Log, NEW c \in Checkpoint, IsPrefix(e, f),
           CheckpointVerifies([entries |-> e, cp |-> c])
    PROVE  CheckpointVerifies([entries |-> f, cp |-> c])
<1>1. IsPrefix(c.tree, e) /\ c.tree \in Log
  BY DEF CheckpointVerifies, Checkpoint
<1>2. IsPrefix(c.tree, f)
  BY <1>1, PrefixTransitive DEF Log
<1>. QED BY <1>2 DEF CheckpointVerifies

\* Appending a commit that verifies to a log ref keeps all of them verifying.
LEMMA AppendVerifies ==
    ASSUME Inv, CosignedGrows, NEW r \in Repos, NEW c \in Commit,
           ref' = [ref EXCEPT ![r] = Append(ref[r], c)],
           c.cp # NoCheckpoint => CheckpointVerifies(c)
    PROVE  StoredCheckpointVerifies'
<1>. SUFFICES ASSUME NEW q \in Repos, NEW i \in 1..Len(ref'[q]), ref'[q][i].cp # NoCheckpoint
              PROVE  VerifiesNext(ref'[q][i])
  BY DEF StoredCheckpointVerifies, CheckpointVerifies, VerifiesNext
<1>1. ref[q] \in Seq(Commit)
  BY DEF Inv, TypeOK, History
<1>2. CASE q = r /\ i = Len(ref[r]) + 1
  <2>1. ref'[q][i] = c
    BY <1>1, <1>2 DEF Inv, TypeOK
  <2>. QED BY <2>1, VerifiesStays
<1>3. CASE ~ (q = r /\ i = Len(ref[r]) + 1)
  <2>1. i \in 1..Len(ref[q]) /\ ref'[q][i] = ref[q][i]
    BY <1>1, <1>3 DEF Inv, TypeOK
  <2>. QED BY <2>1, VerifiesStays DEF Inv, StoredCheckpointVerifies
<1>. QED BY <1>2, <1>3

\* Log refs made of commits that some log ref held before keep verifying.
LEMMA OldCommitsVerify ==
    ASSUME Inv, CosignedGrows,
           \A q \in Repos : \A i \in 1..Len(ref'[q]) :
              \E r \in Repos : i \in 1..Len(ref[r]) /\ ref'[q][i] = ref[r][i]
    PROVE  StoredCheckpointVerifies'
<1>. SUFFICES ASSUME NEW q \in Repos, NEW i \in 1..Len(ref'[q]), ref'[q][i].cp # NoCheckpoint
              PROVE  VerifiesNext(ref'[q][i])
  BY DEF StoredCheckpointVerifies, CheckpointVerifies, VerifiesNext
<1>1. PICK r \in Repos : i \in 1..Len(ref[r]) /\ ref'[q][i] = ref[r][i]
  OBVIOUS
<1>. QED BY <1>1, VerifiesStays DEF Inv, StoredCheckpointVerifies

\* A Save of a commit that verifies, whether or not its compare-and-swap wins.
LEMMA SaveVerifies ==
    ASSUME Inv, CosignedGrows, NEW p \in Procs, NEW checkpoint \in Checkpoint,
           Save(p, checkpoint),
           ref[RepoOf[p]] = head[p] /\ checkpoint # NoCheckpoint =>
              CheckpointVerifies([entries |-> log[p], cp |-> checkpoint])
    PROVE  StoredCheckpointVerifies'
<1>1. RepoOf[p] \in Repos
  BY ProcsAssumption
<1>2. CASE ref[RepoOf[p]] = head[p]
  <2>1. [entries |-> log[p], cp |-> checkpoint] \in Commit
    BY DEF Inv, TypeOK, Commit
  <2>2. ref' = [ref EXCEPT ![RepoOf[p]] =
                   Append(ref[RepoOf[p]], [entries |-> log[p], cp |-> checkpoint])]
    BY <1>2 DEF Save
  <2>. QED BY <1>1, <1>2, <2>1, <2>2, AppendVerifies
<1>3. CASE ref[RepoOf[p]] # head[p]
  <2>1. ref' = ref
    BY <1>3 DEF Save
  <2>. QED BY <2>1, OldCommitsVerify
<1>. QED BY <1>2, <1>3

\* No step puts a checkpoint in a log ref that does not verify.
LEMMA StoredStep ==
    ASSUME Inv, [Next]_vars, CosignedGrows
    PROVE  StoredCheckpointVerifies'
<1>1. CASE UNCHANGED ref
  BY <1>1, OldCommitsVerify
<1>2. ASSUME NEW p \in Procs, LogSave(p), Save(p, cp[p])
      PROVE  StoredCheckpointVerifies'
  <2> DEFINE r == RepoOf[p]
  <2>1. pc[p] = "log" /\ cp[p] \in Checkpoint /\ r \in Repos /\ log[p] \in Log
    BY <1>2, ProcsAssumption DEF LogSave, Inv, TypeOK
  <2>2. /\ cp[p] = checkpointOf(head[p])
        /\ IsPrefix(entriesOf(head[p]), log[p])
    BY <2>1 DEF Inv, LogExtendsHead
  <2>3. ASSUME ref[r] = head[p], cp[p] # NoCheckpoint
        PROVE  CheckpointVerifies([entries |-> log[p], cp |-> cp[p]])
    <3>1. CheckpointVerifies([entries |-> entriesOf(head[p]), cp |-> cp[p]])
      BY <2>1, <2>2, <2>3, HeadVerifies
    <3>2. entriesOf(head[p]) \in Log
      BY OpenedTypes DEF Inv, TypeOK
    <3>. QED BY <2>1, <2>2, <3>1, <3>2, VerifiesExtended
  <2>. QED BY <1>2, <2>1, <2>3, SaveVerifies
<1>3. ASSUME NEW p \in Procs, CheckpointFinish(p), Cosigners(p) \in Quorums,
             Save(p, [tree |-> log[p], by |-> Cosigners(p)])
      PROVE  StoredCheckpointVerifies'
  <2> DEFINE c == [tree |-> log[p], by |-> Cosigners(p)]
  <2>1. log[p] \in Log /\ c \in Checkpoint
    BY DEF Inv, TypeOK, Checkpoint, Cosigners
  <2>2. \A w \in Cosigners(p) : log[p] \in cosigned[w]
    BY DEF Cosigners, Inv, CollectedIsGenuine
  <2>3. CheckpointVerifies([entries |-> log[p], cp |-> c])
    BY <1>3, <2>1, <2>2, PrefixReflexive DEF CheckpointVerifies, Log
  <2>. QED BY <1>3, <2>1, <2>3, SaveVerifies
<1>4. ASSUME NEW r \in Repos, NEW e \in Pushed, PushEntry(r, e)
      PROVE  StoredCheckpointVerifies'
  <2> DEFINE f == Append(entriesOf(ref[r]), e)
             c == [entries |-> f, cp |-> checkpointOf(ref[r])]
  <2>1. e \in Entry /\ ref[r] \in History
    BY ProcsAssumption DEF Inv, TypeOK
  <2>2. entriesOf(ref[r]) \in Log /\ checkpointOf(ref[r]) \in Checkpoint
    BY <2>1, OpenedTypes
  <2>3. f \in Log /\ IsPrefix(entriesOf(ref[r]), f)
    BY <2>1, <2>2, PrefixAppend DEF Log
  <2>4. c \in Commit
    BY <2>2, <2>3 DEF Commit
  <2>5. checkpointOf(ref[r]) # NoCheckpoint => CheckpointVerifies(c)
    BY <2>2, <2>3, HeadVerifies, VerifiesExtended
  <2>6. ref' = [ref EXCEPT ![r] = Append(ref[r], c)] /\ c.cp = checkpointOf(ref[r])
    BY <1>4 DEF PushEntry
  <2>. HIDE DEF c, f
  <2>. QED BY <2>4, <2>5, <2>6, AppendVerifies
<1>5. ASSUME NEW r \in Repos, NEW k \in 0..Len(ref[r]), Rollback(r, k)
      PROVE  StoredCheckpointVerifies'
  <2>1. ASSUME NEW q \in Repos, NEW i \in 1..Len(ref'[q])
        PROVE  i \in 1..Len(ref[q]) /\ ref'[q][i] = ref[q][i]
    BY <1>5 DEF Rollback, Inv, TypeOK, History
  <2>. QED BY <2>1, OldCommitsVerify
<1>6. ASSUME NEW r \in Repos, Fetch(r) \/ Push(r)
      PROVE  StoredCheckpointVerifies'
  <2>1. \A q \in Repos : \E s \in Repos : ref'[q] = ref[s]
    BY <1>6, ProcsAssumption DEF Fetch, Push, Inv, TypeOK
  <2>. QED BY <2>1, OldCommitsVerify
<1>7. \/ UNCHANGED ref
      \/ \E p \in Procs : LogSave(p) /\ Save(p, cp[p])
      \/ \E p \in Procs : /\ CheckpointFinish(p)
                          /\ Cosigners(p) \in Quorums
                          /\ Save(p, [tree |-> log[p], by |-> Cosigners(p)])
      \/ \E r \in Repos, e \in Pushed : PushEntry(r, e)
      \/ \E r \in Repos : \E k \in 0..Len(ref[r]) : Rollback(r, k)
      \/ \E r \in Repos : Fetch(r) \/ Push(r)
  BY DEF Next, Command, Environment, vars, LogOpen, LogRef, LogNothing, LogSave,
         CheckpointOpen, WitnessAnswers, WitnessLate, Receive, Timeout,
         CheckpointRefused, CheckpointFinish, Crash
<1>. QED BY <1>1, <1>2, <1>3, <1>4, <1>5, <1>6, <1>7

\* Inv is inductive.
LEMMA NextInv ==
    ASSUME Inv, [Next]_vars
    PROVE  Inv'
<1>1. TypeOK'
  BY CommandTypeOK, EnvironmentTypeOK, StutterTypeOK DEF Next, Inv
<1>2. HeldExtendsCosigned' /\ CosignedGrows /\ CosignedChainsHold'
  BY WitnessStep
<1>3. RequestChainsHold' /\ CollectedIsGenuine' /\ LogExtendsHead'
  BY <1>2, CommandInv, EnvironmentInv DEF Next
<1>4. StoredCheckpointVerifies'
  BY <1>2, StoredStep
<1>. QED BY <1>1, <1>2, <1>3, <1>4 DEF Inv

\* The invariant holds in every reachable state.
THEOREM Invariance == Spec => []Inv
BY InitInv, NextInv, PTL DEF Spec

-----------------------------------------------------------------------------
(* What follows from it.                                                   *)

\* No witness ever cosigns a log with a broken chain, though entries may be
\* pushed to the log ref past logRefs' check: checkpointLog walks every chain
\* again before it asks, and a request in flight keeps the log it was made for.
THEOREM ChainsOfCosignedTrees == Spec => []CosignedChainsHold
<1>1. Inv => CosignedChainsHold
  BY DEF Inv
<1>. QED BY <1>1, Invariance, PTL

\* Every checkpoint in every log ref commits to a prefix of the entries beside it
\* and carries a quorum's genuine cosignatures, after any race, crash, reset,
\* fetch or push.
THEOREM StoredCheckpointsVerify == Spec => []StoredCheckpointVerifies
<1>1. Inv => StoredCheckpointVerifies
  BY DEF Inv
<1>. QED BY <1>1, Invariance, PTL

\* A stored checkpoint was attested by a quorum.
LEMMA StoredIsAttested ==
    ASSUME Inv, NEW t \in StoredTrees
    PROVE  t \in Log /\ Attested(t)
<1>0. PICK r \in Repos : \E i \in 1..Len(ref[r]) :
               ref[r][i].cp # NoCheckpoint /\ t = ref[r][i].cp.tree
  BY DEF StoredTrees
<1>1. PICK i \in 1..Len(ref[r]) : ref[r][i].cp # NoCheckpoint /\ t = ref[r][i].cp.tree
  BY <1>0
<1>2. CheckpointVerifies(ref[r][i])
  BY <1>1 DEF Inv, StoredCheckpointVerifies
<1>3. ref[r][i] \in Commit
  BY <1>1 DEF Inv, TypeOK, History
<1>. QED BY <1>1, <1>2, <1>3 DEF CheckpointVerifies, Attested, Commit, Checkpoint

\* Of two attested trees one is a prefix of the other: their quorums share a
\* witness, and all it ever cosigned are prefixes of what it holds.
LEMMA AttestedComparable ==
    ASSUME Inv, NEW t1 \in Log, NEW t2 \in Log, Attested(t1), Attested(t2), Len(t1) <= Len(t2)
    PROVE  IsPrefix(t1, t2)
<1>1. PICK w \in Witnesses : t1 \in cosigned[w] /\ t2 \in cosigned[w]
  BY QuorumAssumption DEF Attested
<1>2. IsPrefix(t1, held[w]) /\ IsPrefix(t2, held[w]) /\ held[w] \in Log
  BY <1>1 DEF Inv, HeldExtendsCosigned, TypeOK, WitnessTypeOK
<1>. QED BY <1>2, PrefixComparable DEF Log

\* No two verifiers are ever shown logs that disagree, however the clones raced,
\* crashed or were reset, as long as any two quorums share a witness.
THEOREM OneView == Spec => []NoSplitView
<1>1. ASSUME Inv
      PROVE  NoSplitView
  <2>. SUFFICES ASSUME NEW t1 \in AttestedTrees \cup StoredTrees,
                       NEW t2 \in AttestedTrees \cup StoredTrees
                PROVE  IsPrefix(t1, t2) \/ IsPrefix(t2, t1)
    BY DEF NoSplitView
  <2>1. \A t \in AttestedTrees \cup StoredTrees : t \in Log /\ Attested(t)
    BY <1>1, StoredIsAttested DEF AttestedTrees, Inv, TypeOK, WitnessTypeOK
  <2>2. Len(t1) \in Nat /\ Len(t2) \in Nat
    BY <2>1 DEF Log
  <2>3. Len(t1) <= Len(t2) \/ Len(t2) <= Len(t1)
    BY <2>2
  <2>. QED BY <1>1, <2>1, <2>3, AttestedComparable
<1>. QED BY <1>1, Invariance, PTL

\* verifySingleRef accepts on a log with unbroken chains what it accepted on a
\* prefix of it.
LEMMA AcceptedOnExtension ==
    ASSUME NEW t1 \in Log, NEW t2 \in Log, IsPrefix(t1, t2), checkLogChains(t2),
           NEW name \in Refs, NEW object \in Objects, verifySingleRef(t1, name, object)
    PROVE  verifySingleRef(t2, name, object)
<1> DEFINE R == RefRecords(t2, name)
<1>1. PICK i \in 1..Len(t1) :
         /\ IsLatest(t1, name, i)
         /\ IF name \in Tags THEN object = t1[i].object ELSE IsAncestor(object, t1[i].object)
  BY DEF verifySingleRef
<1>2. t1[i] = t2[i] /\ i \in 1..Len(t2)
  <2>1. Len(t1) \in Nat /\ Len(t2) \in Nat
    BY DEF Log
  <2>. QED BY <1>1, <2>1, PrefixPointwise DEF Log
<1>3. i \in R /\ t1[i] \in RefRecord
  BY <1>1, <1>2 DEF IsLatest, RefRecords
<1>4. PICK j \in R : \A k \in R : k <= j
  <2>1. R \subseteq 0..Len(t2) /\ Len(t2) \in Nat
    BY DEF RefRecords, Log
  <2>. HIDE DEF R
  <2>. QED BY <1>3, <2>1, GreatestNatural
<1>5. IsLatest(t2, name, j) /\ j \in 1..Len(t2) /\ t2[j] \in RefRecord
  BY <1>4 DEF IsLatest, RefRecords
<1>6. checkRefChain(t2, name)
  BY DEF checkLogChains
<1>7. Follows(t2, name, i, j)
  BY <1>3, <1>4, <1>6, ChainRelatesAll
<1>8. IF name \in Tags THEN object = t2[j].object ELSE IsAncestor(object, t2[j].object)
  <2>1. t2[i].object \in Objects /\ t2[j].object \in Objects
    BY <1>2, <1>3, <1>5 DEF RefRecord
  <2>. QED BY <1>1, <1>2, <1>7, <2>1, RefsAssumption, AncestryAssumption DEF Follows, IsAncestor
<1>. QED BY <1>5, <1>6, <1>8 DEF verifySingleRef

\* The ratchet itself: an accepted state of a tag or branch stays accepted on
\* every attested log at least as long.
THEOREM Ratcheted == Spec => []VerificationIsStable
<1>1. ASSUME Inv
      PROVE  VerificationIsStable
  <2>. SUFFICES ASSUME NEW t1 \in AttestedTrees, NEW t2 \in AttestedTrees,
                       Len(t1) <= Len(t2),
                       NEW name \in Refs, NEW object \in Objects,
                       verifySingleRef(t1, name, object)
                PROVE  verifySingleRef(t2, name, object)
    BY DEF VerificationIsStable
  <2>1. t1 \in Log /\ t2 \in Log /\ Attested(t1) /\ Attested(t2)
    BY <1>1 DEF AttestedTrees, Inv, TypeOK, WitnessTypeOK
  <2>2. IsPrefix(t1, t2)
    BY <1>1, <2>1, AttestedComparable
  <2>3. checkLogChains(t2)
    BY <1>1 DEF AttestedTrees, Inv, CosignedChainsHold
  <2>. QED BY <2>1, <2>2, <2>3, AcceptedOnExtension
<1>. QED BY <1>1, Invariance, PTL
=============================================================================
