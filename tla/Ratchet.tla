------------------------------ MODULE Ratchet ------------------------------
(***************************************************************************)
(* The git-ratchet commands (ratchet.go) run by concurrent processes over  *)
(* the log refs of one or more clones, and the witnesses they have cosign  *)
(* checkpoints.                                                            *)
(*                                                                         *)
(* A log commit is a tree (entries and stored checkpoint) with one parent, *)
(* so a log ref is represented by the sequence of trees from the root      *)
(* commit to the commit it names; a missing ref is the empty sequence.     *)
(* What a ref of the repository names is chosen anew whenever it is read:  *)
(* anyone may push, force-push or reset it between two reads.              *)
(***************************************************************************)
EXTENDS Witness

CONSTANTS
    Procs,        \* slots in which commands run
    Repos,        \* clones of the repository, each with its log ref
    Origin,       \* the clone the others fetch from and push to
    RepoOf,       \* RepoOf[p]: the clone the commands of slot p run in
    NoURL,        \* witnesses the policy gives no URL
    Quorums,      \* sets of witnesses that satisfy the policy's quorum
    Pushed,       \* entries pushed to a log ref by other means than logRefs
    Rollbacks,    \* whether a log ref may be reset to an earlier commit
    MaxLog,       \* bound on the entries of a log
    MaxCommits,   \* bound on the commits of a log ref
    MaxLate       \* bound on the requests that outlive their client

ASSUME ProcsAssumption ==
    /\ Origin \in Repos
    /\ RepoOf \in [Procs -> Repos]
    /\ NoURL \subseteq Witnesses
    /\ Pushed \subseteq Entry
    /\ Rollbacks \in BOOLEAN
    /\ MaxLog \in Nat
    /\ MaxCommits \in Nat
    /\ MaxLate \in Nat

\* Any two sets that satisfy the quorum share a witness.
ASSUME QuorumAssumption ==
    /\ Quorums \subseteq SUBSET Witnesses
    /\ \A Q1, Q2 \in Quorums : Q1 \cap Q2 # {}

VARIABLES
    ref,     \* ref[r]: the history of refs/ratchet/log in clone r
    pc,      \* pc[p]: "idle", in logRefs ("log") or checkpointLog ("cosign")
    head,    \* head[p]: Log.head, the history observed by Open
    log,     \* log[p]: Log.entries
    cp,      \* cp[p]: Log.checkpoint
    exch,    \* exch[p][w]: the exchange of cosignWithWitness with w
    late     \* requests whose client is gone and that w may yet handle

procVars == <<pc, head, log, cp, exch>>
vars == <<held, cosigned, ref, pc, head, log, cp, exch, late>>

-----------------------------------------------------------------------------
Checkpoint == [tree : Log, by : SUBSET Witnesses]

\* The empty string Open reports for a log that was never checkpointed.
NoCheckpoint == [tree |-> <<>>, by |-> {}]

Commit == [entries : Log, cp : Checkpoint]
History == Seq(Commit)

Exchange ==
    [st    : {"none", "sent", "answered", "cosigned", "skipped", "refused"},
     from  : Nat,
     retry : BOOLEAN,
     ans   : Answers,
     size  : Nat]

\* An exchange that is not in progress; the last three fields mean nothing.
Settled(st) ==
    [st |-> st, from |-> 0, retry |-> FALSE, ans |-> "stale", size |-> 0]

NoExchange == [w \in Witnesses |-> Settled("none")]

Request == [to : Witnesses, from : Nat, tree : Log]

Init ==
    /\ WitnessInit
    /\ ref = [r \in Repos |-> <<>>]
    /\ pc = [p \in Procs |-> "idle"]
    /\ head = [p \in Procs |-> <<>>]
    /\ log = [p \in Procs |-> <<>>]
    /\ cp = [p \in Procs |-> NoCheckpoint]
    /\ exch = [p \in Procs |-> NoExchange]
    /\ late = {}

-----------------------------------------------------------------------------
(* internal/gitlog: Open, Save and the log they work on.                   *)

entriesOf(h) == IF h = <<>> THEN <<>> ELSE h[Len(h)].entries
checkpointOf(h) == IF h = <<>> THEN NoCheckpoint ELSE h[Len(h)].cp

\* Open, by a command that goes on in state st.
Open(p, st) ==
    LET h == ref[RepoOf[p]] IN
    /\ Len(h) < MaxCommits
    /\ pc' = [pc EXCEPT ![p] = st]
    /\ head' = [head EXCEPT ![p] = h]
    /\ log' = [log EXCEPT ![p] = entriesOf(h)]
    /\ cp' = [cp EXCEPT ![p] = checkpointOf(h)]

\* Mutant: update-ref without the expected old value.
Save_NoCompare(p, checkpoint) ==
    ref' = [ref EXCEPT ![RepoOf[p]] =
               Append(head[p], [entries |-> log[p], cp |-> checkpoint])]

\* Mutant: the log read at Open is committed on whatever the ref names by now.
Save_Rebased(p, checkpoint) ==
    ref' = [ref EXCEPT ![RepoOf[p]] =
               Append(@, [entries |-> log[p], cp |-> checkpoint])]

\* Save: the log as one commit on the head observed at Open, put on the ref by
\* compare-and-swap.  A log that moved meanwhile fails the command.
Save(p, checkpoint) ==
    LET r == RepoOf[p] IN
    ref' = IF ref[r] = head[p]
           THEN [ref EXCEPT ![r] = Append(head[p], [entries |-> log[p], cp |-> checkpoint])]
           ELSE ref

\* p stops waiting for the witnesses in W: the requests they have not handled
\* are lost, or stay on their way.
Abandon(p, W) ==
    LET left == {[to |-> w, from |-> exch[p][w].from, tree |-> log[p]] :
                    w \in {w \in W : exch[p][w].st = "sent"}}
    IN  \/ late' = late
        \/ /\ Cardinality(late \cup left) <= MaxLate
           /\ late' = late \cup left

\* The command returns, with or without an error: its process ends.
Return(p) ==
    /\ pc' = [pc EXCEPT ![p] = "idle"]
    /\ head' = [head EXCEPT ![p] = <<>>]
    /\ log' = [log EXCEPT ![p] = <<>>]
    /\ cp' = [cp EXCEPT ![p] = NoCheckpoint]
    /\ exch' = [exch EXCEPT ![p] = NoExchange]
    /\ Abandon(p, Witnesses)

-----------------------------------------------------------------------------
(* logRefs.                                                                *)

LogOpen(p) ==
    /\ pc[p] = "idle"
    /\ Open(p, "log")
    /\ UNCHANGED <<WitnessVars, ref, exch, late>>

\* One --ref, found to name object; a ref at its latest logged state is skipped.
LogRef(p, name, object) ==
    /\ pc[p] = "log"
    /\ Len(log[p]) < MaxLog
    /\ ~ AtLatest(log[p], name, object)
    /\ log' = [log EXCEPT ![p] = Append(@, [ref |-> name, object |-> object])]
    /\ UNCHANGED <<WitnessVars, ref, pc, head, cp, exch, late>>

\* Nothing was added: the command returns without writing.
LogNothing(p) ==
    /\ pc[p] = "log"
    /\ log[p] = entriesOf(head[p])
    /\ Return(p)
    /\ UNCHANGED <<WitnessVars, ref>>

\* A log with a broken chain is refused, any other is saved under the
\* checkpoint it was read with.
LogSave(p) ==
    /\ pc[p] = "log"
    /\ log[p] # entriesOf(head[p])
    /\ IF checkLogChains(log[p]) THEN Save(p, cp[p]) ELSE UNCHANGED ref
    /\ Return(p)
    /\ UNCHANGED WitnessVars

-----------------------------------------------------------------------------
(* checkpointLog.                                                          *)

\* Mutant: the proof starts one entry early.
Submit_OffByOne(tree, from, retry) ==
    IF from > Len(tree)
    THEN Settled("skipped")
    ELSE [Settled("sent") EXCEPT !.from = from - 1, !.retry = retry]

\* submit: a consistency proof needs from to be at most the size of the log.
Submit(tree, from, retry) ==
    IF from > Len(tree)
    THEN Settled("skipped")
    ELSE [Settled("sent") EXCEPT !.from = from, !.retry = retry]

\* Mutant: the chains are not walked again before a quorum is asked.
CheckpointOpen_NoWalk(p) ==
    LET h == ref[RepoOf[p]] IN
    /\ pc[p] = "idle"
    /\ entriesOf(h) # <<>>
    /\ Open(p, "cosign")
    /\ exch' = [exch EXCEPT ![p] =
                   [w \in Witnesses |->
                       IF w \in NoURL THEN Settled("skipped")
                       ELSE Submit(entriesOf(h), Len(checkpointOf(h).tree), FALSE)]]
    /\ UNCHANGED <<WitnessVars, ref, late>>

\* logToCheckpoint and the start of one goroutine per witness.  An empty log and
\* a broken chain are refused, the latter because entries reach the log ref by
\* other ways than logRefs.
CheckpointOpen(p) ==
    LET h == ref[RepoOf[p]] IN
    /\ pc[p] = "idle"
    /\ entriesOf(h) # <<>>
    /\ checkLogChains(entriesOf(h))
    /\ Open(p, "cosign")
    /\ exch' = [exch EXCEPT ![p] =
                   [w \in Witnesses |->
                       IF w \in NoURL THEN Settled("skipped")
                       ELSE Submit(entriesOf(h), Len(checkpointOf(h).tree), FALSE)]]
    /\ UNCHANGED <<WitnessVars, ref, late>>

\* w handles the request p waits for; its answer is on its way.
WitnessAnswers(p, w) ==
    LET x == exch[p][w] IN
    /\ x.st = "sent"
    /\ Update(w, x.from, log[p])
    /\ exch' = [exch EXCEPT ![p][w] =
                   [st |-> "answered", from |-> x.from, retry |-> x.retry,
                    ans |-> Answer(w, x.from, log[p]), size |-> Len(held[w])]]
    /\ UNCHANGED <<ref, pc, head, log, cp, late>>

\* w handles a request nobody waits for any more; a copy of it may be left (the
\* workflow that handles an issue can be run again).
WitnessLate(m) ==
    /\ Update(m.to, m.from, m.tree)
    /\ late' \in {late, late \ {m}}
    /\ UNCHANGED <<ref, procVars>>

\* What cosignWithWitness makes of an answer: one retry from the size a stale
\* answer reports, a refusal kept apart from every other failure.
Receive(p, w) ==
    LET x == exch[p][w] IN
    /\ x.st = "answered"
    /\ exch' = [exch EXCEPT ![p][w] =
          IF x.ans = "cosigned" THEN Settled("cosigned")
          ELSE IF x.ans # "stale" THEN Settled("refused")
          ELSE IF x.size # x.from /\ ~ x.retry THEN Submit(log[p], x.size, TRUE)
          ELSE Settled("skipped")]
    /\ UNCHANGED <<WitnessVars, ref, pc, head, log, cp, late>>

\* Mutant: only an exchange whose witness has answered comes to an end.
Timeout_Unbounded(p, w) ==
    /\ exch[p][w].st = "answered"
    /\ exch' = [exch EXCEPT ![p][w] = Settled("skipped")]
    /\ Abandon(p, {w})
    /\ UNCHANGED <<WitnessVars, ref, pc, head, log, cp>>

\* The deadline of the exchange, or a transport error.  The witness may still
\* handle the request.
Timeout(p, w) ==
    /\ exch[p][w].st \in {"sent", "answered"}
    /\ exch' = [exch EXCEPT ![p][w] = Settled("skipped")]
    /\ Abandon(p, {w})
    /\ UNCHANGED <<WitnessVars, ref, pc, head, log, cp>>

\* collectCosignatures returns at the first refusal it reads, whatever the
\* other witnesses said or are about to say.
CheckpointRefused(p) ==
    /\ pc[p] = "cosign"
    /\ \E w \in Witnesses : exch[p][w].st = "refused"
    /\ Return(p)
    /\ UNCHANGED <<WitnessVars, ref>>

\* Mutant: a witness that was skipped is counted.
Cosigners_Skipped(p) == {w \in Witnesses : exch[p][w].st # "refused"}

\* The witnesses whose cosignatures were collected.
Cosigners(p) == {w \in Witnesses : exch[p][w].st = "cosigned"}

\* Mutant: the checkpoint is stored whether or not it satisfies the quorum.
CheckpointFinish_NoQuorum(p) ==
    /\ pc[p] = "cosign"
    /\ \A w \in Witnesses : exch[p][w].st \in {"cosigned", "skipped"}
    /\ Save(p, [tree |-> log[p], by |-> Cosigners(p)])
    /\ Return(p)
    /\ UNCHANGED WitnessVars

\* Every witness has a result and none refused: the checkpoint is stored if the
\* cosignatures satisfy the quorum.
CheckpointFinish(p) ==
    /\ pc[p] = "cosign"
    /\ \A w \in Witnesses : exch[p][w].st \in {"cosigned", "skipped"}
    /\ IF Cosigners(p) \in Quorums
       THEN Save(p, [tree |-> log[p], by |-> Cosigners(p)])
       ELSE UNCHANGED ref
    /\ Return(p)
    /\ UNCHANGED WitnessVars

-----------------------------------------------------------------------------
(* What happens around the commands.                                       *)

\* The process is killed, or git fails under it (a missing object makes a chain
\* uncheckable, a full disk a commit unwritable).
Crash(p) ==
    /\ pc[p] # "idle"
    /\ Return(p)
    /\ UNCHANGED <<WitnessVars, ref>>

\* Someone pushes an entry to the log ref by other means than logRefs.
PushEntry(r, e) ==
    LET h == ref[r] IN
    /\ Len(h) < MaxCommits
    /\ Len(entriesOf(h)) < MaxLog
    /\ ref' = [ref EXCEPT ![r] =
                  Append(h, [entries |-> Append(entriesOf(h), e), cp |-> checkpointOf(h)])]
    /\ UNCHANGED <<WitnessVars, procVars, late>>

\* The log ref is reset to one of its earlier commits, or deleted.
Rollback(r, k) ==
    /\ Rollbacks
    /\ k < Len(ref[r])
    /\ ref' = [ref EXCEPT ![r] = SubSeq(@, 1, k)]
    /\ UNCHANGED <<WitnessVars, procVars, late>>

\* git fetch origin refs/ratchet/log:refs/ratchet/log, fast-forward only.
Fetch(r) ==
    /\ r # Origin
    /\ IsStrictPrefix(ref[r], ref[Origin])
    /\ ref' = [ref EXCEPT ![r] = ref[Origin]]
    /\ UNCHANGED <<WitnessVars, procVars, late>>

\* Mutant: the push is forced.
Push_Force(r) ==
    /\ r # Origin
    /\ ref' = [ref EXCEPT ![Origin] = ref[r]]
    /\ UNCHANGED <<WitnessVars, procVars, late>>

\* git push origin refs/ratchet/log, without force.
Push(r) ==
    /\ r # Origin
    /\ IsStrictPrefix(ref[Origin], ref[r])
    /\ ref' = [ref EXCEPT ![Origin] = ref[r]]
    /\ UNCHANGED <<WitnessVars, procVars, late>>

-----------------------------------------------------------------------------
Command(p) ==
    \/ LogOpen(p)
    \/ \E name \in Refs, object \in Objects : LogRef(p, name, object)
    \/ LogNothing(p)
    \/ LogSave(p)
    \/ CheckpointOpen(p)
    \/ \E w \in Witnesses : WitnessAnswers(p, w)
    \/ \E w \in Witnesses : Receive(p, w)
    \/ \E w \in Witnesses : Timeout(p, w)
    \/ CheckpointRefused(p)
    \/ CheckpointFinish(p)
    \/ Crash(p)

Environment ==
    \/ \E m \in late : WitnessLate(m)
    \/ \E r \in Repos, e \in Pushed : PushEntry(r, e)
    \/ \E r \in Repos : \E k \in 0..Len(ref[r]) : Rollback(r, k)
    \/ \E r \in Repos : Fetch(r)
    \/ \E r \in Repos : Push(r)

Next == (\E p \in Procs : Command(p)) \/ Environment

Spec == Init /\ [][Next]_vars

\* A command's own steps are taken as long as its process runs: logRefs is a
\* finite loop, collectCosignatures reads a channel every goroutine writes to,
\* and every exchange has a deadline.  Nothing is assumed of the witnesses, of
\* the network, or of anyone starting a command.
Fairness ==
    \A p \in Procs :
        /\ WF_vars(LogNothing(p) \/ LogSave(p))
        /\ WF_vars(CheckpointRefused(p) \/ CheckpointFinish(p))
        /\ \A w \in Witnesses : WF_vars(Receive(p, w) \/ Timeout(p, w))

FairSpec == Spec /\ Fairness

-----------------------------------------------------------------------------
(* Properties.                                                             *)

\* The type of the state.
TypeOK ==
    /\ WitnessTypeOK
    /\ ref \in [Repos -> History]
    /\ pc \in [Procs -> {"idle", "log", "cosign"}]
    /\ head \in [Procs -> History]
    /\ log \in [Procs -> Log]
    /\ cp \in [Procs -> Checkpoint]
    /\ exch \in [Procs -> [Witnesses -> Exchange]]
    /\ late \subseteq Request

\* A checkpoint for this tree that satisfies the policy can be put before a
\* verifier: a quorum has cosigned it, whether or not it was ever stored.
Attested(tree) == \E Q \in Quorums : \A w \in Q : tree \in cosigned[w]

AttestedTrees == {tree \in UNION {cosigned[w] : w \in Witnesses} : Attested(tree)}

StoredTrees ==
    UNION {{ref[r][i].cp.tree : i \in {i \in 1..Len(ref[r]) : ref[r][i].cp # NoCheckpoint}} :
              r \in Repos}

\* No split view: whatever the clones, crashes, late answers and resets, of two
\* trees attested by a quorum or stored under a checkpoint by checkpointLog, one
\* is a prefix of the other.
NoSplitView ==
    \A t1, t2 \in AttestedTrees \cup StoredTrees : IsPrefix(t1, t2) \/ IsPrefix(t2, t1)

\* No witness is ever asked to cosign, and none has cosigned, a log in which some
\* ref's chain is broken (checkLogChains: "An entry that breaks its ref's chain
\* therefore makes that ref unverifiable for good").
CosignedChainsHold ==
    \A w \in Witnesses : \A tree \in cosigned[w] : checkLogChains(tree)

\* The ratchet: what verifySingleRef once accepted on an attested tree, it
\* accepts on every attested tree at least as long, so a tag is accepted at one
\* object for ever and an accepted branch state is never rewritten.
VerificationIsStable ==
    \A t1, t2 \in AttestedTrees : Len(t1) <= Len(t2) =>
        \A name \in Refs, object \in Objects :
            verifySingleRef(t1, name, object) => verifySingleRef(t2, name, object)

\* In every log ref the entries and the stored checkpoint only grow from commit
\* to commit, so no writer's entries are lost to a concurrent Save.
HistoryGrows ==
    \A r \in Repos : \A i, j \in 1..Len(ref[r]) : i <= j =>
        /\ IsPrefix(ref[r][i].entries, ref[r][j].entries)
        /\ IsPrefix(ref[r][i].cp.tree, ref[r][j].cp.tree)

\* The checkpoint of a commit commits to a prefix of the entries beside it and
\* carries the genuine cosignatures of a quorum (checkpointedLog accepts it).
CheckpointVerifies(c) ==
    /\ IsPrefix(c.cp.tree, c.entries)
    /\ c.cp.by \in Quorums
    /\ \A w \in c.cp.by : c.cp.tree \in cosigned[w]

\* A stored checkpoint always verifies, in every commit of every log ref.
StoredCheckpointVerifies ==
    \A r \in Repos : \A i \in 1..Len(ref[r]) :
        ref[r][i].cp # NoCheckpoint => CheckpointVerifies(ref[r][i])

\* "A witness that inspected the transition and refused it is evidence the log
\* did not grow by appending": as long as no log ref is reset, and there is one
\* clone or the clones are used as the workflows do, no interleaving of commands,
\* crashes and late requests has a witness refuse a checkpoint.
NoSpuriousRefusal ==
    \A p \in Procs, w \in Witnesses : exch[p][w].st # "refused"

\* As long as no log ref is reset, none moves except to a longer log: whatever the
\* processes and clones do to each other, the entries and the tree of the stored
\* checkpoint are never taken back.
LogRefMovesForward ==
    [][\A r \in Repos :
          /\ IsPrefix(entriesOf(ref[r]), entriesOf(ref'[r]))
          /\ IsPrefix(checkpointOf(ref[r]).tree, checkpointOf(ref'[r]).tree)]_vars

\* The longest attested tree is a published log: the commands and the witnesses
\* together implement the one append-only log with unbroken chains.
LongestAttested ==
    LET trees == AttestedTrees \cup {<<>>}
    IN  CHOOSE t \in trees : \A u \in trees : Len(u) <= Len(t)

Published == INSTANCE PublishedLog WITH published <- LongestAttested

ImplementsPublishedLog == Published!Spec

\* Every command returns, however the witnesses and the network behave.
CommandsReturn ==
    \A p \in Procs : pc[p] # "idle" ~> pc[p] = "idle"

\* "One retry is enough, because the size the witness reports is the size it
\* will accept" (cosignWithWitness): a retry is never answered with a size again.
OneRetryIsEnough ==
    \A p \in Procs, w \in Witnesses :
        exch[p][w].st = "answered" /\ exch[p][w].retry => exch[p][w].ans # "stale"
=============================================================================
