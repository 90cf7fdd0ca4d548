------------------------- MODULE IssueWitnessProofs -------------------------
(***************************************************************************)
(* Proofs about IssueWitness, for any number of issues, requests, runs and *)
(* pushes.                                                                 *)
(***************************************************************************)
EXTENDS IssueWitness, PrefixLemmas

-----------------------------------------------------------------------------
(* Types.                                                                  *)

\* The witness over a checkout answers every request.
LEMMA AnswerType ==
    ASSUME NEW mine, NEW from, NEW tree
    PROVE  W!AnswerFrom(mine, from, tree) \in W!Answers
BY DEF W!AnswerFrom, W!Answers

\* The state file of a checkout holds a tree, an absent one the empty tree.
LEMMA StateType ==
    ASSUME NEW h \in Seq(Seq(STRING))
    PROVE  state(h) \in Seq(STRING)
<1>1. CASE h = <<>>
  BY <1>1 DEF state
<1>2. CASE h # <<>>
  BY <1>2 DEF state, Last
<1>. QED BY <1>1, <1>2

\* The first reply among the comments is an answer of the witness.
LEMMA FirstReply ==
    ASSUME NEW cs \in Seq(W!Answers \cup {"prose"}), Replies(cs) # {}
    PROVE  cs[Min(Replies(cs))] \in W!Answers
<1>1. Replies(cs) \subseteq Nat
  BY DEF Replies
<1>2. Min(Replies(cs)) \in Replies(cs)
  <2>1. \E x \in Replies(cs) : \A y \in Replies(cs) : x <= y
    BY <1>1, LeastNatural
  <2>. QED BY <2>1 DEF Min
<1>. QED BY <1>2 DEF Replies

\* A run that is about to push or to post has an answer.
RunsHaveAnswers ==
    \A i \in Issues : run[i] \in {"commit", "respond"} => answer[i] \in W!Answers

\* Every step of a client keeps the types.
LEMMA RoundTripType ==
    ASSUME TypeOK, RunsHaveAnswers, NEW i \in Issues, RoundTrip(i)
    PROVE  TypeOK' /\ RunsHaveAnswers'
<1>. USE DEF TypeOK, RunsHaveAnswers, runVars, clientVars
<1>1. CASE CreateIssue(i)
  BY <1>1 DEF CreateIssue
<1>2. CASE CreateFails(i)
  BY <1>2 DEF CreateFails
<1>3. CASE GetIssue(i)
  BY <1>3 DEF GetIssue
<1>4. CASE ListComments(i)
  <2>1. comments[i] \in Seq(W!Answers \cup {"prose"})
    OBVIOUS
  <2>2. Replies(comments[i]) # {} => comments[i][Min(Replies(comments[i]))] \in W!Answers
    BY <2>1, FirstReply
  <2>. QED BY <1>4, <2>2 DEF ListComments, Decide
<1>5. CASE RateLimited(i)
  BY <1>5 DEF RateLimited
<1>6. CASE Resume(i)
  BY <1>6 DEF Resume
<1>7. CASE Deadline(i)
  BY <1>7 DEF Deadline
<1>. QED BY <1>1, <1>2, <1>3, <1>4, <1>5, <1>6, <1>7 DEF RoundTrip

\* So does every step of a run.
LEMMA WorkflowType ==
    ASSUME TypeOK, RunsHaveAnswers, NEW i \in Issues, Workflow(i)
    PROVE  TypeOK' /\ RunsHaveAnswers'
<1>. USE DEF TypeOK, RunsHaveAnswers, clientVars
<1>0. Req[i].tree \in Seq(STRING) /\ <<>> \in Seq(Seq(STRING))
  BY IssueWitnessAssumption
<1>1. CASE Checkout(i)
  <2>1. runs[i] + 1 \in 0..MaxRuns
    BY <1>1, IssueWitnessAssumption DEF Checkout
  <2>. QED BY <1>1, <2>1 DEF Checkout
<1>2. CASE Cosign(i)
  <2>1. W!AnswerFrom(state(snapshot[i]), Req[i].from, Req[i].tree) \in W!Answers
    BY AnswerType
  <2>. QED BY <1>2, <2>1 DEF Cosign
<1>3. CASE StateUnchanged(i)
  BY <1>3 DEF StateUnchanged
<1>4. CASE CommitState(i)
  <2>1. Append(repo, Req[i].tree) \in Seq(Seq(STRING))
    BY <1>0
  <2>2. repo' \in Seq(Seq(STRING))
    BY <1>4, <2>1 DEF CommitState
  <2>. QED BY <1>4, <2>2 DEF CommitState
<1>5. CASE PostResponse(i)
  <2>1. Append(comments[i], answer[i]) \in Seq(W!Answers \cup {"prose"})
    BY <1>5 DEF PostResponse
  <2>. QED BY <1>5, <2>1 DEF PostResponse
<1>6. CASE PostFailure(i)
  <2>1. Append(comments[i], "prose") \in Seq(W!Answers \cup {"prose"})
    OBVIOUS
  <2>. QED BY <1>6, <2>1 DEF PostFailure
<1>7. CASE CloseIssue(i)
  BY <1>0, <1>7 DEF CloseIssue
<1>8. CASE StepFails(i)
  BY <1>8 DEF StepFails
<1>9. CASE RunnerLost(i)
  BY <1>0, <1>9 DEF RunnerLost
<1>. QED BY <1>1, <1>2, <1>3, <1>4, <1>5, <1>6, <1>7, <1>8, <1>9 DEF Workflow

\* Types are kept by every step.
LEMMA NextType ==
    ASSUME TypeOK, RunsHaveAnswers, [Next]_vars
    PROVE  TypeOK' /\ RunsHaveAnswers'
<1>1. CASE OtherOriginPushes
  <2>1. Append(repo, state(repo)) \in Seq(Seq(STRING))
    BY StateType DEF TypeOK
  <2>. QED BY <1>1, <2>1 DEF OtherOriginPushes, TypeOK, RunsHaveAnswers, runVars, clientVars
<1>2. CASE UNCHANGED vars
  BY <1>2 DEF vars, runVars, clientVars, TypeOK, RunsHaveAnswers
<1>. QED BY <1>1, <1>2, RoundTripType, WorkflowType DEF Next

\* Nothing has been asked or answered at first.
LEMMA InitType == Init => TypeOK /\ RunsHaveAnswers
<1>1. <<>> \in Seq(Seq(STRING)) /\ <<>> \in Seq(W!Answers \cup {"prose"}) /\ 0 \in 0..MaxRuns
  BY IssueWitnessAssumption
<1>. QED BY <1>1 DEF Init, TypeOK, RunsHaveAnswers

\* Every reachable state is well typed: in particular RoundTrip returns nothing but
\* an answer of the witness, whatever comments an issue collects.
THEOREM IssueTypeCorrect == Spec => []TypeOK
<1>1. TypeOK /\ RunsHaveAnswers /\ [Next]_vars => TypeOK' /\ RunsHaveAnswers'
  BY NextType
<1>. QED BY <1>1, InitType, PTL DEF Spec

-----------------------------------------------------------------------------
(* One witness, whatever runs overlap.                                     *)

\* A run that is about to push computed its answer from its checkout.
AnswersAreComputed ==
    \A i \in Issues : run[i] = "commit" =>
        answer[i] = W!AnswerFrom(state(snapshot[i]), Req[i].from, Req[i].tree)

\* A run works on commits the repository has had: it may be behind, never beside.
SnapshotsAreOld ==
    \A i \in Issues : ToSet(snapshot[i]) \subseteq ToSet(repo)

\* A run that is about to reply with a cosignature has had its state pushed.
AboutToReply ==
    \A i \in Issues : run[i] = "respond" /\ answer[i] = "cosigned" =>
        Req[i].tree \in ToSet(repo)

\* The inductive invariant: RepliesArePersisted, and what the steps before the
\* reply establish for it.
IssueInv ==
    /\ TypeOK
    /\ RunsHaveAnswers
    /\ AnswersAreComputed
    /\ SnapshotsAreOld
    /\ AboutToReply
    /\ RepliesArePersisted

\* The tree a non-empty checkout holds is one the repository has had.
LEMMA StateIsOld ==
    ASSUME NEW h \in Seq(Seq(STRING)), state(h) # <<>>
    PROVE  state(h) \in ToSet(h)
<1>1. h # <<>> /\ state(h) = h[Len(h)]
  BY DEF state, Last
<1>2. Len(h) \in DOMAIN h
  BY <1>1
<1>. QED BY <1>1, <1>2 DEF ToSet

\* What a step does to the repository: nothing, a push of the tree its run has
\* cosigned on top of the commits that run checked out, or one for another origin.
LEMMA RepoStep ==
    ASSUME TypeOK, [Next]_vars
    PROVE  \/ repo' = repo
           \/ \E i \in Issues : /\ run[i] = "commit" /\ answer[i] = "cosigned"
                                /\ repo = snapshot[i] /\ repo' = Append(repo, Req[i].tree)
           \/ repo' = Append(repo, state(repo))
BY DEF Next, RoundTrip, Workflow, vars, CreateIssue, CreateFails, GetIssue, ListComments,
       RateLimited, Resume, Deadline, Checkout, Cosign, StateUnchanged, CommitState,
       PostResponse, PostFailure, CloseIssue, StepFails, RunnerLost, OtherOriginPushes

\* No tree is ever taken off the repository.
LEMMA RepoGrows ==
    ASSUME TypeOK, [Next]_vars
    PROVE  ToSet(repo) \subseteq ToSet(repo')
<1>1. repo \in Seq(Seq(STRING)) /\ \A i \in Issues : Req[i].tree \in Seq(STRING)
  BY IssueWitnessAssumption DEF TypeOK
<1>2. ASSUME NEW tree \in Seq(STRING), repo' = Append(repo, tree)
      PROVE  ToSet(repo) \subseteq ToSet(repo')
  <2>1. ToSet(Append(repo, tree)) = ToSet(repo) \cup {tree}
    BY <1>1, AppendAdds
  <2>. QED BY <1>2, <2>1
<1>. QED BY <1>1, <1>2, RepoStep, StateType

\* A step preserves what the steps before the reply establish.
LEMMA NextIssueInv ==
    ASSUME IssueInv, [Next]_vars
    PROVE  IssueInv'
<1>0. TypeOK' /\ RunsHaveAnswers' /\ ToSet(repo) \subseteq ToSet(repo')
  BY NextType, RepoGrows DEF IssueInv
<1>1. ASSUME NEW i \in Issues
      PROVE  /\ run'[i] = "commit" =>
                   answer'[i] = W!AnswerFrom(state(snapshot'[i]), Req[i].from, Req[i].tree)
             /\ ToSet(snapshot'[i]) \subseteq ToSet(repo')
             /\ run'[i] = "respond" /\ answer'[i] = "cosigned" => Req[i].tree \in ToSet(repo')
             /\ \A k \in 1..Len(comments'[i]) : comments'[i][k] = "cosigned" =>
                   Req[i].tree \in ToSet(repo')
  <2>0. /\ run[i] = "commit" =>
              answer[i] = W!AnswerFrom(state(snapshot[i]), Req[i].from, Req[i].tree)
        /\ ToSet(snapshot[i]) \subseteq ToSet(repo)
        /\ run[i] = "respond" /\ answer[i] = "cosigned" => Req[i].tree \in ToSet(repo)
        /\ \A k \in 1..Len(comments[i]) : comments[i][k] = "cosigned" =>
              Req[i].tree \in ToSet(repo)
    BY DEF IssueInv, AnswersAreComputed, SnapshotsAreOld, AboutToReply, RepliesArePersisted
  <2>1. CASE UNCHANGED <<run[i], answer[i], snapshot[i], comments[i]>>
    BY <1>0, <2>0, <2>1
  <2>2. CASE Checkout(i)
    BY <1>0, <2>0, <2>2 DEF Checkout, IssueInv, TypeOK
  <2>3. CASE Cosign(i)
    BY <1>0, <2>0, <2>3 DEF Cosign, IssueInv, TypeOK
  <2>4. CASE StateUnchanged(i)
    <3>1. answer[i] = "cosigned" => Req[i].tree \in ToSet(repo)
      <4>1. Req[i].tree # <<>> /\ snapshot[i] \in Seq(Seq(STRING))
        BY IssueWitnessAssumption DEF IssueInv, TypeOK
      <4>2. answer[i] = "cosigned" => Req[i].tree \in ToSet(snapshot[i])
        BY <2>4, <4>1, StateIsOld DEF StateUnchanged
      <4>. QED BY <2>0, <4>2
    <3>. QED BY <1>0, <2>0, <2>4, <3>1 DEF StateUnchanged, IssueInv, TypeOK
  <2>5. CASE CommitState(i)
    <3>1. repo = snapshot[i] => Req[i].tree \in ToSet(repo')
      <4>1. Req[i].tree \in Seq(STRING) /\ repo \in Seq(Seq(STRING))
        BY IssueWitnessAssumption DEF IssueInv, TypeOK
      <4>2. ToSet(Append(repo, Req[i].tree)) = ToSet(repo) \cup {Req[i].tree}
        BY <4>1, AppendAdds
      <4>. QED BY <2>5, <4>2 DEF CommitState
    <3>. QED BY <1>0, <2>0, <2>5, <3>1 DEF CommitState, IssueInv, TypeOK
  <2>6. CASE PostResponse(i)
    <3>1. comments'[i] = Append(comments[i], answer[i]) /\ run[i] = "respond"
      BY <2>6 DEF PostResponse, IssueInv, TypeOK
    <3>2. comments[i] \in Seq(W!Answers \cup {"prose"}) /\ answer[i] \in W!Answers \cup {"prose"}
      BY <3>1 DEF IssueInv, TypeOK, RunsHaveAnswers
    <3>3. \A k \in 1..Len(comments'[i]) :
             \/ k \in 1..Len(comments[i]) /\ comments'[i][k] = comments[i][k]
             \/ comments'[i][k] = answer[i]
      BY <3>1, <3>2
    <3>. QED BY <1>0, <2>0, <2>6, <3>1, <3>3 DEF PostResponse, IssueInv, TypeOK
  <2>7. CASE PostFailure(i)
    <3>1. comments'[i] = Append(comments[i], "prose")
      BY <2>7 DEF PostFailure, IssueInv, TypeOK
    <3>2. comments[i] \in Seq(W!Answers \cup {"prose"})
      BY DEF IssueInv, TypeOK
    <3>3. \A k \in 1..Len(comments'[i]) :
             \/ k \in 1..Len(comments[i]) /\ comments'[i][k] = comments[i][k]
             \/ comments'[i][k] = "prose"
      BY <3>1, <3>2
    <3>. QED BY <1>0, <2>0, <2>7, <3>1, <3>3 DEF PostFailure, IssueInv, TypeOK
  <2>8. CASE CloseIssue(i) \/ RunnerLost(i)
    <3>1. /\ run'[i] = "ended" /\ snapshot'[i] = <<>>
          /\ comments' = comments
      BY <2>8 DEF CloseIssue, RunnerLost, IssueInv, TypeOK
    <3>2. ToSet(<<>>) = {}
      BY DEF ToSet
    <3>. QED BY <1>0, <2>0, <3>1, <3>2
  <2>9. CASE StepFails(i)
    BY <1>0, <2>0, <2>9 DEF StepFails, IssueInv, TypeOK
  <2>10. ASSUME NEW j \in Issues, Workflow(j), j # i
         PROVE  UNCHANGED <<run[i], answer[i], snapshot[i], comments[i]>>
    BY <2>10 DEF Workflow, Checkout, Cosign, StateUnchanged, CommitState, PostResponse,
                 PostFailure, CloseIssue, StepFails, RunnerLost, IssueInv, TypeOK
  <2>11. ASSUME \/ \E j \in Issues : RoundTrip(j)
                \/ OtherOriginPushes
                \/ UNCHANGED vars
         PROVE  UNCHANGED <<run[i], answer[i], snapshot[i], comments[i]>>
    BY <2>11 DEF RoundTrip, CreateIssue, CreateFails, GetIssue, ListComments, RateLimited,
                 Resume, Deadline, OtherOriginPushes, vars, runVars
  <2>. QED BY <2>1, <2>2, <2>3, <2>4, <2>5, <2>6, <2>7, <2>8, <2>9, <2>10, <2>11
           DEF Next, Workflow
<1>. QED BY <1>0, <1>1 DEF IssueInv, AnswersAreComputed, SnapshotsAreOld, AboutToReply,
                           RepliesArePersisted

\* IssueInv holds in every reachable state.
THEOREM IssueInvariance == Spec => []IssueInv
<1>1. Init => IssueInv
  BY InitType DEF Init, IssueInv, AnswersAreComputed, SnapshotsAreOld, AboutToReply,
                  RepliesArePersisted, ToSet
<1>. QED BY <1>1, NextIssueInv, PTL DEF Spec

\* A cosignature is posted only once the state that records it is pushed, however
\* runs overlap, fail, are lost and are repeated.
THEOREM CosignaturesArePersisted == Spec => []RepliesArePersisted
<1>1. IssueInv => RepliesArePersisted
  BY DEF IssueInv
<1>. QED BY <1>1, IssueInvariance, PTL

\* What a push adds to the witness the repository stands for.
LEMMA PushAdds ==
    ASSUME NEW h \in Seq(Seq(STRING)), NEW tree \in Seq(STRING)
    PROVE  /\ state(Append(h, tree)) = tree
           /\ ToSet(Append(h, tree)) = ToSet(h) \cup {tree}
<1>1. /\ ToSet(Append(h, tree)) = ToSet(h) \cup {tree}
      /\ Last(Append(h, tree)) = tree
      /\ Append(h, tree) # <<>>
  BY AppendAdds
<1>. QED BY <1>1 DEF state

\* Every step leaves that witness alone or has it handle one request.
LEMMA StepUpdates ==
    ASSUME IssueInv, [Next]_vars
    PROVE  [\E i \in Issues : W!Update(wit, Req[i].from, Req[i].tree)]_(W!WitnessVars)
<1>0. repo \in Seq(Seq(STRING)) /\ state(repo) \in Seq(STRING)
  BY StateType DEF IssueInv, TypeOK
<1>1. CASE repo' = repo
  BY <1>1 DEF W!WitnessVars
<1>2. CASE repo' = Append(repo, state(repo))
  <2>1. state(repo') = state(repo) /\ ToSet(repo') = ToSet(repo) \cup {state(repo)}
    BY <1>0, <1>2, PushAdds
  <2>2. ToSet(repo') \ {<<>>} = ToSet(repo) \ {<<>>}
    BY <1>0, <2>1, StateIsOld
  <2>. QED BY <2>1, <2>2 DEF W!WitnessVars
<1>3. ASSUME NEW i \in Issues, run[i] = "commit", answer[i] = "cosigned", repo = snapshot[i],
             repo' = Append(repo, Req[i].tree)
      PROVE  W!Update(wit, Req[i].from, Req[i].tree)
  <2> DEFINE tree == Req[i].tree
  <2>1. tree \in Seq(STRING) /\ tree # <<>>
    BY IssueWitnessAssumption
  <2>2. state(repo') = tree /\ ToSet(repo') = ToSet(repo) \cup {tree}
    BY <1>0, <1>3, <2>1, PushAdds
  <2>3. W!Answer(wit, Req[i].from, tree) = "cosigned"
    BY <1>3 DEF W!Answer, IssueInv, AnswersAreComputed
  <2>4. [w \in {wit} |-> state(repo')] = [[w \in {wit} |-> state(repo)] EXCEPT ![wit] = tree]
    BY <2>2
  <2>5. ToSet(repo') \ {<<>>} = (ToSet(repo) \ {<<>>}) \cup {tree}
    BY <2>1, <2>2
  <2>6. [w \in {wit} |-> ToSet(repo') \ {<<>>}]
           = [[w \in {wit} |-> ToSet(repo) \ {<<>>}] EXCEPT ![wit] = @ \cup {tree}]
    BY <2>5
  <2>. QED BY <2>3, <2>4, <2>6 DEF W!Update
<1>. QED BY <1>1, <1>2, <1>3, RepoStep DEF IssueInv

\* Runs that overlap on stale checkouts, pushes for other origins, lost runners and
\* re-runs leave one witness, which handles one request at a time and moves only to
\* extensions of what it holds.
THEOREM IssuesImplementWitness == Spec => ImplementsWitness
<1>1. Init => W!WitnessInit
  BY DEF Init, W!WitnessInit, state, ToSet
<1>2. IssueInv /\ [Next]_vars
         => [\E i \in Issues : W!Update(wit, Req[i].from, Req[i].tree)]_(W!WitnessVars)
  BY StepUpdates
<1>. QED BY <1>1, <1>2, IssueInvariance, PTL DEF Spec, ImplementsWitness

-----------------------------------------------------------------------------
(* No reply is missed.                                                     *)

\* An issue is closed by a run that has ended, and reopened by none; a client that
\* knows it closed is about to read its comments or has given up.
ClosedAfterRun ==
    \A i \in Issues :
        /\ run[i] # "none" => runs[i] >= 1
        /\ issue[i] = "closed" => runs[i] >= 1 /\ (runs[i] = 1 => run[i] = "ended")
        /\ closed[i] => client[i] = "list" /\ issue[i] = "closed"
        /\ client[i] = "noResponse" => issue[i] = "closed"

\* NoReplyIsMissed, with what it needs of the order in which a run comments and
\* closes and a client reads.
ReplyInv ==
    /\ TypeOK
    /\ RunsHaveAnswers
    /\ ClosedAfterRun
    /\ NoReplyIsMissed

\* The comments of an issue change only by a run that has not ended.
LEMMA RoundTripReply ==
    ASSUME ReplyInv, NEW i \in Issues, RoundTrip(i)
    PROVE  ClosedAfterRun' /\ NoReplyIsMissed'
<1>. USE DEF ReplyInv, TypeOK, ClosedAfterRun, NoReplyIsMissed, runVars
<1>1. CASE CreateIssue(i)
  BY <1>1 DEF CreateIssue
<1>2. CASE CreateFails(i)
  BY <1>2 DEF CreateFails
<1>3. CASE GetIssue(i)
  BY <1>3 DEF GetIssue
<1>4. CASE ListComments(i)
  <2>1. comments[i] \in Seq(W!Answers \cup {"prose"})
    OBVIOUS
  <2>2. Replies(comments[i]) # {} => comments[i][Min(Replies(comments[i]))] # "noResponse"
    BY <2>1, FirstReply DEF W!Answers
  <2>. QED BY <1>4, <2>2 DEF ListComments, Decide
<1>5. CASE RateLimited(i)
  BY <1>5 DEF RateLimited
<1>6. CASE Resume(i)
  BY <1>6 DEF Resume
<1>7. CASE Deadline(i)
  BY <1>7 DEF Deadline
<1>. QED BY <1>1, <1>2, <1>3, <1>4, <1>5, <1>6, <1>7 DEF RoundTrip

\* A run comments before it closes the issue.
LEMMA WorkflowReply ==
    ASSUME ReplyInv, NEW i \in Issues, Workflow(i)
    PROVE  ClosedAfterRun' /\ NoReplyIsMissed'
<1>. USE DEF ReplyInv, TypeOK, ClosedAfterRun, NoReplyIsMissed, clientVars
<1>1. CASE Checkout(i)
  BY <1>1 DEF Checkout
<1>2. CASE Cosign(i)
  BY <1>2 DEF Cosign
<1>3. CASE StateUnchanged(i)
  BY <1>3 DEF StateUnchanged
<1>4. CASE CommitState(i)
  BY <1>4 DEF CommitState
<1>5. CASE PostResponse(i)
  BY <1>5 DEF PostResponse
<1>6. CASE PostFailure(i)
  BY <1>6 DEF PostFailure
<1>7. CASE CloseIssue(i)
  BY <1>7 DEF CloseIssue
<1>8. CASE StepFails(i)
  BY <1>8 DEF StepFails
<1>9. CASE RunnerLost(i)
  BY <1>9 DEF RunnerLost
<1>. QED BY <1>1, <1>2, <1>3, <1>4, <1>5, <1>6, <1>7, <1>8, <1>9 DEF Workflow

\* Unless the workflow is run again for the issue, a client that reports an issue
\* closed without a response has not overlooked one.
THEOREM RepliesAreNotMissed == Spec => []NoReplyIsMissed
<1>1. Init => ReplyInv
  BY InitType DEF Init, ReplyInv, ClosedAfterRun, NoReplyIsMissed
<1>2. ReplyInv /\ [Next]_vars => ReplyInv'
  <2>. SUFFICES ASSUME ReplyInv, [Next]_vars PROVE ReplyInv'
    OBVIOUS
  <2>1. TypeOK' /\ RunsHaveAnswers'
    BY NextType DEF ReplyInv
  <2>2. CASE OtherOriginPushes \/ UNCHANGED vars
    BY <2>1, <2>2 DEF OtherOriginPushes, vars, clientVars, runVars, ReplyInv, ClosedAfterRun,
                      NoReplyIsMissed
  <2>. QED BY <2>1, <2>2, RoundTripReply, WorkflowReply DEF Next, ReplyInv
<1>3. ReplyInv => NoReplyIsMissed
  BY DEF ReplyInv
<1>. QED BY <1>1, <1>2, <1>3, PTL DEF Spec
=============================================================================
