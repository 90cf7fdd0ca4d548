---------------------------- MODULE IssueWitness ----------------------------
(***************************************************************************)
(* A witness reached through GitHub issues: the client that opens an issue *)
(* per exchange and polls it for the reply (internal/witness), and the     *)
(* workflow run each issue triggers (actions/cosign, cosign/), which works *)
(* on a checkout of the witness repository and pushes the state it wrote   *)
(* before it replies.  Runs for several issues overlap.                    *)
(*                                                                         *)
(* Together they must behave as the one witness of module Witness, which   *)
(* handles a request in a single step.                                     *)
(***************************************************************************)
EXTENDS Integers, SequencesExt

CONSTANTS
    Issues,      \* the exchanges, each an issue of its own
    Req,         \* Req[i]: the size proved from and the tree submitted
    MaxPushes,   \* bound on the commits pushed to the witness repository
    MaxRuns      \* bound on the runs of the workflow for one issue

\* checkpointLog refuses to checkpoint an empty log.
ASSUME IssueWitnessAssumption ==
    /\ Req \in [Issues -> [from : Nat, tree : Seq(STRING) \ {<<>>}]]
    /\ MaxPushes \in Nat
    /\ MaxRuns \in Nat

VARIABLES
    repo,      \* the commits of the witness repository, as the tree in the state file
    issue,     \* issue[i]: "none", "open" or "closed"
    comments,  \* comments[i]: what was posted, an answer or "prose"
    client,    \* client[i]: where RoundTrip is, or how it ended
    closed,    \* closed[i]: the issue state read in this round of polling
    run,       \* run[i]: the step the workflow run is at
    snapshot,  \* snapshot[i]: the commits the run checked out
    answer,    \* answer[i]: the run's response.txt
    runs       \* runs[i]: how often the workflow was run for the issue

clientVars == <<client, closed>>
runVars == <<run, snapshot, answer, runs>>
vars == <<repo, issue, comments, clientVars, runVars>>

wit == "witness"
state(h) == IF h = <<>> THEN <<>> ELSE Last(h)

W == INSTANCE Witness WITH
        Branches <- {}, Tags <- {}, Objects <- {}, Ancestry <- {},
        Unrecognised <- "unrecognised", Witnesses <- {wit},
        held <- [w \in {wit} |-> state(repo)],
        cosigned <- [w \in {wit} |-> ToSet(repo) \ {<<>>}]

Init ==
    /\ repo = <<>>
    /\ issue = [i \in Issues |-> "none"]
    /\ comments = [i \in Issues |-> <<>>]
    /\ client = [i \in Issues |-> "idle"]
    /\ closed = [i \in Issues |-> FALSE]
    /\ run = [i \in Issues |-> "none"]
    /\ snapshot = [i \in Issues |-> <<>>]
    /\ answer = [i \in Issues |-> "none"]
    /\ runs = [i \in Issues |-> 0]

-----------------------------------------------------------------------------
(* RoundTrip and awaitReply.                                               *)

\* createIssue.  The issue may be created and its number lost with the response.
CreateIssue(i) ==
    /\ client[i] = "idle"
    /\ issue' = [issue EXCEPT ![i] = "open"]
    /\ \E st \in {"get", "failed"} : client' = [client EXCEPT ![i] = st]
    /\ UNCHANGED <<repo, comments, closed, runVars>>

\* There is nothing to ask or nowhere to ask it: the URL names no repository, the
\* request no origin, or the API refuses the issue.
CreateFails(i) ==
    /\ client[i] = "idle"
    /\ client' = [client EXCEPT ![i] = "failed"]
    /\ UNCHANGED <<repo, issue, comments, closed, runVars>>

\* readIssue, first the issue ...
GetIssue(i) ==
    /\ client[i] = "get"
    /\ closed' = [closed EXCEPT ![i] = issue[i] = "closed"]
    /\ client' = [client EXCEPT ![i] = "list"]
    /\ UNCHANGED <<repo, issue, comments, runVars>>

\* Mutant: any comment is taken for a reply.
Replies_Unfenced(cs) == 1..Len(cs)

\* The positions of the comments with a fenced http block.
Replies(cs) == {k \in 1..Len(cs) : cs[k] # "prose"}

\* What awaitReply does once it has the comments: take the first reply, give up on a
\* closed issue, or poll again.
Decide(i, isClosed) ==
    client' = [client EXCEPT ![i] =
        IF Replies(comments[i]) # {} THEN comments[i][Min(Replies(comments[i]))]
        ELSE IF isClosed THEN "noResponse"
        ELSE "get"]

\* ... then its comments.
ListComments(i) ==
    /\ client[i] = "list"
    /\ Decide(i, closed[i])
    /\ closed' = [closed EXCEPT ![i] = FALSE]
    /\ UNCHANGED <<repo, issue, comments, runVars>>

\* A rate limit on either read: pause, then poll again.
RateLimited(i) ==
    /\ client[i] \in {"get", "list"}
    /\ client' = [client EXCEPT ![i] = "paused"]
    /\ closed' = [closed EXCEPT ![i] = FALSE]
    /\ UNCHANGED <<repo, issue, comments, runVars>>

Resume(i) ==
    /\ client[i] = "paused"
    /\ client' = [client EXCEPT ![i] = "get"]
    /\ UNCHANGED <<repo, issue, comments, closed, runVars>>

\* Mutant: the pause after a rate limit does not watch the context.
Deadline_NotPaused(i) ==
    /\ client[i] \in {"get", "list"}
    /\ client' = [client EXCEPT ![i] = "failed"]
    /\ closed' = [closed EXCEPT ![i] = FALSE]
    /\ UNCHANGED <<repo, issue, comments, runVars>>

\* The context's deadline, or an error of the API that is no rate limit.
Deadline(i) ==
    /\ client[i] \in {"get", "list", "paused"}
    /\ client' = [client EXCEPT ![i] = "failed"]
    /\ closed' = [closed EXCEPT ![i] = FALSE]
    /\ UNCHANGED <<repo, issue, comments, runVars>>

-----------------------------------------------------------------------------
(* The workflow run.                                                       *)

\* issues:opened, or a re-run of the workflow by hand.
Checkout(i) ==
    /\ issue[i] # "none"
    /\ run[i] \in {"none", "ended"}
    /\ runs[i] < MaxRuns
    /\ runs' = [runs EXCEPT ![i] = @ + 1]
    /\ snapshot' = [snapshot EXCEPT ![i] = repo]
    /\ run' = [run EXCEPT ![i] = "cosign"]
    /\ UNCHANGED <<repo, issue, comments, clientVars, answer>>

\* The Cosign step: the witness over the state file of the checkout.
Cosign(i) ==
    /\ run[i] = "cosign"
    /\ answer' = [answer EXCEPT ![i] =
                     W!AnswerFrom(state(snapshot[i]), Req[i].from, Req[i].tree)]
    /\ run' = [run EXCEPT ![i] = "commit"]
    /\ UNCHANGED <<repo, issue, comments, clientVars, snapshot, runs>>

\* The state file was not written, or was written as it was.
StateUnchanged(i) ==
    /\ run[i] = "commit"
    /\ answer[i] = "cosigned" => Req[i].tree = state(snapshot[i])
    /\ run' = [run EXCEPT ![i] = "respond"]
    /\ UNCHANGED <<repo, issue, comments, clientVars, snapshot, answer, runs>>

\* Mutant: the push is forced.
CommitState_ForcePush(i) ==
    /\ run[i] = "commit"
    /\ answer[i] = "cosigned"
    /\ Len(repo) < MaxPushes
    /\ repo' = Append(snapshot[i], Req[i].tree)
    /\ run' = [run EXCEPT ![i] = "respond"]
    /\ UNCHANGED <<issue, comments, clientVars, snapshot, answer, runs>>

\* Mutant: a push that fails does not fail the job.
CommitState_Unchecked(i) ==
    /\ run[i] = "commit"
    /\ answer[i] = "cosigned"
    /\ Len(repo) < MaxPushes
    /\ repo' = IF repo = snapshot[i] THEN Append(repo, Req[i].tree) ELSE repo
    /\ run' = [run EXCEPT ![i] = "respond"]
    /\ UNCHANGED <<issue, comments, clientVars, snapshot, answer, runs>>

\* git commit and git push, which the server refuses unless the repository is
\* where the checkout left it; then the job fails and no response is posted.
CommitState(i) ==
    /\ run[i] = "commit"
    /\ answer[i] = "cosigned"
    /\ Len(repo) < MaxPushes
    /\ IF repo = snapshot[i]
       THEN /\ repo' = Append(repo, Req[i].tree)
            /\ run' = [run EXCEPT ![i] = "respond"]
       ELSE /\ run' = [run EXCEPT ![i] = "failed"]
            /\ UNCHANGED repo
    /\ UNCHANGED <<issue, comments, clientVars, snapshot, answer, runs>>

\* Mutant: the issue is closed before the response is posted.
PostResponse_CloseFirst(i) ==
    /\ run[i] = "respond"
    /\ issue' = [issue EXCEPT ![i] = "closed"]
    /\ IF issue[i] = "closed"
       THEN /\ comments' = [comments EXCEPT ![i] = Append(@, answer[i])]
            /\ run' = [run EXCEPT ![i] = "close"]
       ELSE UNCHANGED <<comments, run>>
    /\ UNCHANGED <<repo, clientVars, snapshot, answer, runs>>

\* The response is posted whatever its status ...
PostResponse(i) ==
    /\ run[i] = "respond"
    /\ comments' = [comments EXCEPT ![i] = Append(@, answer[i])]
    /\ run' = [run EXCEPT ![i] = "close"]
    /\ UNCHANGED <<repo, issue, clientVars, snapshot, answer, runs>>

\* Handle failure comments in prose ...
PostFailure(i) ==
    /\ run[i] = "failed"
    /\ comments' = [comments EXCEPT ![i] = Append(@, "prose")]
    /\ run' = [run EXCEPT ![i] = "close"]
    /\ UNCHANGED <<repo, issue, clientVars, snapshot, answer, runs>>

\* ... and either way the issue is closed after the comment.
CloseIssue(i) ==
    /\ run[i] = "close"
    /\ issue' = [issue EXCEPT ![i] = "closed"]
    /\ run' = [run EXCEPT ![i] = "ended"]
    /\ snapshot' = [snapshot EXCEPT ![i] = <<>>]
    /\ answer' = [answer EXCEPT ![i] = "none"]
    /\ UNCHANGED <<repo, comments, clientVars, runs>>

\* A step fails (an origin that is not registered, a request that does not
\* parse, a command that errs), which runs Handle failure.
StepFails(i) ==
    /\ \/ run[i] \in {"cosign", "commit", "respond"}
       \/ run[i] = "close" /\ Last(comments[i]) # "prose"
    /\ run' = [run EXCEPT ![i] = "failed"]
    /\ UNCHANGED <<repo, issue, comments, clientVars, snapshot, answer, runs>>

\* The runner is lost and with it the run.
RunnerLost(i) ==
    /\ run[i] \notin {"none", "ended"}
    /\ run' = [run EXCEPT ![i] = "ended"]
    /\ snapshot' = [snapshot EXCEPT ![i] = <<>>]
    /\ answer' = [answer EXCEPT ![i] = "none"]
    /\ UNCHANGED <<repo, issue, comments, clientVars, runs>>

\* A run for another origin pushes to the same repository.
OtherOriginPushes ==
    /\ Len(repo) < MaxPushes
    /\ repo' = Append(repo, state(repo))
    /\ UNCHANGED <<issue, comments, clientVars, runVars>>

-----------------------------------------------------------------------------
RoundTrip(i) ==
    \/ CreateIssue(i)
    \/ CreateFails(i)
    \/ GetIssue(i)
    \/ ListComments(i)
    \/ RateLimited(i)
    \/ Resume(i)
    \/ Deadline(i)

Workflow(i) ==
    \/ Checkout(i)
    \/ Cosign(i)
    \/ StateUnchanged(i)
    \/ CommitState(i)
    \/ PostResponse(i)
    \/ PostFailure(i)
    \/ CloseIssue(i)
    \/ StepFails(i)
    \/ RunnerLost(i)

Next == (\E i \in Issues : RoundTrip(i) \/ Workflow(i)) \/ OtherOriginPushes

Spec == Init /\ [][Next]_vars

\* A deadline passes whatever else happens; nothing is assumed of the workflow.
FairSpec == Spec /\ \A i \in Issues : WF_vars(Deadline(i))

-----------------------------------------------------------------------------
(* Properties.                                                             *)

\* The type of the state.
TypeOK ==
    /\ repo \in Seq(Seq(STRING))
    /\ issue \in [Issues -> {"none", "open", "closed"}]
    /\ comments \in [Issues -> Seq(W!Answers \cup {"prose"})]
    /\ client \in [Issues -> {"idle", "get", "list", "paused", "failed", "noResponse"}
                                \cup W!Answers]
    /\ closed \in [Issues -> BOOLEAN]
    /\ run \in [Issues -> {"none", "cosign", "commit", "respond", "failed", "close", "ended"}]
    /\ snapshot \in [Issues -> Seq(Seq(STRING))]
    /\ answer \in [Issues -> W!Answers \cup {"none"}]
    /\ runs \in [Issues -> 0..MaxRuns]

\* Overlapping runs on stale checkouts, pushes for other origins, lost runners
\* and re-runs leave the witness one that handles requests one at a time and
\* moves only to an extension of the tree it holds.
ImplementsWitness ==
    /\ W!WitnessInit
    /\ [][\E i \in Issues : W!Update(wit, Req[i].from, Req[i].tree)]_(W!WitnessVars)

\* A cosignature reaches an issue only when the state that records it has been
\* pushed, so a witness never forgets what it told a client.
RepliesArePersisted ==
    \A i \in Issues :
        (\E k \in 1..Len(comments[i]) : comments[i][k] = "cosigned")
            => Req[i].tree \in ToSet(repo)

\* The client reports "witness closed the issue without a response" only if the
\* run it waited for never responds: the issue's state is read before its
\* comments, and a run comments before it closes.
NoReplyIsMissed ==
    \A i \in Issues :
        client[i] = "noResponse" /\ runs[i] = 1 => Replies(comments[i]) = {}

\* Every exchange ends, even if the workflow never runs, the runner is lost or
\* the API limits every read.
ExchangesEnd ==
    \A i \in Issues :
        client[i] \in {"get", "list", "paused"} ~>
            client[i] \notin {"get", "list", "paused"}
=============================================================================
