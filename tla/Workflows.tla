----------------------------- MODULE Workflows -----------------------------
(***************************************************************************)
(* The log and checkpoint workflows (actions/log, actions/checkpoint): a   *)
(* run checks out a clone of its own, fetches the log ref, runs one        *)
(* command of module Ratchet in it and pushes the log ref back.  Runs of   *)
(* both workflows overlap, are lost at any step and have their pushes      *)
(* rejected; the witnesses remember what they cosigned for a run whose     *)
(* commit never reaches the origin.                                        *)
(***************************************************************************)
EXTENDS Ratchet

\* Every run works in a clone of its own.
ASSUME WorkflowsAssumption ==
    /\ \A p \in Procs : RepoOf[p] # Origin
    /\ \A p, q \in Procs : p # q => RepoOf[p] # RepoOf[q]

VARIABLE step   \* step[p]: the step the run in slot p is at

wvars == <<vars, step>>

Goto(p, st) == step' = [step EXCEPT ![p] = st]

WorkflowsInit == Init /\ step = [p \in Procs |-> "none"]

\* Checkout repository and Fetch log ref.  "|| true" makes a fetch that failed
\* one that found no log.
CheckoutAndFetch(p) ==
    /\ step[p] = "none"
    /\ Goto(p, "command")
    /\ Fetch(RepoOf[p]) \/ UNCHANGED vars

\* The command goes on ...
CommandRuns(p) ==
    /\ step[p] = "command"
    /\ Command(p)
    /\ pc'[p] # "idle"
    /\ UNCHANGED step

\* ... until it has returned success: it found nothing to log, or saved ...
CommandSucceeds(p) ==
    /\ step[p] = "command"
    /\ \/ LogNothing(p)
       \/ /\ LogSave(p) \/ CheckpointFinish(p)
          /\ ref'[RepoOf[p]] # ref[RepoOf[p]]
    /\ Goto(p, "push")

\* ... or an error, which fails the job.
CommandFails(p) ==
    /\ step[p] = "command"
    /\ LogSave(p) \/ CheckpointFinish(p) \/ CheckpointRefused(p) \/ Crash(p)
    /\ ref' = ref
    /\ Goto(p, "ended")

\* Mutant: the push is forced.
PushLogRef_Force(p) ==
    /\ step[p] = "push"
    /\ Push_Force(RepoOf[p])
    /\ Goto(p, "ended")

\* Push the log entry, Push the checkpoint: without --force, so the origin takes
\* it only as a fast-forward.
PushLogRef(p) ==
    /\ step[p] = "push"
    /\ \/ Push(RepoOf[p])
       \/ /\ ~ IsStrictPrefix(ref[Origin], ref[RepoOf[p]])
          /\ UNCHANGED vars
    /\ Goto(p, "ended")

\* The runner is lost outside the command (inside it, that is Crash), or the
\* command refused to start.
RunEnds(p) ==
    /\ step[p] \in {"command", "push"}
    /\ pc[p] = "idle"
    /\ Goto(p, "ended")
    /\ UNCHANGED vars

\* The clone goes away with the runner.
Discard(p) ==
    /\ step[p] = "ended"
    /\ Goto(p, "none")
    /\ ref' = [ref EXCEPT ![RepoOf[p]] = <<>>]
    /\ UNCHANGED <<WitnessVars, procVars, late>>

Run(p) ==
    \/ CheckoutAndFetch(p)
    \/ CommandRuns(p)
    \/ CommandSucceeds(p)
    \/ CommandFails(p)
    \/ PushLogRef(p)
    \/ RunEnds(p)
    \/ Discard(p)

\* Late requests, and entries pushed to the origin's log ref by anyone.
Others ==
    /\ \/ \E m \in late : WitnessLate(m)
       \/ \E e \in Pushed : PushEntry(Origin, e)
    /\ UNCHANGED step

WorkflowsNext == (\E p \in Procs : Run(p)) \/ Others

WorkflowsSpec == WorkflowsInit /\ [][WorkflowsNext]_wvars

-----------------------------------------------------------------------------
(* Properties.                                                             *)

\* What any witness holds is in the origin's log, although the checkpoint it was
\* cosigned for may never get there: its run was lost, its push rejected or its
\* request answered late.  So every witness accepts a later checkpoint of that
\* log, and the log can always be checkpointed again ("A failure to reach a
\* witness leaves logged entries where they are, to be covered by the next
\* checkpoint").
HeldIsInLog ==
    \A w \in Witnesses : IsPrefix(held[w], entriesOf(ref[Origin]))

\* The origin's log ref only ever moves to a descendant, whatever the runs do,
\* although each of them works on a log that may be out of date or empty.
OriginMovesForward ==
    [][IsPrefix(ref[Origin], ref'[Origin])]_wvars
=============================================================================
