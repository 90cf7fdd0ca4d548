------------------------------ MODULE Witness ------------------------------
(***************************************************************************)
(* The witnesses of the policy, as the client in ratchet.go relies on them *)
(* (github.com/transparency-dev/witness, external to this repository).  A  *)
(* witness keeps the last checkpoint it cosigned.  It moves to a submitted *)
(* tree only from the size it holds and only to an extension of what it    *)
(* holds, and persists the new checkpoint before it answers.               *)
(***************************************************************************)
EXTENDS RefChain

CONSTANT Witnesses

VARIABLES
    held,       \* held[w]: the tree of the checkpoint w cosigned last
    cosigned    \* cosigned[w]: every tree w has ever cosigned

WitnessVars == <<held, cosigned>>

\* The answers add-checkpoint gives: a cosignature, 409 with the size held
\* (ErrCheckpointStale), ErrRootMismatch, and 422 (ErrInvalidProof).
Answers == {"cosigned", "stale", "rootMismatch", "invalidProof"}

\* The answer of a witness that holds mine to a checkpoint for tree, proved
\* consistent from size from.  The proof is computed over the submitter's own
\* entries, so it verifies exactly when mine is the first from entries of tree.
AnswerFrom(mine, from, tree) ==
    CASE from # Len(mine) -> "stale"
      [] from = Len(mine) /\ IsPrefix(mine, tree) -> "cosigned"
      [] from = Len(mine) /\ ~ IsPrefix(mine, tree) ->
            IF Len(tree) = Len(mine) THEN "rootMismatch" ELSE "invalidProof"

\* The answer of w.
Answer(w, from, tree) == AnswerFrom(held[w], from, tree)

\* One add-checkpoint request handled, whatever its outcome.
Update(w, from, tree) ==
    IF Answer(w, from, tree) = "cosigned"
    THEN /\ held' = [held EXCEPT ![w] = tree]
         /\ cosigned' = [cosigned EXCEPT ![w] = @ \cup {tree}]
    ELSE UNCHANGED WitnessVars

WitnessInit ==
    /\ held = [w \in Witnesses |-> <<>>]
    /\ cosigned = [w \in Witnesses |-> {}]

WitnessTypeOK ==
    /\ held \in [Witnesses -> Log]
    /\ cosigned \in [Witnesses -> SUBSET Log]
=============================================================================
