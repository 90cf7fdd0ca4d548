--------------------------- MODULE MCIssueWitness ---------------------------
(***************************************************************************)
(* Small instances of IssueWitness: two checkpointers race with a different *)
(* first entry.                                                            *)
(***************************************************************************)
EXTENDS IssueWitness

CONSTANTS i1, i2

RacingRequests ==
    [i \in Issues |-> [from |-> 0, tree |-> IF i = i1 THEN <<"x">> ELSE <<"y">>]]
=============================================================================
