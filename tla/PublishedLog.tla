---------------------------- MODULE PublishedLog ----------------------------
(***************************************************************************)
(* What git-ratchet promises to those who verify: one log, seen by all,    *)
(* that only ever grows and in which the chain of every ref holds.         *)
(***************************************************************************)
EXTENDS RefChain

VARIABLE published   \* the longest log a quorum attests to

Init == published = <<>>

Extend ==
    \E old \in {published}, new \in {published'} :
        /\ IsStrictPrefix(old, new)
        /\ checkLogChains(new)

Spec == Init /\ [][Extend]_published
=============================================================================
