----------------------------- MODULE MCRefChain -----------------------------
(***************************************************************************)
(* Commits b and c both descend from a, and d from both: a branch can move  *)
(* forward, back, and sideways.                                            *)
(***************************************************************************)
EXTENDS RefChainCode

CONSTANTS a, b, c, d

Diamond ==
    {<<x, x>> : x \in Objects} \cup {<<a, b>>, <<a, c>>, <<a, d>>, <<b, d>>, <<c, d>>}
=============================================================================
