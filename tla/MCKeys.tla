------------------------------- MODULE MCKeys -------------------------------
(***************************************************************************)
(* Keys of both algorithms in files and in the KMS, under two names.       *)
(***************************************************************************)
EXTENDS Keys

CONSTANTS n1, n2, e1, m1, k1, k2, t1

Symmetry == Permutations(Names)
=============================================================================
