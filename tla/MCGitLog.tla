------------------------------ MODULE MCGitLog ------------------------------
(***************************************************************************)
(* Small instances of GitLog.                                              *)
(***************************************************************************)
EXTENDS GitLog, FiniteSets

CONSTANTS p1, p2, e1, e2

\* Processes and entries are interchangeable.
Symmetry == Permutations(Procs) \cup Permutations(Entries)
=============================================================================
