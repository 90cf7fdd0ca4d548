---------------------------- MODULE MCWorkflows ----------------------------
(***************************************************************************)
(* Two runs at a time, each in a clone of its own.                         *)
(***************************************************************************)
EXTENDS Workflows, FiniteSets

CONSTANTS a, b, main, origin, r1, r2, p1, p2, w1

MCAncestry == {<<a, a>>, <<b, b>>, <<a, b>>}

OwnClone == [p \in Procs |-> IF p = p1 THEN r1 ELSE r2]

Majorities == {Q \in SUBSET Witnesses : 2 * Cardinality(Q) > Cardinality(Witnesses)}

\* An entry logRefs would refuse once the branch is logged at b, and one of a type
\* a later version of the tool introduced.
ForcePushed == {[ref |-> main, object |-> a], Unrecognised}
=============================================================================
