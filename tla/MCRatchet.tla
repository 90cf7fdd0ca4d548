----------------------------- MODULE MCRatchet -----------------------------
(***************************************************************************)
(* Small instances of Ratchet: commit b descends from commit a, so a branch *)
(* moves forward from a to b and is rewound from b to a.                   *)
(***************************************************************************)
EXTENDS Ratchet, FiniteSets

CONSTANTS a, b, main, v1, r1, r2, p1, p2, w1, w2, w3

MCAncestry == {<<a, a>>, <<b, b>>, <<a, b>>}

\* Every process in the one clone.
OneClone == [p \in Procs |-> Origin]

\* Every process in a clone of the origin r2.
AwayFromOrigin == [p \in Procs |-> r1]

\* More than half of the witnesses.
Majorities == {Q \in SUBSET Witnesses : 2 * Cardinality(Q) > Cardinality(Witnesses)}

\* A quorum of the witnesses that can be asked.
Reachable == {Q \in SUBSET Witnesses : Witnesses \ NoURL \subseteq Q}

\* Entries logRefs would refuse once the branch is logged at b and the tag at a.
ForcePushed == {[ref |-> main, object |-> a], [ref |-> v1, object |-> b]}
Nothing == {}
Pushes == {Unrecognised}

WitnessSymmetry == Permutations(Witnesses)
=============================================================================
