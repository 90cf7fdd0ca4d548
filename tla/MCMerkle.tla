------------------------------ MODULE MCMerkle ------------------------------
(***************************************************************************)
(* Logs over two different entries.                                        *)
(***************************************************************************)
EXTENDS Merkle

CONSTANTS a, main, w1

MCAncestry == {<<a, a>>}
=============================================================================
