------------------------------ MODULE MCSync ------------------------------
(***************************************************************************)
(* Small instances of Sync for TLC.                                        *)
(***************************************************************************)
EXTENDS Sync, TLC

CONSTANTS c1, c2, c3

\* The configurations are only ever compared for equality.
Symmetry == Permutations(Contents)
=============================================================================
