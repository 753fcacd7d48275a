---------------------------- MODULE MCDiscovery ----------------------------
(***************************************************************************)
(* Small instances of Discovery for TLC.                                   *)
(***************************************************************************)
EXTENDS Discovery, TLC

CONSTANTS c1, c2, j1

\* The texts are only ever compared for equality.
Symmetry == Permutations(Contents)
=============================================================================
