----------------------------- MODULE MCPublish -----------------------------
(***************************************************************************)
(* Small instances of Publish for TLC.                                     *)
(***************************************************************************)
EXTENDS Publish, TLC

CONSTANTS c1, c2, j1, j2

\* The texts and the jobs are only ever compared for equality.
Symmetry == Permutations(Contents) \cup Permutations(Jobs)
=============================================================================
