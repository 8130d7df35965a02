------------------------------ MODULE MCBatch ------------------------------
(***************************************************************************)
(* Instances of Batch for TLC.                                             *)
(***************************************************************************)
EXTENDS Batch, TLC

Symmetry == Permutations(Objects) \cup Permutations(Keys)

=============================================================================
