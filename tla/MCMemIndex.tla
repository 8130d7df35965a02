----------------------------- MODULE MCMemIndex -----------------------------
(***************************************************************************)
(* Instances of MemIndex for TLC.                                          *)
(***************************************************************************)
EXTENDS MemIndex, TLC

Symmetry == Permutations(Readers)

=============================================================================
