------------------------------ MODULE MCStorage ------------------------------
(***************************************************************************)
(* Instances of Storage for TLC.                                           *)
(***************************************************************************)
EXTENDS StorageInvariant, TLC

CONSTANTS k1, k2, c1, hook

MCKeys == {k1, k2}
MCOneKey == {k1}
MCCompactors == {c1}
MCNone == {}
MCRefreshers == Compactors \cup {hook}

Symmetry == Permutations(Keys) \cup Permutations(Compactors)

=============================================================================
