-------------------------------- MODULE MCMdf --------------------------------
(* Instances of Mdf for TLC. *)
EXTENDS Mdf, TLC

Symmetry == Permutations(Editors) \cup Permutations(Requests)
=============================================================================
