--------------------------- MODULE MCMutationGate ---------------------------
EXTENDS MutationGate, TLC
(* Small instances of the mutation gate for TLC. *)

\* Calls, keys, bodies and actors are interchangeable.
Symmetry == Permutations(Calls) \cup Permutations(Keys)
            \cup Permutations(Bodies) \cup Permutations(Actors)
=============================================================================
