------------------------------ MODULE MCMetering ------------------------------
EXTENDS Metering, TLC
(* A small instance of marketplace metering for TLC. *)

\* Records, receipts and calls are interchangeable.
Symmetry == Permutations(Records) \cup Permutations(Receipts) \cup Permutations(Calls)

=============================================================================
