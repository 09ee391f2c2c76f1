----------------------------- MODULE MCPlaybooks -----------------------------
EXTENDS Playbooks, TLC, FiniteSets
(* Small instances of the playbooks for TLC. *)

Symmetry == Permutations(Playbooks) \cup Permutations(Decisions)
            \cup Permutations(Passes) \cup Permutations(Approvers)
            \cup Permutations(Ticks)

\* Bound: how many of the passes, approvals and deliveries are under way.
Busy == Cardinality({t \in Passes : pass[t] # NoPass})
        + Cardinality({a \in Approvers : approver[a] # None})
        + Cardinality({k \in Ticks : tick[k] # NoTick})

AtMostTwoBusy == Busy <= 2
=============================================================================
