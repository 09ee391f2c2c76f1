------------------------------ MODULE Lifecycle ------------------------------
(***************************************************************************)
(* What every record with a reviewed lifecycle promises: it starts in one  *)
(* status and moves along the edges of a fixed graph, one at a time.       *)
(* PrivateOffers, Funding and Reports implement it, each with the graph of *)
(* its own TRANSITIONS.                                                    *)
(***************************************************************************)
CONSTANTS
    Ids,    \* records
    First,  \* the status of a new record
    Edges,  \* <<s, t>>: a record may go from s to t
    Absent  \* the status of an id without a record

VARIABLE status

-----------------------------------------------------------------------------

Init == status = [i \in Ids |-> Absent]

\* One record is made or moves.
Step(i) ==
    \/ status[i] = Absent /\ status'[i] = First
    \/ <<status[i], status'[i]>> \in Edges

\* Bulk operations and reconciliation take several records at once.
Next ==
    \E S \in SUBSET Ids :
        /\ \A i \in S : Step(i)
        /\ status' = [i \in Ids |-> IF i \in S THEN status'[i] ELSE status[i]]

Spec == Init /\ [][Next]_status
=============================================================================
