------------------------------- MODULE MCLive -------------------------------
(***************************************************************************)
(* What must eventually happen, for TLC: the calls of the mutation gate    *)
(* and the transactions that mirror tasks and milestones.  The two share   *)
(* no state and no action: a behaviour picks one of them, its part, and    *)
(* the other rests in an initial state.                                    *)
(***************************************************************************)
EXTENDS MutationGate, TLC

CONSTANTS Links, Txns

\* The milestones of a workspace.
ASSUME LinksAssumption == IsFiniteSet(Links)

VARIABLES part, milestone, task, work

mirrorVars == <<milestone, task, work>>

T == INSTANCE TaskMirror WITH txn <- work

InitLive ==
    /\ part \in {"gate", "mirror"}
    /\ Init
    /\ T!Init
    \* Bound: milestones start alike.  The requests matter to the gate alone, the
    \* milestones to the mirror.
    /\ \A l, k \in Links : milestone[l] = milestone[k]
    /\ part = "mirror" => request = [c \in Calls |-> CHOOSE q \in Request : TRUE]
    /\ part = "gate" => milestone = [l \in Links |-> "planned"]

NextLive ==
    \/ part = "gate" /\ Next /\ UNCHANGED <<part, mirrorVars>>
    \/ part = "mirror" /\ T!Next /\ UNCHANGED <<part, vars>>

\* A part that rests has no progress to make.
SpecLive ==
    /\ InitLive
    /\ [][NextLive]_<<part, vars, mirrorVars>>
    /\ \A c \in Calls : WF_vars(Progress(c))
    /\ T!Fairness

\* A task and its milestone agree whenever either changes
\* (tasks/operations.ts, roadmaps/operations.ts).
ChangeMirrors == T!ChangeMirrors

\* An operation that edits tasks or milestones ends, deadlocks included.
EveryEditEnds == T!EveryEditEnds
=============================================================================
