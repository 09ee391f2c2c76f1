--------------------------------- MODULE Ace ---------------------------------
(***************************************************************************)
(* Co-sell opportunities (src/domain/ace/operations.ts) and their sync     *)
(* with AWS Partner Central (src/domain/aws): an opportunity is worked,    *)
(* won or lost, routed to an owner and approved with a follow-up task;     *)
(* those that AWS knows have a read-only mirror row, whose values can be   *)
(* accepted, and are inserted and updated by the sales-org sync.           *)
(*                                                                         *)
(* An operation that reads the opportunity and writes it in a later        *)
(* statement is two actions; a sync calls AWS and then commits the mirror  *)
(* and the opportunities in two transactions.  Names, amounts, stages,     *)
(* loss reasons, contacts and teams are left out; of the owner, that       *)
(* setting one routes the opportunity.                                     *)
(***************************************************************************)
CONSTANTS
    Opps,     \* ids of opportunities rows
    Synced,   \* those that have an id of Partner Central's
    Editors,  \* operations in flight
    None      \* no row, no mirror row

VARIABLES
    opp,       \* the opportunities table
    mirror,    \* partner_central_opportunities: the status of each
    tasked,    \* opportunities with a tasks row (source_ref)
    op,        \* what each operation in flight has read
    contended  \* history: opportunities on which two operations overlapped

vars == <<opp, mirror, tasked, op, contended>>

-----------------------------------------------------------------------------

Statuses == {"open", "won", "lost"}

Closed == {"won", "lost"}

Routing == {"unrouted", "routed", "approved"}

\* closed, task: closed_at and task_id are set.
Row == [status: Statuses, closed: BOOLEAN, routing: Routing, task: BOOLEAN]

\* What the constants satisfy.
ConstantsOK ==
    /\ Synced \subseteq Opps
    /\ None \notin Row
    /\ None \notin Statuses

Mirror == [Synced -> Statuses \cup {None}]

\* What an update sets.  status "same": the column is left alone; capture:
\* closed_at is stamped or cleared; route: the routing becomes "routed".
Change == [status: Statuses \cup {"same"}, capture: BOOLEAN, route: BOOLEAN]

Idle == [kind |-> "idle"]

Op == {Idle}
      \cup [kind: {"update"}, opp: Opps, set: Change]
      \cup [kind: {"approve"}, opp: Opps]
      \cup [kind: {"mirror", "team"}, aws: Mirror]

TypeOK ==
    /\ opp \in [Opps -> Row \cup {None}]
    /\ mirror \in Mirror
    /\ tasked \subseteq Opps
    /\ op \in [Editors -> Op]
    /\ contended \subseteq Opps

Init ==
    /\ opp = [o \in Opps |-> None]
    /\ mirror = [o \in Synced |-> None]
    /\ tasked = {}
    /\ op = [e \in Editors |-> Idle]
    /\ contended = {}

-----------------------------------------------------------------------------

Rows == {o \in Opps : opp[o] # None}

New(status) ==
    [status |-> status, closed |-> FALSE, routing |-> "unrouted", task |-> FALSE]

Busy(e, o) == op[e].kind \in {"update", "approve"} /\ op[e].opp = o

Begin(e, o, what) ==
    /\ op[e] = Idle
    /\ op' = [op EXCEPT ![e] = what]
    /\ contended' = IF \E d \in Editors : Busy(d, o) THEN contended \cup {o} ELSE contended
    /\ UNCHANGED <<opp, mirror, tasked>>

End(e) ==
    /\ op' = [op EXCEPT ![e] = Idle]
    /\ UNCHANGED contended

\* createOpportunityOp
Create(o) ==
    /\ o \notin Rows \cup Synced
    /\ opp' = [opp EXCEPT ![o] = New("open")]
    /\ UNCHANGED <<mirror, tasked, op, contended>>

-----------------------------------------------------------------------------
(* updateOpportunityOp and bulkUpdateOpportunityOp *)

\* From the row that is read, the status of the form and whether it assigns an
\* owner: win/loss capture on a transition, routing if it is un-routed.
ChangeFor(row, status, owner) ==
    [status |-> status,
     capture |-> status \notin {"same", row.status},
     route |-> owner /\ row.routing = "unrouted"]

Changed(row, set) ==
    [status  |-> IF set.status = "same" THEN row.status ELSE set.status,
     closed  |-> IF set.capture THEN set.status \in Closed ELSE row.closed,
     routing |-> IF set.route THEN "routed" ELSE row.routing,
     task    |-> row.task]

ReadUpdate(e, o, status, owner) ==
    /\ o \in Rows
    /\ Begin(e, o, [kind |-> "update", opp |-> o, set |-> ChangeFor(opp[o], status, owner)])

WriteUpdate(e) ==
    /\ op[e].kind = "update"
    /\ opp' = [opp EXCEPT ![op[e].opp] = Changed(@, op[e].set)]
    /\ End(e)
    /\ UNCHANGED <<mirror, tasked>>

\* The selected opportunities get an owner.
BulkOwner(S) ==
    /\ S # {} /\ S \subseteq Rows
    /\ opp' = [o \in Opps |->
          IF o \in S THEN Changed(opp[o], ChangeFor(opp[o], "same", TRUE))
          ELSE opp[o]]
    /\ UNCHANGED <<mirror, tasked, op, contended>>

-----------------------------------------------------------------------------
(* approveRoutingOp: the task of an opportunity is made once. *)

ReadApprove(e, o) ==
    /\ o \in Rows
    /\ opp[o].routing = "routed"
    /\ Begin(e, o, [kind |-> "approve", opp |-> o])

WriteApprove(e) ==
    LET o == op[e].opp
    IN  /\ op[e].kind = "approve"
        /\ opp[o].routing = "routed"
        /\ opp' = [opp EXCEPT ![o].routing = "approved", ![o].task = o \notin tasked]
        /\ tasked' = tasked \cup {o}
        /\ End(e)
        /\ UNCHANGED mirror

-----------------------------------------------------------------------------
(* Partner Central *)

\* syncPartnerCentral has AWS's list, of some opportunities.
FetchFromAws(e, aws) ==
    /\ op[e] = Idle
    /\ \E o \in Synced : aws[o] # None
    /\ op' = [op EXCEPT ![e] = [kind |-> "mirror", aws |-> aws]]
    /\ UNCHANGED <<opp, mirror, tasked, contended>>

\* syncMirrorOp
SyncMirror(e) ==
    /\ op[e].kind = "mirror"
    /\ mirror' = [o \in Synced |-> IF op[e].aws[o] # None THEN op[e].aws[o] ELSE mirror[o]]
    /\ op' = [op EXCEPT ![e].kind = "team"]
    /\ UNCHANGED <<opp, tasked, contended>>

\* syncAwsSalesOrgOp, for those that have a team
SyncSalesOrg(e, teamed) ==
    LET aws == op[e].aws
    IN  /\ op[e].kind = "team"
        /\ teamed # {} /\ teamed \subseteq {o \in Synced : aws[o] # None}
        /\ opp' = [o \in Opps |->
              IF o \notin teamed THEN opp[o]
              ELSE IF o \in Rows THEN [opp[o] EXCEPT !.status = aws[o]]
              ELSE New(aws[o])]
        /\ End(e)
        /\ UNCHANGED <<mirror, tasked>>

\* acceptPartnerCentralTruthOp
AcceptTruth(S) ==
    LET hit == {o \in S \cap Rows \cap Synced : mirror[o] # None}
    IN  /\ hit # {}
        /\ opp' = [o \in Opps |-> IF o \in hit THEN [opp[o] EXCEPT !.status = mirror[o]]
                                  ELSE opp[o]]
        /\ UNCHANGED <<mirror, tasked, op, contended>>

\* The guard of an update fails, AWS does not answer, a transaction is lost.
Fail(e) ==
    /\ op[e] # Idle
    /\ End(e)
    /\ UNCHANGED <<opp, mirror, tasked>>

-----------------------------------------------------------------------------

Next ==
    \/ \E o \in Opps : Create(o)
    \/ \E S \in SUBSET Opps :
          \/ BulkOwner(S)
          \/ AcceptTruth(S)
    \/ \E e \in Editors :
          \/ \E o \in Opps :
                \/ \E status \in Statuses \cup {"same"}, owner \in BOOLEAN :
                       ReadUpdate(e, o, status, owner)
                \/ ReadApprove(e, o)
          \/ WriteUpdate(e)
          \/ WriteApprove(e)
          \/ \E aws \in Mirror : FetchFromAws(e, aws)
          \/ SyncMirror(e)
          \/ \E teamed \in SUBSET Synced : SyncSalesOrg(e, teamed)
          \/ Fail(e)

Spec == Init /\ [][Next]_vars

-----------------------------------------------------------------------------
(* Properties *)

\* An approved routing has its follow-up task, whatever re-assignments, bulk
\* edits and syncs go on, unless an edit and an approval of the opportunity
\* overlap: the edit may then route it again, and the second approval, which
\* makes no second task, clears the link to the first.
ApprovedHasTaskAlone ==
    \A o \in Rows \ contended : opp[o].routing = "approved" => opp[o].task
=============================================================================
