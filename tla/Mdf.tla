--------------------------------- MODULE Mdf ---------------------------------
(***************************************************************************)
(* MDF funding requests (src/domain/mdf/operations.ts and lifecycle.ts):   *)
(* a request is drafted, submitted, decided, deployed, claimed and         *)
(* reimbursed, and every stage has an amount no larger than the stage      *)
(* before it.                                                              *)
(*                                                                         *)
(* An operation runs in a gate transaction at READ COMMITTED: it loads the *)
(* request and checks it, and then updates the row, with a guard on the    *)
(* status if it advances the lifecycle.  Other transactions commit in      *)
(* between, so the read is one action here and the update with the commit  *)
(* another.  An update whose guard fails rejects, and the gate rolls back. *)
(*                                                                         *)
(* A stage carries the name of the status it leads to; the amount of stage *)
(* "requested" is requestedAmount.  Amounts that operations write are      *)
(* positive, so 0 stands for NULL, which the code reads as 0 (?? 0).       *)
(***************************************************************************)
EXTENDS Naturals

CONSTANTS
    Requests,   \* ids of mdf_requests rows
    Editors,    \* operations in flight that read and then write
    MaxAmount,  \* bound: the largest amount
    None        \* no row, no request

ASSUME NoneAssumption == None \notin Requests
ASSUME AmountAssumption == MaxAmount \in Nat

VARIABLES
    request,  \* the mdf_requests table
    op        \* what each operation in flight has read and is about to write

vars == <<request, op>>

-----------------------------------------------------------------------------

Stages == {"requested", "approved", "deployed", "claimed", "reimbursed"}

Statuses == Stages \cup {"draft", "rejected"}

Amounts == 0..MaxAmount

\* ready: every preflight check but the amount's passes, and no AWS rule
\* blocks.  proof: evidence_id is set.
Row == [status: Statuses, ready: BOOLEAN, proof: BOOLEAN,
        amount: [Stages -> Amounts]]

ASSUME NoneRowAssumption == None \notin Row

Op == [kind: {"idle", "edit"} \cup Stages, request: Requests \cup {None},
       amount: Amounts, ready: BOOLEAN]

Idle == [kind |-> "idle", request |-> None, amount |-> 0, ready |-> FALSE]

TypeOK ==
    /\ request \in [Requests -> Row \cup {None}]
    /\ op \in [Editors -> Op]

Init ==
    /\ request = [r \in Requests |-> None]
    /\ op = [t \in Editors |-> Idle]

-----------------------------------------------------------------------------

\* TRANSITIONS: from a status to one that may follow it.
Transitions == {<<"draft", "requested">>, <<"requested", "approved">>,
                <<"requested", "rejected">>, <<"approved", "deployed">>,
                <<"deployed", "claimed">>, <<"claimed", "reimbursed">>}

Rows == {r \in Requests : request[r] # None}

\* preflight and the AWS rules.
Eligible(r) == request[r].amount["requested"] > 0 /\ request[r].ready

\* A row's amounts with another one for a stage.
WithAmount(w, s, a) == [w.amount EXCEPT ![s] = a]

Edited(w, a, ready) == [w EXCEPT !.ready = ready, !.amount = WithAmount(w, "requested", a)]

Reached(w, s, a) == [w EXCEPT !.status = s, !.amount = WithAmount(w, s, a)]

\* What a transition has to remember of what it read.
Pending(s, r, a) == [kind |-> s, request |-> r, amount |-> a, ready |-> FALSE]

Read(t, o) ==
    /\ op[t].kind = "idle"
    /\ op' = [op EXCEPT ![t] = o]
    /\ UNCHANGED request

-----------------------------------------------------------------------------
(* Drafts *)

\* createRequestOp, which the actions call without an owner: such a draft is
\* not ready.
Create(r, a) ==
    /\ r \notin Rows
    /\ request' = [request EXCEPT ![r] =
          [status |-> "draft", ready |-> FALSE, proof |-> FALSE,
           amount |-> [s \in Stages |-> IF s = "requested" THEN a ELSE 0]]]
    /\ UNCHANGED op

\* updateRequestOp: only a draft is edited; the update is by id alone.
ReadEdit(t, r, a, ready) ==
    /\ r \in Rows
    /\ request[r].status = "draft"
    /\ Read(t, [kind |-> "edit", request |-> r, amount |-> a, ready |-> ready])

WriteEdit(t) ==
    /\ op[t].kind = "edit"
    /\ request' = [request EXCEPT ![op[t].request] = Edited(@, op[t].amount, op[t].ready)]
    /\ op' = [op EXCEPT ![t] = Idle]

-----------------------------------------------------------------------------
(* Transitions *)

\* submitRequestOp: the preflight, then the guarded update.
ReadSubmit(t, r) ==
    /\ r \in Rows
    /\ Eligible(r)
    /\ Read(t, Pending("requested", r, 0))

WriteSubmit(t) ==
    /\ op[t].kind = "requested"
    /\ request[op[t].request].status = "draft"
    /\ request' = [request EXCEPT ![op[t].request].status = "requested"]
    /\ op' = [op EXCEPT ![t] = Idle]

\* Variant: an off-by-one in the bound.
StageUpTo(t, r, before, s, a) ==
    /\ r \in Rows
    /\ a \in 1..(request[r].amount[before] + 1)
    /\ Read(t, Pending(s, r, a))

\* approve-, deploy-, claim- and reimburseRequestOp: the new amount is at
\* least 1 and at most the amount of the stage before.
ReadStage(t, r, before, s, a) ==
    /\ r \in Rows
    /\ a \in 1..request[r].amount[before]
    /\ Read(t, Pending(s, r, a))

ReadApprove(t, r, a) == ReadStage(t, r, "requested", "approved", a)

ReadDeploy(t, r, a) == ReadStage(t, r, "approved", "deployed", a)

\* Variant: without the proof.
ClaimUnproven(t, r, a) == ReadStage(t, r, "deployed", "claimed", a)

\* A claim needs proof of performance.
ReadClaim(t, r, a) ==
    /\ r \in Rows
    /\ request[r].proof
    /\ ReadStage(t, r, "deployed", "claimed", a)

ReadReimburse(t, r, a) == ReadStage(t, r, "claimed", "reimbursed", a)

\* Variant: the update does not repeat the check of the status.
AdvanceUnguarded(t) ==
    LET s == op[t].kind
        r == op[t].request
    IN  /\ s \in Stages \ {"requested"}
        /\ request' = [request EXCEPT ![r] = Reached(@, s, op[t].amount)]
        /\ op' = [op EXCEPT ![t] = Idle]

\* advance: UPDATE ... WHERE id AND status = from.
Advance(t) ==
    LET s == op[t].kind
        r == op[t].request
    IN  /\ s \in Stages \ {"requested"}
        /\ <<request[r].status, s>> \in Transitions
        /\ request' = [request EXCEPT ![r] = Reached(@, s, op[t].amount)]
        /\ op' = [op EXCEPT ![t] = Idle]

\* Variant: a status the table does not have.
Decline(rs) ==
    LET hit == {r \in rs \cap Rows : request[r].status = "requested"}
    IN  /\ hit # {}
        /\ request' = [r \in Requests |-> IF r \in hit
                          THEN [request[r] EXCEPT !.status = "declined"] ELSE request[r]]
        /\ UNCHANGED op

\* rejectRequestOp and bulkRejectMdfOp, guarded single statements; the rows of
\* a bulk that are not "requested" are skipped.
Reject(rs) ==
    LET hit == {r \in rs \cap Rows : request[r].status = "requested"}
    IN  /\ hit # {}
        /\ request' = [r \in Requests |-> IF r \in hit
                          THEN [request[r] EXCEPT !.status = "rejected"] ELSE request[r]]
        /\ UNCHANGED op

\* bulkApproveMdfOp: each row at its full ask, in one statement.
BulkApprove(rs) ==
    LET hit == {r \in rs \cap Rows : request[r].status = "requested"}
    IN  /\ hit # {}
        /\ request' = [r \in Requests |-> IF r \in hit
                          THEN Reached(request[r], "approved", request[r].amount["requested"])
                          ELSE request[r]]
        /\ UNCHANGED op

\* stageProofEvidenceOp: the evidence row is inserted unless there is one
\* (unique source_ref) and linked by the same transaction.
StageProof(r) ==
    /\ r \in Rows
    /\ ~request[r].proof
    /\ request' = [request EXCEPT ![r].proof = TRUE]
    /\ UNCHANGED op

\* The update finds no row in the expected status, or the transaction is lost.
Abort(t) ==
    /\ op[t].kind # "idle"
    /\ op' = [op EXCEPT ![t] = Idle]
    /\ UNCHANGED request

-----------------------------------------------------------------------------

Edit(t) ==
    \/ \E r \in Requests, a \in Amounts, ready \in BOOLEAN : ReadEdit(t, r, a, ready)
    \/ WriteEdit(t)

Transition(t) ==
    \/ \E r \in Requests : ReadSubmit(t, r)
    \/ \E r \in Requests, a \in Amounts :
          \/ ReadApprove(t, r, a) \/ ReadDeploy(t, r, a)
          \/ ReadClaim(t, r, a) \/ ReadReimburse(t, r, a)
    \/ WriteSubmit(t) \/ Advance(t)

Next ==
    \/ \E r \in Requests, a \in Amounts : Create(r, a)
    \/ \E t \in Editors : Edit(t) \/ Transition(t) \/ Abort(t)
    \/ \E rs \in SUBSET Requests : Reject(rs) \/ BulkApprove(rs)
    \/ \E r \in Requests : StageProof(r)

Spec == Init /\ [][Next]_vars

-----------------------------------------------------------------------------
(* Properties *)

\* "deployedAmount <= approvedAmount", "claimed <= deployed" and
\* "reimbursedAmount <= claimedAmount" (lines 208, 222, 239), whatever other
\* operations commit between the check of an amount and its update: no more
\* is reimbursed than was ever approved.
Waterfall ==
    \A r \in Rows :
        LET a == request[r].amount
        IN  /\ a["reimbursed"] <= a["claimed"]
            /\ a["claimed"] <= a["deployed"]
            /\ a["deployed"] <= a["approved"]

\* "Requires proof-of-performance evidence" (line 222): the proof was there
\* when it was checked and still is.
ClaimedHasProof ==
    \A r \in Rows : request[r].status \in {"claimed", "reimbursed"} => request[r].proof

\* "concurrent or replayed transitions can't corrupt the funding state
\* machine" (lines 11-16): a request moves along TRANSITIONS, one status at a
\* time, and the figure of a stage, once decided, stands.
FollowsLifecycle ==
    [][\A r \in Rows :
          /\ \/ request'[r].status = request[r].status
             \/ <<request[r].status, request'[r].status>> \in Transitions
          /\ \A s \in Stages \ {"requested"} :
                request[r].amount[s] > 0 => request'[r].amount[s] = request[r].amount[s]]_vars

\* "approvedAmount <= requestedAmount" (line 182).
ApprovedWithinAsk ==
    \A r \in Rows : request[r].amount["approved"] <= request[r].amount["requested"]
=============================================================================
