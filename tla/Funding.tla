------------------------------- MODULE Funding -------------------------------
(***************************************************************************)
(* Funding submissions (src/domain/funding/operations.ts and               *)
(* lifecycle.ts): a request for AWS funds is drafted, submitted, reviewed, *)
(* approved and funded, or rejected, or withdrawn on the way.              *)
(*                                                                         *)
(* An operation that loads the submission and updates it in a later        *)
(* statement is two actions; a guarded update alone is one.  Titles,       *)
(* programs, owners, dates and the linked opportunity are left out.        *)
(***************************************************************************)
EXTENDS Naturals

CONSTANTS
    Submissions,  \* ids of funding_submissions rows
    Editors,      \* operations in flight that read and then write
    MaxAmount,    \* bound: the largest amount
    None          \* no row

VARIABLES
    submission,  \* the funding_submissions table
    op,          \* what each operation in flight has read
    contended    \* history: submissions on which two operations overlapped

vars == <<submission, op, contended>>

-----------------------------------------------------------------------------

Statuses == {"draft", "submitted", "in_review", "approved", "rejected", "funded", "withdrawn"}

Decided == {"submitted", "in_review"} \X {"approved", "rejected"}

Withdrawn == {"draft", "submitted", "in_review", "approved"} \X {"withdrawn"}

Transitions == {<<"draft", "submitted">>, <<"submitted", "in_review">>, <<"approved", "funded">>}
               \cup Decided \cup Withdrawn

Amounts == 0..MaxAmount

Row == [status: Statuses, requested: Amounts, approved: Amounts]

\* What the constants satisfy.
ConstantsOK ==
    /\ MaxAmount \in Nat
    /\ None \notin Row

Idle == [kind |-> "idle"]

Op == {Idle} \cup [kind: {"edit", "submit", "approve"}, submission: Submissions, amount: Amounts]

TypeOK ==
    /\ submission \in [Submissions -> Row \cup {None}]
    /\ op \in [Editors -> Op]
    /\ contended \subseteq Submissions

Init ==
    /\ submission = [s \in Submissions |-> None]
    /\ op = [e \in Editors |-> Idle]
    /\ contended = {}

-----------------------------------------------------------------------------

Rows == {s \in Submissions : submission[s] # None}

Begin(e, kind, s, a) ==
    /\ op[e] = Idle
    /\ op' = [op EXCEPT ![e] = [kind |-> kind, submission |-> s, amount |-> a]]
    /\ contended' = IF \E d \in Editors : op[d] # Idle /\ op[d].submission = s
                    THEN contended \cup {s} ELSE contended
    /\ UNCHANGED submission

End(e) ==
    /\ op' = [op EXCEPT ![e] = Idle]
    /\ UNCHANGED contended

\* createSubmissionOp
Create(s, a) ==
    /\ s \notin Rows
    /\ submission' = [submission EXCEPT ![s] =
          [status |-> "draft", requested |-> a, approved |-> 0]]
    /\ UNCHANGED <<op, contended>>

\* updateSubmissionOp: only a draft, and then by id alone.
ReadEdit(e, s, a) ==
    /\ s \in Rows
    /\ submission[s].status = "draft"
    /\ Begin(e, "edit", s, a)

WriteEdit(e) ==
    /\ op[e].kind = "edit"
    /\ submission' = [submission EXCEPT ![op[e].submission].requested = op[e].amount]
    /\ End(e)

\* submitSubmissionOp
ReadSubmit(e, s) ==
    /\ s \in Rows
    /\ submission[s].requested > 0
    /\ Begin(e, "submit", s, 0)

\* approveSubmissionOp: at most what is asked; an ask of 0 bounds nothing.
ReadApprove(e, s, a) ==
    /\ s \in Rows
    /\ submission[s].requested > 0 => a <= submission[s].requested
    /\ Begin(e, "approve", s, a)

\* Variant: the status that is overwritten does not matter.
ApproveUnguarded(e) ==
    LET s == op[e].submission
    IN  /\ op[e].kind = "approve"
        /\ submission' = [submission EXCEPT ![s].status = "approved", ![s].approved = op[e].amount]
        /\ End(e)

\* advance: UPDATE ... WHERE status IN (...)
WriteSubmit(e) ==
    LET s == op[e].submission
    IN  /\ op[e].kind = "submit"
        /\ submission[s].status = "draft"
        /\ submission' = [submission EXCEPT ![s].status = "submitted"]
        /\ End(e)

WriteApprove(e) ==
    LET s == op[e].submission
    IN  /\ op[e].kind = "approve"
        /\ <<submission[s].status, "approved">> \in Decided
        /\ submission' = [submission EXCEPT ![s].status = "approved", ![s].approved = op[e].amount]
        /\ End(e)

\* startReviewOp, rejectSubmissionOp, markFundedOp, withdrawSubmissionOp
Move(s, to) ==
    /\ s \in Rows
    /\ to \in {"in_review", "rejected", "funded", "withdrawn"}
    /\ <<submission[s].status, to>> \in Transitions
    /\ submission' = [submission EXCEPT ![s].status = to]
    /\ UNCHANGED <<op, contended>>

\* The guard of an update fails, or the transaction is lost.
Fail(e) ==
    /\ op[e] # Idle
    /\ End(e)
    /\ UNCHANGED submission

-----------------------------------------------------------------------------

Next ==
    \/ \E s \in Submissions :
          \/ \E a \in Amounts : Create(s, a)
          \/ \E to \in Statuses : Move(s, to)
    \/ \E e \in Editors :
          \/ \E s \in Submissions :
                \/ \E a \in Amounts : ReadEdit(e, s, a) \/ ReadApprove(e, s, a)
                \/ ReadSubmit(e, s)
          \/ WriteEdit(e)
          \/ WriteSubmit(e)
          \/ WriteApprove(e)
          \/ Fail(e)

Spec == Init /\ [][Next]_vars

-----------------------------------------------------------------------------
(* Properties *)

StatusOf(s) == IF s \in Rows THEN submission[s].status ELSE "absent"

L == INSTANCE Lifecycle WITH
        Ids <- Submissions, First <- "draft", Absent <- "absent", Edges <- Transitions,
        status <- [s \in Submissions |-> StatusOf(s)]

\* Approvals, withdrawals and reviews may overlap: a submission moves along
\* TRANSITIONS, and money that was rejected, withdrawn or funded is final.
FundingFollowsLifecycle == L!Spec

\* "Approved amount cannot exceed the requested amount" (line 162): it does not
\* unless an edit, a submission and an approval of it overlap; the updates by
\* id in edits of a draft that other operations follow in turn do no harm.
ApprovedWithinAskAlone ==
    \A s \in Rows \ contended : submission[s].approved <= submission[s].requested
=============================================================================
