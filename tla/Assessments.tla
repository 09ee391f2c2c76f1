----------------------------- MODULE Assessments -----------------------------
(***************************************************************************)
(* Readiness assessments (src/domain/assessments/operations.ts): a draft's *)
(* answers are saved, its submission scores them and generates             *)
(* recommendations, and each of these is reviewed, by itself or all at     *)
(* once; an approved one becomes a task.                                   *)
(*                                                                         *)
(* An operation that reads the assessment and writes in a later statement  *)
(* is two actions.  What is answered is a value for the whole form, and    *)
(* the score and the recommendations are named by the answers they were    *)
(* computed from.  Modules, titles and confidence are left out, and so is  *)
(* the evidence record that some approvals add to the task.                *)
(***************************************************************************)
EXTENDS FiniteSets

CONSTANTS
    Assessments,      \* ids of assessments rows
    Recommendations,  \* ids of assessment_recommendations rows
    Answers,          \* the answers to a form
    Editors,          \* operations in flight that read and then write
    None              \* no row, nothing answered, not scored

VARIABLES
    assessment,      \* the assessments table, with the responses
    recommendation,  \* the assessment_recommendations table
    tasked,          \* recommendations with a tasks row (source_ref)
    op,              \* what each operation in flight has read
    contended        \* history: assessments on which two operations overlapped

vars == <<assessment, recommendation, tasked, op, contended>>

-----------------------------------------------------------------------------

Reply == Answers \cup {None}

\* score: the answers that were scored.
Row == [status: {"draft", "scored"}, answers: Reply, score: Reply]

\* from: the answers it was generated from.
Rec == [assessment: Assessments, from: Reply, status: {"pending", "approved", "rejected"}]

\* What the constants satisfy.
ConstantsOK ==
    /\ None \notin Answers \cup Row \cup Rec

Idle == [kind |-> "idle"]

Op == {Idle}
      \cup [kind: {"save", "submit"}, assessment: Assessments, answers: Reply]
      \cup [kind: {"approveAll"}, assessment: Assessments, pending: SUBSET Recommendations]

TypeOK ==
    /\ assessment \in [Assessments -> Row \cup {None}]
    /\ recommendation \in [Recommendations -> Rec \cup {None}]
    /\ tasked \subseteq Recommendations
    /\ op \in [Editors -> Op]
    /\ contended \subseteq Assessments

Init ==
    /\ assessment = [a \in Assessments |-> None]
    /\ recommendation = [r \in Recommendations |-> None]
    /\ tasked = {}
    /\ op = [e \in Editors |-> Idle]
    /\ contended = {}

-----------------------------------------------------------------------------

Rows == {a \in Assessments : assessment[a] # None}

Recs == {r \in Recommendations : recommendation[r] # None}

PendingOf(a) ==
    {r \in Recs : recommendation[r].assessment = a /\ recommendation[r].status = "pending"}

Drafts == {a \in Rows : assessment[a].status = "draft"}

Busy(e, a) == op[e] # Idle /\ op[e].assessment = a

Begin(e, what) ==
    /\ op[e] = Idle
    /\ op' = [op EXCEPT ![e] = what]
    /\ contended' = IF \E d \in Editors : Busy(d, what.assessment)
                    THEN contended \cup {what.assessment} ELSE contended
    /\ UNCHANGED <<assessment, recommendation, tasked>>

End(e) ==
    /\ op' = [op EXCEPT ![e] = Idle]
    /\ UNCHANGED contended

\* createAssessmentOp
Create(a) ==
    /\ a \notin Rows
    /\ \A e \in Editors : ~Busy(e, a)
    /\ assessment' = [assessment EXCEPT ![a] =
          [status |-> "draft", answers |-> None, score |-> None]]
    /\ UNCHANGED <<recommendation, tasked, op, contended>>

\* bulkDeleteAssessmentsOp: the drafts among the selected.
BulkDelete(S) ==
    /\ S \cap Drafts # {}
    /\ assessment' = [a \in Assessments |-> IF a \in S \cap Drafts THEN None ELSE assessment[a]]
    /\ UNCHANGED <<recommendation, tasked, op, contended>>

\* saveResponsesOp: the answers of a draft, and then by the assessment's id.
ReadSave(e, a, answers) ==
    /\ a \in Drafts
    /\ Begin(e, [kind |-> "save", assessment |-> a, answers |-> answers])

WriteSave(e) ==
    LET a == op[e].assessment
    IN  /\ op[e].kind = "save"
        /\ a \in Rows
        /\ assessment' = [assessment EXCEPT ![a].answers = op[e].answers]
        /\ End(e)
        /\ UNCHANGED <<recommendation, tasked>>

\* submitAssessmentOp: what is answered now is scored.
ReadSubmit(e, a) ==
    /\ a \in Rows
    /\ Begin(e, [kind |-> "submit", assessment |-> a, answers |-> assessment[a].answers])

\* The score and the recommendations S that the answers call for
Scored(a, answers, S) ==
    /\ S \subseteq Recommendations \ (Recs \cup tasked)
    /\ assessment' = [assessment EXCEPT ![a].status = "scored", ![a].score = answers]
    /\ recommendation' = [r \in Recommendations |->
          IF r \in S THEN [assessment |-> a, from |-> answers, status |-> "pending"]
          ELSE recommendation[r]]

\* The flip takes a draft alone.
WriteSubmit(e, S) ==
    /\ op[e].kind = "submit"
    /\ op[e].assessment \in Drafts
    /\ Scored(op[e].assessment, op[e].answers, S)
    /\ End(e)
    /\ UNCHANGED tasked

-----------------------------------------------------------------------------

\* reviewRecommendationOp, for each of S: only a pending one.
Decide(S, decision) ==
    /\ \A r \in S : r \in Recs /\ recommendation[r].status = "pending"
    /\ recommendation' = [r \in Recommendations |->
          IF r \in S THEN [recommendation[r] EXCEPT !.status = decision] ELSE recommendation[r]]
    /\ tasked' = IF decision = "approved" THEN tasked \cup S ELSE tasked
    /\ UNCHANGED assessment

Review(r, decision) ==
    /\ Decide({r}, decision)
    /\ UNCHANGED <<op, contended>>

\* approveAllRecommendationsOp: the pending ones of now; if one of them has
\* been reviewed by the time, all of it fails.
ReadPending(e, a) ==
    /\ a \in Rows
    /\ Begin(e, [kind |-> "approveAll", assessment |-> a, pending |-> PendingOf(a)])

ApproveAll(e) ==
    /\ op[e].kind = "approveAll"
    /\ Decide(op[e].pending, "approved")
    /\ End(e)

\* An operation is refused, or loses its connection.
Fail(e) ==
    /\ op[e] # Idle
    /\ End(e)
    /\ UNCHANGED <<assessment, recommendation, tasked>>

-----------------------------------------------------------------------------

Next ==
    \/ \E a \in Assessments : Create(a)
    \/ \E S \in SUBSET Assessments : BulkDelete(S)
    \/ \E r \in Recommendations, decision \in {"approved", "rejected"} : Review(r, decision)
    \/ \E e \in Editors :
          \/ \E a \in Assessments :
                \/ \E answers \in Answers : ReadSave(e, a, answers)
                \/ ReadSubmit(e, a)
                \/ ReadPending(e, a)
          \/ WriteSave(e)
          \/ \E S \in SUBSET Recommendations : WriteSubmit(e, S)
          \/ ApproveAll(e)
          \/ Fail(e)

Spec == Init /\ [][Next]_vars

-----------------------------------------------------------------------------
(* Properties *)

\* Two submissions of an assessment do not "duplicate modules/recommendations"
\* (lines 165-167): all it has come from the answers behind its score.
OneScoring ==
    \A r \in Recs :
        LET a == recommendation[r].assessment
        IN  a \in Rows /\ assessment[a].status = "scored"
            /\ recommendation[r].from = assessment[a].score

\* A recommendation has its task if and only if it is approved, while reviews
\* one by one and of all at once overlap.
TaskedIffApproved ==
    \A r \in Recs : r \in tasked <=> recommendation[r].status = "approved"

\* The score is that of the answers on file, unless a save overlaps the
\* submission: it has seen a draft and writes after the scoring.
ScoreIsOfAnswersAlone ==
    \A a \in Rows \ contended :
        assessment[a].status = "scored" => assessment[a].score = assessment[a].answers
=============================================================================
