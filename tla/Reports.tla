------------------------------- MODULE Reports -------------------------------
(***************************************************************************)
(* Reports (src/domain/reports/operations.ts and narrative-actions.ts): a  *)
(* snapshot of the workspace's figures is drafted, reviewed, approved and  *)
(* exported; a narrative is written about it, by a language model that     *)
(* takes its time.                                                         *)
(*                                                                         *)
(* The regeneration, the approval and the narrative each read the report   *)
(* and write it later: two actions.  Snapshots are numbered; what is in    *)
(* one is left out, save whether it has any section data.                  *)
(***************************************************************************)
EXTENDS Naturals

CONSTANTS
    Reports,       \* ids of reports rows
    Editors,       \* operations in flight that read and then write
    MaxSnapshots,  \* bound: how many snapshots a report has in its life
    None           \* no row

VARIABLES
    report,    \* the reports table
    op,        \* what each operation in flight has read
    contended  \* history: reports on which two operations overlapped

vars == <<report, op, contended>>

-----------------------------------------------------------------------------

Statuses == {"draft", "reviewed", "approved", "exported"}

Transitions == {<<"draft", "reviewed">>, <<"reviewed", "approved">>, <<"approved", "exported">>}

Snapshots == 0..MaxSnapshots

\* narrative: the snapshot whose story it tells; 0: no narrative.
Row == [status: Statuses, snapshot: Snapshots, ready: BOOLEAN, narrative: Snapshots]

\* What the constants satisfy.
ConstantsOK ==
    /\ MaxSnapshots \in Nat
    /\ None \notin Row

Idle == [kind |-> "idle"]

Op == {Idle} \cup [kind: {"regenerate", "approve", "narrate"}, report: Reports, snapshot: Snapshots]

TypeOK ==
    /\ report \in [Reports -> Row \cup {None}]
    /\ op \in [Editors -> Op]
    /\ contended \subseteq Reports

Init ==
    /\ report = [r \in Reports |-> None]
    /\ op = [e \in Editors |-> Idle]
    /\ contended = {}

-----------------------------------------------------------------------------

Rows == {r \in Reports : report[r] # None}

Begin(e, kind, r) ==
    /\ op[e] = Idle
    /\ op' = [op EXCEPT ![e] = [kind |-> kind, report |-> r, snapshot |-> report[r].snapshot]]
    /\ contended' = IF \E d \in Editors : op[d] # Idle /\ op[d].report = r
                    THEN contended \cup {r} ELSE contended
    /\ UNCHANGED report

End(e) ==
    /\ op' = [op EXCEPT ![e] = Idle]
    /\ UNCHANGED contended

\* generateReportOp
Generate(r, ready) ==
    /\ r \notin Rows
    /\ 1 \in Snapshots
    /\ report' = [report EXCEPT ![r] =
          [status |-> "draft", snapshot |-> 1, ready |-> ready, narrative |-> 0]]
    /\ UNCHANGED <<op, contended>>

\* regenerateReportOp: only a draft, and then by id alone.
ReadDraft(e, kind, r) ==
    /\ kind \in {"regenerate", "narrate"}
    /\ r \in Rows
    /\ report[r].status = "draft"
    /\ Begin(e, kind, r)

\* Variant: the narrative stays.
RegenerateOnly(e, ready) ==
    LET r == op[e].report
    IN  /\ op[e].kind = "regenerate"
        /\ report[r].snapshot < MaxSnapshots
        /\ report' = [report EXCEPT ![r].snapshot = @ + 1, ![r].ready = ready]
        /\ End(e)

WriteRegenerate(e, ready) ==
    LET r == op[e].report
    IN  /\ op[e].kind = "regenerate"
        /\ report[r].snapshot < MaxSnapshots
        /\ report' = [report EXCEPT ![r].snapshot = @ + 1, ![r].ready = ready,
                                    ![r].narrative = 0]
        /\ End(e)

\* generateReportNarrative: a narrative of the snapshot that was read;
\* saveNarrativeOp saves it on a draft.
WriteNarrative(e) ==
    LET r == op[e].report
    IN  /\ op[e].kind = "narrate"
        /\ report[r].status = "draft"
        /\ report' = [report EXCEPT ![r].narrative = op[e].snapshot]
        /\ End(e)

\* submitForReviewOp, markExportedOp: guarded single statements.
Move(r, to) ==
    /\ r \in Rows
    /\ to \in {"reviewed", "exported"}
    /\ <<report[r].status, to>> \in Transitions
    /\ report' = [report EXCEPT ![r].status = to]
    /\ UNCHANGED <<op, contended>>

\* approveReportOp: the snapshot that is read passes the preflight.
ReadApprove(e, r) ==
    /\ r \in Rows
    /\ report[r].status = "reviewed"
    /\ report[r].ready
    /\ Begin(e, "approve", r)

WriteApprove(e) ==
    /\ op[e].kind = "approve"
    /\ report[op[e].report].status = "reviewed"
    /\ report' = [report EXCEPT ![op[e].report].status = "approved"]
    /\ End(e)

\* The guard of an update fails, or a transaction or the model's answer is
\* lost; without an answer the outline of the same snapshot is saved.
Fail(e) ==
    /\ op[e] # Idle
    /\ End(e)
    /\ UNCHANGED report

-----------------------------------------------------------------------------

Next ==
    \/ \E r \in Reports :
          \/ \E ready \in BOOLEAN : Generate(r, ready)
          \/ \E to \in Statuses : Move(r, to)
    \/ \E e \in Editors :
          \/ \E r \in Reports :
                \/ \E kind \in {"regenerate", "narrate"} : ReadDraft(e, kind, r)
                \/ ReadApprove(e, r)
          \/ \E ready \in BOOLEAN : WriteRegenerate(e, ready)
          \/ WriteNarrative(e)
          \/ WriteApprove(e)
          \/ Fail(e)

Spec == Init /\ [][Next]_vars

-----------------------------------------------------------------------------
(* Properties *)

StatusOf(r) == IF r \in Rows THEN report[r].status ELSE "absent"

L == INSTANCE Lifecycle WITH
        Ids <- Reports, First <- "draft", Absent <- "absent", Edges <- Transitions,
        status <- [r \in Reports |-> StatusOf(r)]

\* Reviews, approvals and exports may overlap each other and the slow
\* narrative: a report moves draft, reviewed, approved, exported.
ReportsFollowLifecycle == L!Spec

\* "It told the OLD snapshot's story" (line 150): a narrative tells the story
\* of the snapshot beside it, and a report that was approved has section data,
\* unless operations on the report overlap: then a narrative that is written
\* while the report is regenerated is saved, and an approved report may get
\* another snapshot.
SoundAlone ==
    \A r \in Rows \ contended :
        /\ report[r].narrative \in {0, report[r].snapshot}
        /\ report[r].status \in {"approved", "exported"} => report[r].ready
=============================================================================
