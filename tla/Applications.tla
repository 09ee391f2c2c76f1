---------------------------- MODULE Applications ----------------------------
(***************************************************************************)
(* AWS Competency applications (src/domain/applications/operations.ts): a  *)
(* workbook is uploaded, the answers to its controls are drafted by a      *)
(* model (generate-actions.ts), edited and accepted one by one or many at  *)
(* once, and the filled workbook is exported.  The application counts its  *)
(* accepted controls, and is ready when all of them are.                   *)
(*                                                                         *)
(* An edit's transaction updates the controls, counts them, reads the      *)
(* application and updates it by id: up to the count and the reading is    *)
(* one action here, the rest with the commit another.  An edit of a        *)
(* control that another one has updated waits for its commit.              *)
(*                                                                         *)
(* One application: no operation touches two.  The workbook's file, the    *)
(* answers' text, contacts and AWS's status for it are left out.  Nothing  *)
(* in the code sets the status "generating".                               *)
(***************************************************************************)
EXTENDS Naturals, FiniteSets

CONSTANTS
    Controls,  \* ids of application_controls rows
    Editors,   \* edits in flight
    None       \* no row

VARIABLES
    application,  \* the competency_applications row
    control,      \* the application_controls table: each one's status
    op,           \* what each edit in flight has updated and read
    contended,    \* history: two operations have overlapped
    redrafted     \* history: accepted controls drafted again since the last count

vars == <<application, control, op, contended, redrafted>>

-----------------------------------------------------------------------------

\* "open" stands for "generated" and "edited", too: none of them is accepted.
ControlStatus == {"open", "accepted"}

\* stamped: exported_at is set.
Row == [status: {"draft", "ready", "exported"}, count: Nat, accepted: Nat, stamped: BOOLEAN]

\* What the constants satisfy.
ConstantsOK ==
    /\ IsFiniteSet(Controls)
    /\ None \notin Row
    /\ None \notin ControlStatus

Idle == [kind |-> "idle"]

\* table: the controls as the edit sees them; seen: the application's status.
Op == {Idle} \cup [kind: {"edit"}, controls: SUBSET Controls,
                   table: [Controls -> ControlStatus \cup {None}],
                   seen: {"draft", "ready", "exported"}]

TypeOK ==
    /\ application \in Row \cup {None}
    /\ control \in [Controls -> ControlStatus \cup {None}]
    /\ \A e \in Editors : op[e] \in Op
    /\ contended \in BOOLEAN
    /\ redrafted \subseteq Controls

Init ==
    /\ application = None
    /\ control = [c \in Controls |-> None]
    /\ op = [e \in Editors |-> Idle]
    /\ contended = FALSE
    /\ redrafted = {}

-----------------------------------------------------------------------------

Rows == {c \in Controls : control[c] # None}

Accepted(table) == {c \in Controls : table[c] = "accepted"}

InFlight == {e \in Editors : op[e] # Idle}

\* createApplicationFromUploadOp: the controls without the workbook's
\* repetitions, and their number.
Upload(S) ==
    /\ application = None
    /\ application' = [status |-> "draft", count |-> Cardinality(S), accepted |-> 0,
                       stamped |-> FALSE]
    /\ control' = [c \in Controls |-> IF c \in S THEN "open" ELSE None]
    /\ UNCHANGED <<op, contended, redrafted>>

\* updateControlOp and bulkUpdateControlsOp: the status s, or "same" for an
\* edit of the text alone.
Edited(S, s) ==
    [c \in Controls |-> IF c \in S /\ s # "same" THEN s ELSE control[c]]

UpdateAndRead(e, S, s) ==
    /\ op[e] = Idle
    /\ S # {} /\ S \subseteq Rows
    /\ \A d \in InFlight : op[d].controls \cap S = {}
    /\ op' = [op EXCEPT ![e] = [kind |-> "edit", controls |-> S, table |-> Edited(S, s),
                                seen |-> application.status]]
    /\ contended' = (contended \/ InFlight # {})
    /\ UNCHANGED <<application, control, redrafted>>

\* generateControlResponseAction: the answer is written to the control by id,
\* whatever its status, in a transaction of its own that counts nothing.
Draft(c) ==
    /\ c \in Rows
    /\ \A d \in InFlight : c \notin op[d].controls
    /\ control' = [control EXCEPT ![c] = "open"]
    /\ redrafted' = redrafted \cup ({c} \cap Accepted(control))
    /\ contended' = (contended \/ InFlight # {})
    /\ UNCHANGED <<application, op>>

\* recomputeAccepted's "draft<->ready": the status of one that is not exported.
StatusFor(seen, accepted, count) ==
    CASE seen = "exported" -> application.status
      [] seen # "exported" /\ accepted >= count /\ count > 0 -> "ready"
      [] OTHER -> "draft"

\* The end of recomputeAccepted, and the commit
WriteAndCommit(e) ==
    LET o == op[e]
        accepted == Cardinality(Accepted(o.table))
    IN  /\ o # Idle
        /\ control' = [c \in Controls |-> IF c \in o.controls THEN o.table[c] ELSE control[c]]
        /\ application' = [application EXCEPT
              !.accepted = accepted,
              !.status = StatusFor(o.seen, accepted, application.count)]
        /\ op' = [op EXCEPT ![e] = Idle]
        /\ redrafted' = {}
        /\ UNCHANGED contended

\* markExportedOp: whatever the status
MarkExported ==
    /\ application # None
    /\ application' = [application EXCEPT !.status = "exported", !.stamped = TRUE]
    /\ contended' = (contended \/ InFlight # {})
    /\ UNCHANGED <<control, op, redrafted>>

Fail(e) ==
    /\ op[e] # Idle
    /\ op' = [op EXCEPT ![e] = Idle]
    /\ UNCHANGED <<application, control, contended, redrafted>>

Next ==
    \/ \E S \in SUBSET Controls :
          \/ Upload(S)
          \/ \E e \in Editors, s \in ControlStatus \cup {"same"} : UpdateAndRead(e, S, s)
    \/ \E c \in Controls : Draft(c)
    \/ MarkExported
    \/ \E e \in Editors : WriteAndCommit(e) \/ Fail(e)

Spec == Init /\ [][Next]_vars

-----------------------------------------------------------------------------
(* Properties *)

\* "Roll the count of accepted controls onto the parent" (line 150): the count
\* and "ready" are of the controls that are accepted or were when a draft
\* replaced their answer, after any edits, drafts and exports that do not
\* overlap: a draft counts nothing, so the two are out of date until the next
\* edit.  Edits that overlap each miss what the other has not committed.
RollupAlone ==
    application # None /\ ~contended =>
        LET n == Cardinality(Accepted(control) \cup redrafted)
        IN  /\ application.accepted = n
            /\ application.status = "ready" => n = application.count
            /\ application.status = "draft" => n < application.count \/ application.count = 0

\* An exported application stays so through later edits, unless one of them
\* has read its status before the export and writes after it.
ExportStaysAlone ==
    application # None /\ ~contended /\ application.stamped => application.status = "exported"
=============================================================================
