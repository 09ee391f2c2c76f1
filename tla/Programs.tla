------------------------------ MODULE Programs ------------------------------
(***************************************************************************)
(* The program portfolio (src/domain/programs/operations.ts): a program of *)
(* the library is adopted with its requirements, each of which is worked,  *)
(* linked to evidence and met; when all are met with approved evidence the *)
(* program can be submitted.                                               *)
(*                                                                         *)
(* A program has one row per workspace, so its library key names it.  The  *)
(* submission reads and then updates: two actions; what else happens is    *)
(* one statement or a row of its own.  All evidence is of the type that    *)
(* every requirement expects; owners, dates, notes and tasks are left out. *)
(***************************************************************************)
EXTENDS Functions, FiniteSets

CONSTANTS
    Programs,   \* library keys
    Keys,       \* requirement keys
    Documents,  \* ids of evidence rows
    Editors,    \* submissions in flight
    None        \* no row, no evidence, no submission

VARIABLES
    program,      \* the programs table
    requirement,  \* the program_requirements table, by program and key
    evidence,     \* the status of each evidence row
    staged,       \* requirements with an evidence row of their own (source_ref)
    op,           \* the program that each submission in flight has read
    overtaken     \* history: programs that lost readiness under a submission

vars == <<program, requirement, evidence, staged, op, overtaken>>

-----------------------------------------------------------------------------

\* stamped: achieved_at is set.
Row == [status: {"pending", "submitted", "active", "expired"}, stamped: BOOLEAN]

Requirement == [status: {"open", "met", "blocked"}, evidence: Documents \cup {None}]

\* What the constants satisfy.
ConstantsOK ==
    /\ Keys # {}
    /\ None \notin Documents \cup Programs
    /\ None \notin Row

TypeOK ==
    /\ program \in [Programs -> Row \cup {None}]
    /\ requirement \in [Programs \X Keys -> Requirement]
    /\ evidence \in [Documents -> {"absent", "unapproved", "approved"}]
    /\ staged \subseteq Programs \X Keys
    /\ op \in [Editors -> Programs \cup {None}]
    /\ overtaken \subseteq Programs

New == [status |-> "open", evidence |-> None]

Init ==
    /\ program = [p \in Programs |-> None]
    /\ requirement = [q \in Programs \X Keys |-> New]
    /\ evidence = [d \in Documents |-> "absent"]
    /\ staged = {}
    /\ op = [e \in Editors |-> None]
    /\ overtaken = {}

-----------------------------------------------------------------------------

Rows == {p \in Programs : program[p] # None}

Requirements == Rows \X Keys

\* computeReadinessGate is "ready_for_roadmap".
Ready(p) ==
    \A k \in Keys :
        LET q == requirement[<<p, k>>]
        IN  q.status = "met" /\ q.evidence # None /\ evidence[q.evidence] = "approved"

\* Submissions that this step overtakes.
Note == overtaken' = overtaken \cup {p \in Programs : (\E e \in Editors : op[e] = p) /\ ~Ready(p)'}

\* adoptProgramOp, alone or (pursueProgram) with the approved evidence linked
\* to as many of its requirements, each document once.
Adopt(p, pursue) ==
    LET approved == {d \in Documents : evidence[d] = "approved"}
    IN  /\ p \notin Rows
        /\ program' = [program EXCEPT ![p] = [status |-> "pending", stamped |-> FALSE]]
        /\ \E K \in SUBSET Keys : \E link \in Injection(K, approved) :
              /\ pursue => K = Keys \/ Cardinality(K) = Cardinality(approved)
              /\ ~pursue => K = {}
              /\ requirement' = [q \in Programs \X Keys |->
                    IF q[1] = p
                    THEN [New EXCEPT !.evidence = IF q[2] \in K THEN link[q[2]] ELSE None]
                    ELSE requirement[q]]
        /\ UNCHANGED <<evidence, staged, op, overtaken>>

WithStatus(row, s) == [row EXCEPT !.status = s, !.stamped = @ \/ s = "active"]

\* updateProgramOp and bulkUpdateProgramOp: any status but "submitted", from any
Update(S, s) ==
    /\ S # {} /\ S \subseteq Rows
    /\ program' = [p \in Programs |-> IF p \in S THEN WithStatus(program[p], s) ELSE program[p]]
    /\ UNCHANGED <<requirement, evidence, staged, op, overtaken>>

\* updateRequirementOp
UpdateRequirement(q, s) ==
    /\ q \in Requirements
    /\ requirement' = [requirement EXCEPT ![q].status = s]
    /\ UNCHANGED <<program, evidence, staged, op>>
    /\ Note

\* stageEvidenceForRequirementOp: a document of its own, once.
Stage(q, d) ==
    /\ q \in Requirements
    /\ q \notin staged
    /\ evidence[d] = "absent"
    /\ evidence' = [evidence EXCEPT ![d] = "unapproved"]
    /\ requirement' = [requirement EXCEPT ![q].evidence = d]
    /\ staged' = staged \cup {q}
    /\ UNCHANGED <<program, op>>
    /\ Note

\* linkRequirementEvidenceOp
Link(q, d) ==
    /\ q \in Requirements
    /\ d # None => evidence[d] # "absent"
    /\ requirement' = [requirement EXCEPT ![q].evidence = d]
    /\ UNCHANGED <<program, evidence, staged, op>>
    /\ Note

\* Evidence is created, reviewed and replaced (Evidence).
ChangeEvidence(d, s) ==
    /\ evidence' = [evidence EXCEPT ![d] = s]
    /\ UNCHANGED <<program, requirement, staged, op>>
    /\ Note

-----------------------------------------------------------------------------
(* submitProgramOp *)

\* Variant: the evidence need not be approved.
ReadMet(e, p) ==
    /\ op[e] = None
    /\ p \in Rows /\ program[p].status = "pending"
    /\ \A k \in Keys : requirement[<<p, k>>].status = "met"
    /\ op' = [op EXCEPT ![e] = p]
    /\ UNCHANGED <<program, requirement, evidence, staged, overtaken>>

ReadReady(e, p) ==
    /\ op[e] = None
    /\ p \in Rows /\ program[p].status = "pending"
    /\ Ready(p)
    /\ op' = [op EXCEPT ![e] = p]
    /\ UNCHANGED <<program, requirement, evidence, staged, overtaken>>

\* A program that is not pending any more is left alone, and the answer is
\* "submitted" all the same.
WriteSubmit(e) ==
    LET p == op[e]
    IN  /\ p # None
        /\ program' = IF program[p].status = "pending"
                      THEN [program EXCEPT ![p].status = "submitted"] ELSE program
        /\ op' = [op EXCEPT ![e] = None]
        /\ UNCHANGED <<requirement, evidence, staged, overtaken>>

Fail(e) ==
    /\ op[e] # None
    /\ op' = [op EXCEPT ![e] = None]
    /\ UNCHANGED <<program, requirement, evidence, staged, overtaken>>

-----------------------------------------------------------------------------

Next ==
    \/ \E p \in Programs, pursue \in BOOLEAN : Adopt(p, pursue)
    \/ \E S \in SUBSET Programs, s \in {"pending", "active", "expired"} : Update(S, s)
    \/ \E q \in Programs \X Keys :
          \/ \E s \in {"open", "met", "blocked"} : UpdateRequirement(q, s)
          \/ \E d \in Documents : Stage(q, d)
          \/ \E d \in Documents \cup {None} : Link(q, d)
    \/ \E d \in Documents, s \in {"unapproved", "approved"} : ChangeEvidence(d, s)
    \/ \E e \in Editors :
          \/ \E p \in Programs : ReadReady(e, p)
          \/ WriteSubmit(e)
          \/ Fail(e)

Spec == Init /\ [][Next]_vars

-----------------------------------------------------------------------------
(* Properties *)

\* "Every requirement must be met with approved evidence" (line 417): a program
\* is submitted only in readiness, unless a requirement or a document changes
\* between the check and the update, which looks at the status alone.
SubmittedReadyAlone ==
    [][\A p \in Rows \ overtaken :
          program[p].status # "submitted" /\ program'[p].status = "submitted" => Ready(p)]_vars

\* A program that is active was stamped with a day, on which its return is
\* reckoned, whichever way it became active.
ActiveIsStamped ==
    \A p \in Rows : program[p].status = "active" => program[p].stamped
=============================================================================
