----------------------------- MODULE TaskMirror -----------------------------
(***************************************************************************)
(* A roadmap milestone and the task that the finalization spawned for it   *)
(* mirror each other's status: the operations on tasks                     *)
(* (src/domain/tasks/operations.ts) write the task and then its milestone, *)
(* the operations on milestones (src/domain/roadmaps/operations.ts) write  *)
(* the milestone and then its task.                                        *)
(*                                                                         *)
(* Each runs in one transaction.  A row that it has written stays locked   *)
(* until the commit, and a statement that reaches a locked row waits; two  *)
(* transactions that wait for each other are found out by PostgreSQL,      *)
(* which aborts one.  A transaction here runs once.                        *)
(*                                                                         *)
(* Titles, owners and priorities are left out, and so are tasks without a  *)
(* milestone and milestones without a task, where nothing is mirrored.     *)
(***************************************************************************)
EXTENDS Naturals, FiniteSets, Sequences, SequencesExt

CONSTANTS
    Links,   \* a milestone and its task (roadmap_milestones.task_id)
    Txns     \* transactions

VARIABLES
    milestone,  \* roadmap_milestones.status, committed
    task,       \* tasks.status, committed
    txn         \* the transactions: what is written and what is to be

vars == <<milestone, task, txn>>

-----------------------------------------------------------------------------

MilestoneStatus == {"planned", "in_progress", "blocked", "done"}

TaskStatus == {"open", "in_progress", "blocked", "done"}

\* What updateTaskOp may set.
OpenStatus == {"open", "in_progress", "blocked"}

TaskStatusToMilestone(s) == IF s = "open" THEN "planned" ELSE s

MilestoneStatusToTask(s) == IF s = "planned" THEN "open" ELSE s

Row == [table: {"milestone", "task"}, link: Links]

M(l) == [table |-> "milestone", link |-> l]
T(l) == [table |-> "task", link |-> l]

\* to: the status it sets, as a milestone's and as a task's; todo: the rows
\* its statements have still to write, in the order they reach them; held:
\* the rows it has written and not committed.
Txn == [state: {"new", "running", "committed", "aborted"},
        kind: {"none", "set", "update", "bulk", "complete", "reconcile"},
        milestone: MilestoneStatus, task: TaskStatus,
        todo: Seq(Row), held: SUBSET Row]

TypeOK ==
    /\ milestone \in [Links -> MilestoneStatus]
    /\ task \in [Links -> TaskStatus]
    /\ txn \in [Txns -> Txn]

\* A finalized roadmap: a spawned task is open whatever its milestone's status.
Init ==
    /\ milestone \in [Links -> MilestoneStatus]
    /\ task = [l \in Links |-> "open"]
    /\ txn = [x \in Txns |-> [state |-> "new", kind |-> "none", milestone |-> "planned",
                              task |-> "open", todo |-> <<>>, held |-> {}]]

-----------------------------------------------------------------------------
(* What the operations write, and in what order *)

Begin(x, kind, m, t, todo) ==
    /\ txn[x].state = "new"
    /\ txn' = [txn EXCEPT ![x] = [state |-> "running", kind |-> kind, milestone |-> m,
                                  task |-> t, todo |-> todo, held |-> {}]]
    /\ UNCHANGED <<milestone, task>>

\* The rows of one statement, in an order of the database's choosing.
Orders(S) == SetToSeqs(S)

\* setMilestoneStatusOp
SetMilestone(x, l, s) ==
    Begin(x, "set", s, MilestoneStatusToTask(s), <<M(l), T(l)>>)

\* Variant: the task alone.
UpdateTaskAlone(x, l, s) == Begin(x, "update", TaskStatusToMilestone(s), s, <<T(l)>>)

\* updateTaskOp with a status
UpdateTask(x, l, s) ==
    Begin(x, "update", TaskStatusToMilestone(s), s, <<T(l), M(l)>>)

\* completeTaskOp
CompleteTask(x, l) == Begin(x, "complete", "done", "done", <<T(l), M(l)>>)

\* bulkUpdateTasksOp: one statement for the tasks, one for their milestones.
BulkUpdate(x, S, s) ==
    \E ts \in Orders({T(l) : l \in S}), ms \in Orders({M(l) : l \in S}) :
        Begin(x, "bulk", TaskStatusToMilestone(s), s, ts \o ms)

\* reconcileMilestones: forward only, from what is committed now.
ToAdvance(satisfied) == {l \in satisfied : milestone[l] \notin {"done", "blocked"}}

\* reconcileMilestonesOp: setMilestoneStatusOp for one after the other.
Reconcile(x, satisfied) ==
    \E order \in Orders(ToAdvance(satisfied)) :
        Begin(x, "reconcile", "done", "done",
              FlattenSeq([i \in DOMAIN order |-> <<M(order[i]), T(order[i])>>]))

-----------------------------------------------------------------------------
(* How the transactions go on *)

Running(x) == txn[x].state = "running"

Wanted(x) == Head(txn[x].todo)

Blocks(y, x) ==
    /\ x # y
    /\ Running(x)
    /\ txn[x].todo # <<>>
    /\ Wanted(x) \in txn[y].held

\* completeTaskOp's guard, which is evaluated again once the row is locked.
AlreadyDone(x) ==
    /\ txn[x].kind = "complete"
    /\ Wanted(x).table = "task"
    /\ task[Wanted(x).link] = "done"

Write(x) ==
    /\ Running(x)
    /\ txn[x].todo # <<>>
    /\ \A y \in Txns : ~Blocks(y, x)
    /\ ~AlreadyDone(x)
    /\ txn' = [txn EXCEPT ![x].held = @ \cup {Wanted(x)}, ![x].todo = Tail(@)]
    /\ UNCHANGED <<milestone, task>>

\* Variant: the transaction is left open.
RollHolding(x) ==
    /\ txn' = [txn EXCEPT ![x].state = "aborted", ![x].todo = <<>>]
    /\ UNCHANGED <<milestone, task>>

Roll(x) ==
    /\ txn' = [txn EXCEPT ![x].state = "aborted", ![x].todo = <<>>, ![x].held = {}]
    /\ UNCHANGED <<milestone, task>>

\* "Task not found or already completed"
Refuse(x) ==
    /\ Running(x)
    /\ txn[x].todo # <<>>
    /\ \A y \in Txns : ~Blocks(y, x)
    /\ AlreadyDone(x)
    /\ Roll(x)

Commit(x) ==
    /\ Running(x)
    /\ txn[x].todo = <<>>
    /\ milestone' = [l \in Links |-> IF M(l) \in txn[x].held THEN txn[x].milestone
                                     ELSE milestone[l]]
    /\ task' = [l \in Links |-> IF T(l) \in txn[x].held THEN txn[x].task ELSE task[l]]
    /\ txn' = [txn EXCEPT ![x].state = "committed", ![x].held = {}]

\* Those who must end before x goes on, and those they wait for.
Ahead(x) ==
    LET ahead[n \in Nat] ==
            IF n = 0 THEN {y \in Txns : Blocks(y, x)}
            ELSE ahead[n - 1] \cup {y \in Txns : \E z \in ahead[n - 1] : Blocks(y, z)}
    IN  ahead[Cardinality(Txns)]

\* PostgreSQL's deadlock detection aborts a transaction that waits for itself.
Victim(x) ==
    /\ x \in Ahead(x)
    /\ Roll(x)

Progress(x) == Write(x) \/ Refuse(x) \/ Commit(x) \/ Victim(x)

Start(x) ==
    \/ \E l \in Links :
          \/ \E s \in MilestoneStatus : SetMilestone(x, l, s)
          \/ \E s \in OpenStatus : UpdateTask(x, l, s)
          \/ CompleteTask(x, l)
    \/ \E S \in SUBSET Links :
          \/ S # {} /\ \E s \in TaskStatus : BulkUpdate(x, S, s)
          \/ Reconcile(x, S)

Next == \E x \in Txns : Start(x) \/ Progress(x)

Spec == Init /\ [][Next]_vars

\* A statement that can go on does, and the detector runs after
\* deadlock_timeout; nothing makes a user start an operation.
Fairness == \A x \in Txns : WF_vars(Progress(x))

FairSpec == Spec /\ Fairness

-----------------------------------------------------------------------------
(* Properties *)

Agree(l) == task[l] = MilestoneStatusToTask(milestone[l])

\* "So the two stay in lock-step": whatever edits of the task, of the
\* milestone, of many tasks and of reconciliation overlap, the step that
\* changes either leaves the two with one status.
ChangeMirrors ==
    [][\A l \in Links :
          milestone'[l] # milestone[l] \/ task'[l] # task[l] => Agree(l)']_vars

\* An operation that was begun ends, although tasks and milestones are locked
\* in one order by some operations and in the other by others.
EveryEditEnds == \A x \in Txns : Running(x) ~> ~Running(x)
=============================================================================
