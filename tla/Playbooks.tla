------------------------------ MODULE Playbooks ------------------------------
(***************************************************************************)
(* Playbooks (src/domain/playbooks/operations.ts): rules that answer the   *)
(* decisions of the command center.  A pass evaluates every enabled rule   *)
(* against the decisions there are, records one run per rule and decision, *)
(* and acts at once where the workspace's automation mode and the action's *)
(* risk allow it; other runs wait for an approval or are only shown.  Page *)
(* loads and cron ticks start passes, so several overlap; each is one      *)
(* transaction, and one failed statement undoes it whole.  Notifications   *)
(* by email leave in a delivery (deliver-run.ts), which sends first and    *)
(* commits the statuses of its whole batch last.                           *)
(*                                                                         *)
(* A run is identified by its pair of playbook and decision (the unique    *)
(* index playbook_runs_fire_once); a playbook's id is never used again.    *)
(* Of the outside channels only email is modelled, and what a dispatched   *)
(* action does to other tables is counted only.                            *)
(***************************************************************************)
EXTENDS Naturals

CONSTANTS
    Playbooks,  \* ids of playbooks rows
    Decisions,  \* ids of decisions
    Actions,    \* the actions that playbooks have here
    Passes,     \* evaluations in flight
    Approvers,  \* approvals in flight
    Ticks,      \* deliveries in flight
    None        \* no run, nothing in hand

Catalog == {"notify", "generate_report", "create_task",
            "route_opportunity", "approve_within_cap"}

ASSUME ActionsAssumption == Actions \subseteq Catalog /\ Actions # {}

VARIABLES
    playbook,  \* the playbooks table
    run,       \* the playbook_runs table
    note,      \* email status of each notification
    fired,     \* committed dispatches of a pair's action
    approved,  \* pairs whose run a human approved
    handed,    \* pairs whose message was handed to the mail relay
    pass,      \* what each evaluation has planned and written
    approver,  \* the run each approval has read
    tick       \* what each delivery has read and marked

vars == <<playbook, run, note, fired, approved, handed, pass, approver, tick>>

-----------------------------------------------------------------------------

Modes == {"off", "recommend_only", "auto_with_approval", "autonomous"}

Pairs == Playbooks \X Decisions

Playbook == [action: Actions, email: BOOLEAN,
             state: {"unborn", "enabled", "disabled", "deleted"}]

Verdicts == {"auto", "approval", "recommend"}

RunStatus == {"recommended", "pending_approval", "executed", "failed", "dismissed"}

EmailStatus == {"none", "pending", "sent", "failed"}

Planned == [pair: Pairs, verdict: Verdicts, email: BOOLEAN]

Written == [status: RunStatus, email: BOOLEAN]

Pass == [plan: SUBSET Planned, wrote: [Pairs -> Written \cup {None}]]

NoPass == [plan |-> {}, wrote |-> [x \in Pairs |-> None]]

Approver == [pair: Pairs, email: BOOLEAN]

Tick == [batch: SUBSET Pairs, mark: [Pairs -> EmailStatus \cup {None}]]

NoTick == [batch |-> {}, mark |-> [x \in Pairs |-> None]]

ASSUME NoneAssumption == None \notin RunStatus \cup EmailStatus \cup Written \cup Approver

Init ==
    /\ playbook \in [Playbooks -> [action: Actions, email: {FALSE}, state: {"unborn"}]]
    /\ run = [x \in Pairs |-> None]
    /\ note = [x \in Pairs |-> None]
    /\ fired = [x \in Pairs |-> 0]
    /\ approved = {}
    /\ handed = {}
    /\ pass = [t \in Passes |-> NoPass]
    /\ approver = [a \in Approvers |-> None]
    /\ tick = [k \in Ticks |-> NoTick]

-----------------------------------------------------------------------------
(* Risk and verdict *)

Exists(p) == playbook[p].state \in {"enabled", "disabled"}

\* ACTION_CATALOG, CAPABILITIES: the risk of the action's own capability.
RiskOfAction(p) ==
    CASE playbook[p].action = "approve_within_cap" -> "high"
      [] playbook[p].action \in {"create_task", "route_opportunity"} -> "medium"
      [] OTHER -> "low"

\* capabilityForAction: a notification by email is a high risk.
Risk(p) ==
    IF playbook[p].action = "notify" /\ playbook[p].email
    THEN "high" ELSE RiskOfAction(p)

\* capabilityDecision, but for the mode "off".
Verdict(mode, p) ==
    CASE mode = "recommend_only" -> "recommend"
      [] mode = "auto_with_approval" -> IF Risk(p) = "low" THEN "auto" ELSE "approval"
      [] mode = "autonomous" -> IF Risk(p) = "high" THEN "approval" ELSE "auto"

\* enqueueNotificationOp: one row per pair (dedupe_key).
Enqueued(n, email) ==
    CASE n # None -> n
      [] n = None /\ email -> "pending"
      [] n = None /\ ~email -> "none"

-----------------------------------------------------------------------------
(* Rules *)

SetPlaybook(p, row) ==
    /\ playbook' = [playbook EXCEPT ![p] = row]
    /\ UNCHANGED <<run, note, fired, approved, handed, pass, approver, tick>>

Create(p, email) ==
    /\ playbook[p].state = "unborn"
    /\ SetPlaybook(p, [playbook[p] EXCEPT !.state = "enabled", !.email = email])

\* updatePlaybookOp: the channels, or the switch.
UpdateChannels(p, email) ==
    /\ Exists(p)
    /\ SetPlaybook(p, [playbook[p] EXCEPT !.email = email])

Toggle(p, s) ==
    /\ Exists(p)
    /\ s \in {"enabled", "disabled"}
    /\ SetPlaybook(p, [playbook[p] EXCEPT !.state = s])

\* deletePlaybookOp: runs go with the rule (ON DELETE CASCADE), notifications
\* stay.  It waits for the passes that inserted runs of the rule.
Delete(p) ==
    /\ Exists(p)
    /\ \A t \in Passes, d \in Decisions : pass[t].wrote[<<p, d>>] = None
    /\ playbook' = [playbook EXCEPT ![p].state = "deleted"]
    /\ run' = [x \in Pairs |-> IF x[1] = p THEN None ELSE run[x]]
    /\ UNCHANGED <<note, fired, approved, handed, pass, approver, tick>>

-----------------------------------------------------------------------------
(* Evaluation: maybeRunPlaybooks, materializePlaybookRunsOp *)

\* The mode is read, then the rules.  An administrator sets the mode at will
\* and the decisions are whatever the other tables give rise to.
BeginPass(t, mode, matches) ==
    LET hits == {x \in matches : playbook[x[1]].state = "enabled"}
    IN  /\ pass[t] = NoPass
        /\ mode # "off"
        /\ hits # {}
        /\ pass' = [pass EXCEPT ![t].plan =
              {[pair |-> x, verdict |-> Verdict(mode, x[1]),
                email |-> playbook[x[1]].email] : x \in hits}]
        /\ UNCHANGED <<playbook, run, note, fired, approved, handed, approver, tick>>

\* Another transaction has inserted the pair's run and has not ended.
Claimed(t, x) == \E s \in Passes \ {t} : pass[s].wrote[x] # None

\* The pair fired before: ON CONFLICT DO NOTHING.
Skip(t, r) ==
    /\ r \in pass[t].plan
    /\ ~Claimed(t, r.pair)
    /\ run[r.pair] # None
    /\ pass' = [pass EXCEPT ![t].plan = @ \ {r}]
    /\ UNCHANGED <<playbook, run, note, fired, approved, handed, approver, tick>>

\* The status of a run whose verdict has been acted on.  Of the actions that
\* run without approval, routing alone can be refused by its operation.
Outcomes(r) ==
    CASE r.verdict = "approval" -> {"pending_approval"}
      [] r.verdict = "recommend" -> {"recommended"}
      [] r.verdict = "auto" ->
            {"executed"} \cup (IF playbook[r.pair[1]].action = "route_opportunity"
                               THEN {"failed"} ELSE {})

Write(t, r, s) ==
    /\ pass' = [pass EXCEPT
          ![t] = [plan |-> @.plan \ {r},
                  wrote |-> [@.wrote EXCEPT ![r.pair] = [status |-> s, email |-> r.email]]]]
    /\ UNCHANGED <<playbook, run, note, fired, approved, handed, approver, tick>>

\* Variant: a SELECT in place of the unique index.
FireUnindexed(t, r) ==
    /\ r \in pass[t].plan
    /\ run[r.pair] = None
    /\ Exists(r.pair[1])
    /\ \E s \in Outcomes(r) : Write(t, r, s)

\* Variant: ON CONFLICT DO UPDATE.
FireAgain(t, r) ==
    /\ r \in pass[t].plan
    /\ ~Claimed(t, r.pair)
    /\ Exists(r.pair[1])
    /\ \E s \in Outcomes(r) : Write(t, r, s)

\* INSERT, the dispatch and the UPDATE of the run, in the same transaction.
\* The INSERT waits for an uncommitted run of the pair, and fails if the rule
\* has been deleted.
Fire(t, r) ==
    /\ r \in pass[t].plan
    /\ ~Claimed(t, r.pair)
    /\ run[r.pair] = None
    /\ Exists(r.pair[1])
    /\ \E s \in Outcomes(r) : Write(t, r, s)

\* What a pass did, committed; a notification goes to the channels planned.
CommitPass(t) ==
    LET w == pass[t].wrote
        acted(x) == w[x] # None /\ w[x].status = "executed"
    IN  /\ pass[t] # NoPass
        /\ pass[t].plan = {}
        /\ run' = [x \in Pairs |->
              IF w[x] = None THEN run[x] ELSE w[x].status]
        /\ fired' = [x \in Pairs |-> IF acted(x) THEN fired[x] + 1 ELSE fired[x]]
        /\ note' = [x \in Pairs |->
              IF acted(x) /\ playbook[x[1]].action = "notify"
              THEN Enqueued(note[x], w[x].email) ELSE note[x]]
        /\ pass' = [pass EXCEPT ![t] = NoPass]
        /\ UNCHANGED <<playbook, approved, handed, approver, tick>>

\* A statement failed (the catch's own UPDATE then fails too, and runner.ts
\* swallows the error), two passes deadlocked, or the process ended.
FailPass(t) ==
    /\ pass[t] # NoPass
    /\ pass' = [pass EXCEPT ![t] = NoPass]
    /\ UNCHANGED <<playbook, run, note, fired, approved, handed, approver, tick>>

-----------------------------------------------------------------------------
(* Decisions on a run: approveRunOp, dismissRunOp *)

\* The run and its rule are read.  The gate's key (approve-run:<id>) holds a
\* second approval back until the first has ended.
ReadApprove(a, x) ==
    /\ approver[a] = None
    /\ \A b \in Approvers : approver[b] # None => approver[b].pair # x
    /\ run[x] = "pending_approval"
    /\ approver' = [approver EXCEPT ![a] = [pair |-> x, email |-> playbook[x[1]].email]]
    /\ UNCHANGED <<playbook, run, note, fired, approved, handed, pass, tick>>

\* The action is dispatched and the run updated by its id, if it still is
\* there; a notification of a run that is gone fails (foreign key).
WriteApprove(a) ==
    LET x == approver[a].pair
        notify == playbook[x[1]].action = "notify"
    IN  /\ approver[a] # None
        /\ notify => run[x] # None
        /\ run' = [run EXCEPT ![x] = IF @ = None THEN None ELSE "executed"]
        /\ note' = [note EXCEPT ![x] = IF notify THEN Enqueued(@, approver[a].email) ELSE @]
        /\ fired' = [fired EXCEPT ![x] = @ + 1]
        /\ approved' = approved \cup {x}
        /\ approver' = [approver EXCEPT ![a] = None]
        /\ UNCHANGED <<playbook, handed, pass, tick>>

\* Variant: the error is returned, so what the action did stays.
FailApproveKept(a) ==
    LET x == approver[a].pair
    IN  /\ approver[a] # None
        /\ run' = [run EXCEPT ![x] = IF @ = None THEN None ELSE "failed"]
        /\ fired' = [fired EXCEPT ![x] = @ + 1]
        /\ approver' = [approver EXCEPT ![a] = None]
        /\ UNCHANGED <<playbook, note, approved, handed, pass, tick>>

\* The action fails: the run is marked failed and the error thrown on, so the
\* gate undoes both; or the process ends.
FailApprove(a) ==
    /\ approver[a] # None
    /\ approver' = [approver EXCEPT ![a] = None]
    /\ UNCHANGED <<playbook, run, note, fired, approved, handed, pass, tick>>

Dismiss(x) ==
    /\ run[x] # None
    /\ run' = [run EXCEPT ![x] = "dismissed"]
    /\ UNCHANGED <<playbook, note, fired, approved, handed, pass, approver, tick>>

-----------------------------------------------------------------------------
(* Delivery of email: deliverPendingForTenant *)

BeginDelivery(k) ==
    LET due == {x \in Pairs : note[x] = "pending"}
    IN  /\ tick[k] = NoTick
        /\ due # {}
        /\ tick' = [tick EXCEPT ![k].batch = due]
        /\ UNCHANGED <<playbook, run, note, fired, approved, handed, pass, approver>>

\* Variant: what sendEmail answered is stored.
Answered(result) == result

\* Variant: what was not refused counts as sent.
NotFailed(result) == IF result = "failed" THEN "failed" ELSE "sent"

\* "skipped" (no address, no relay) leaves nothing to deliver.
StatusOf(result) ==
    CASE result = "sent" -> "sent"
      [] result = "failed" -> "failed"
      [] OTHER -> "none"

\* One message is sent and its row updated by id.  When deliveries overlap the
\* UPDATE waits for the other's end, so the one that commits last wins.
Send(k, x, result) ==
    /\ x \in tick[k].batch
    /\ tick[k].mark[x] = None
    /\ tick' = [tick EXCEPT ![k].mark[x] = StatusOf(result)]
    /\ handed' = IF result = "sent" THEN handed \cup {x} ELSE handed
    /\ UNCHANGED <<playbook, run, note, fired, approved, pass, approver>>

CommitDelivery(k) ==
    /\ tick[k] # NoTick
    /\ \A x \in tick[k].batch : tick[k].mark[x] # None
    /\ note' = [x \in Pairs |-> IF x \in tick[k].batch THEN tick[k].mark[x] ELSE note[x]]
    /\ tick' = [tick EXCEPT ![k] = NoTick]
    /\ UNCHANGED <<playbook, run, fired, approved, handed, pass, approver>>

\* The process ends or a statement fails: no status is kept, the messages are out.
CrashDelivery(k) ==
    /\ tick[k] # NoTick
    /\ tick' = [tick EXCEPT ![k] = NoTick]
    /\ UNCHANGED <<playbook, run, note, fired, approved, handed, pass, approver>>

-----------------------------------------------------------------------------

Next ==
    \/ \E p \in Playbooks, email \in BOOLEAN : Create(p, email) \/ UpdateChannels(p, email)
    \/ \E p \in Playbooks, s \in {"enabled", "disabled"} : Toggle(p, s)
    \/ \E p \in Playbooks : Delete(p)
    \/ \E t \in Passes, mode \in Modes, matches \in SUBSET Pairs : BeginPass(t, mode, matches)
    \/ \E t \in Passes : \E r \in pass[t].plan : Skip(t, r) \/ Fire(t, r)
    \/ \E t \in Passes : CommitPass(t) \/ FailPass(t)
    \/ \E a \in Approvers, x \in Pairs : ReadApprove(a, x)
    \/ \E a \in Approvers : WriteApprove(a) \/ FailApprove(a)
    \/ \E x \in Pairs : Dismiss(x)
    \/ \E k \in Ticks : BeginDelivery(k) \/ CommitDelivery(k) \/ CrashDelivery(k)
    \/ \E k \in Ticks, x \in Pairs, result \in {"sent", "failed", "skipped"} : Send(k, x, result)

Spec == Init /\ [][Next]_vars

-----------------------------------------------------------------------------

\* Every table and operation in flight has its type.
TypeOK ==
    /\ playbook \in [Playbooks -> Playbook]
    /\ run \in [Pairs -> RunStatus \cup {None}]
    /\ note \in [Pairs -> EmailStatus \cup {None}]
    /\ fired \in [Pairs -> Nat]
    /\ approved \subseteq Pairs
    /\ handed \subseteq Pairs
    /\ pass \in [Passes -> Pass]
    /\ approver \in [Approvers -> Approver \cup {None}]
    /\ tick \in [Ticks -> Tick]

\* A rule's action is dispatched at most once for a decision, however many
\* passes, approvals, dismissals and deletions overlap (schema.ts: "runs are
\* a fire-once ledger").
FiresOnce == \A x \in Pairs : fired[x] <= 1

\* The status of a run tells whether its action was dispatched.
RunTellsTruth ==
    \A x \in Pairs :
        /\ run[x] = "executed" => fired[x] = 1
        /\ run[x] \in {"recommended", "pending_approval", "failed"} => fired[x] = 0

\* No mode lets a message leave the workspace without a human's approval of
\* its run (automation.ts: "high-risk still needs approval"), whatever is done
\* to the rule between evaluation, approval and delivery.
ExternalSendsApproved ==
    \A x \in Pairs : note[x] = "pending" \/ x \in handed => x \in approved

\* A notification recorded as sent was handed to the relay, also after
\* crashes and with overlapping deliveries.
SentWasSent == \A x \in Pairs : note[x] = "sent" => x \in handed

Closed == {"executed", "failed", "dismissed"}

\* A run that was decided is never open again (lifecycle.ts).
DecidedStaysDecided ==
    [][\A x \in Pairs : run[x] \in Closed => run'[x] \in Closed \cup {None}]_vars

\* What lifecycle.ts says of its statuses, "Terminal: executed / failed /
\* dismissed": while its rule exists, a run in one of them keeps it.
TerminalIsTerminal ==
    [][\A x \in Pairs : run[x] \in Closed => run'[x] \in {run[x], None}]_vars

=============================================================================
