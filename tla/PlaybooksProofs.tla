--------------------------- MODULE PlaybooksProofs ---------------------------
(***************************************************************************)
(* Proofs about the playbooks, for every value of the constants of         *)
(* Playbooks.tla.                                                          *)
(*                                                                         *)
(* LedgerInv says where a dispatch can still come from: a pair without a   *)
(* run whose rule exists, the one uncommitted run of such a pair, or the   *)
(* one approval that has read it; while any of them is there the pair has  *)
(* not fired.  MailInv follows a message from the plan that must not be    *)
(* automatic to the delivery that must not be unapproved.                  *)
(***************************************************************************)
EXTENDS Playbooks, TLAPS

\* Runs go with their rule.
RunsHaveRules == \A x \in Pairs : run[x] # None => Exists(x[1])

\* What has no run has not fired, unless the run went with its rule.
UnrecordedUnfired ==
    \A x \in Pairs : run[x] = None /\ playbook[x[1]].state # "deleted" => fired[x] = 0

\* An uncommitted run is the only one of its pair and its rule is held.
WritesAreNew ==
    \A t \in Passes, x \in Pairs :
        pass[t].wrote[x] # None =>
            /\ run[x] = None
            /\ Exists(x[1])
            /\ \A s \in Passes : pass[s].wrote[x] # None => s = t

\* An approval is the only one of its run and nothing has fired yet.
ApprovalsHold ==
    \A a \in Approvers :
        approver[a] # None =>
            /\ fired[approver[a].pair] = 0
            /\ \/ run[approver[a].pair] # None
               \/ playbook[approver[a].pair[1]].state = "deleted"
            /\ \A b \in Approvers :
                  approver[b] # None /\ approver[b].pair = approver[a].pair => b = a

LedgerInv ==
    /\ TypeOK
    /\ RunsHaveRules
    /\ UnrecordedUnfired
    /\ WritesAreNew
    /\ ApprovalsHold
    /\ RunTellsTruth
    /\ FiresOnce

\* No plan makes a notification by email automatic.
PlansGoverned ==
    \A t \in Passes : \A r \in pass[t].plan :
        r.verdict = "auto" /\ playbook[r.pair[1]].action = "notify" => ~r.email

WritesGoverned ==
    \A t \in Passes, x \in Pairs :
        /\ pass[t].wrote[x] # None
        /\ pass[t].wrote[x].status = "executed"
        /\ playbook[x[1]].action = "notify"
        => ~pass[t].wrote[x].email

\* What a delivery holds was approved, and what it marked as sent was sent.
DeliveriesHold ==
    \A k \in Ticks, x \in Pairs :
        /\ x \in tick[k].batch => x \in approved
        /\ tick[k].mark[x] = "sent" => x \in handed

MailInv ==
    /\ TypeOK
    /\ PlansGoverned
    /\ WritesGoverned
    /\ DeliveriesHold
    /\ ExternalSendsApproved
    /\ SentWasSent

-----------------------------------------------------------------------------
(* Types *)

\* A pair is made of a rule and a decision.
LEMMA PairParts ==
    ASSUME NEW x \in Pairs
    PROVE  x[1] \in Playbooks /\ x[2] \in Decisions /\ x = <<x[1], x[2]>>
  BY DEF Pairs

\* A verdict is one of the three but under the mode off.
LEMMA VerdictType ==
    ASSUME TypeOK, NEW p \in Playbooks, NEW mode \in Modes, mode # "off"
    PROVE  Verdict(mode, p) \in Verdicts
  BY DEF Verdict, Verdicts, Modes

\* Every outcome is a status.
LEMMA OutcomeType ==
    ASSUME NEW r \in Planned, NEW s \in Outcomes(r)
    PROVE  s \in RunStatus
  BY DEF Outcomes, Planned, Verdicts, RunStatus

\* Enqueueing leaves a status behind.
LEMMA EnqueuedType ==
    ASSUME NEW n \in EmailStatus \cup {None}, NEW email \in BOOLEAN
    PROVE  Enqueued(n, email) \in EmailStatus
  BY DEF Enqueued, EmailStatus

\* The tables start empty and nothing is in flight.
LEMMA InitTypeOK == Init => TypeOK
  <1> SUFFICES ASSUME Init PROVE TypeOK
    OBVIOUS
  <1>1. playbook \in [Playbooks -> Playbook]
    BY DEF Init, Playbook
  <1>2. NoPass \in Pass /\ NoTick \in Tick
    BY DEF NoPass, NoTick, Pass, Tick
  <1> QED
    BY <1>1, <1>2 DEF Init, TypeOK

\* A change of the rules.
LEMMA SetPlaybookType ==
    ASSUME TypeOK, NEW p \in Playbooks, NEW row \in Playbook, SetPlaybook(p, row)
    PROVE  TypeOK'
  BY DEF TypeOK, SetPlaybook

LEMMA RulesType ==
    ASSUME TypeOK, NEW p \in Playbooks,
           \/ \E email \in BOOLEAN : Create(p, email) \/ UpdateChannels(p, email)
           \/ \E s \in {"enabled", "disabled"} : Toggle(p, s)
    PROVE  \E row \in Playbook : /\ SetPlaybook(p, row)
                                 /\ row.action = playbook[p].action
                                 /\ row.state \in {"enabled", "disabled"}
                                 /\ playbook[p].state # "deleted"
  <1>1. playbook[p] \in Playbook
    BY DEF TypeOK
  <1>2. ASSUME NEW email \in BOOLEAN, Create(p, email)
        PROVE  \E row \in Playbook : /\ SetPlaybook(p, row)
                                 /\ row.action = playbook[p].action
                                 /\ row.state \in {"enabled", "disabled"}
                                 /\ playbook[p].state # "deleted"
    <2> DEFINE row == [playbook[p] EXCEPT !.state = "enabled", !.email = email]
    <2>1. row \in Playbook /\ row.action = playbook[p].action /\ row.state = "enabled"
      BY <1>1 DEF Playbook
    <2> QED
      BY <1>2, <2>1 DEF Create
  <1>3. ASSUME NEW email \in BOOLEAN, UpdateChannels(p, email)
        PROVE  \E row \in Playbook : /\ SetPlaybook(p, row)
                                 /\ row.action = playbook[p].action
                                 /\ row.state \in {"enabled", "disabled"}
                                 /\ playbook[p].state # "deleted"
    <2> DEFINE row == [playbook[p] EXCEPT !.email = email]
    <2>1. row \in Playbook /\ row.action = playbook[p].action /\ row.state = playbook[p].state
      BY <1>1 DEF Playbook
    <2> QED
      BY <1>3, <2>1 DEF UpdateChannels, Exists
  <1>4. ASSUME NEW s \in {"enabled", "disabled"}, Toggle(p, s)
        PROVE  \E row \in Playbook : /\ SetPlaybook(p, row)
                                 /\ row.action = playbook[p].action
                                 /\ row.state \in {"enabled", "disabled"}
                                 /\ playbook[p].state # "deleted"
    <2> DEFINE row == [playbook[p] EXCEPT !.state = s]
    <2>1. row \in Playbook /\ row.action = playbook[p].action /\ row.state = s
      BY <1>1 DEF Playbook
    <2> QED
      BY <1>4, <2>1 DEF Toggle, Exists
  <1> QED
    BY <1>2, <1>3, <1>4

LEMMA DeleteType ==
    ASSUME TypeOK, NEW p \in Playbooks, Delete(p)
    PROVE  TypeOK'
  <1>1. playbook' \in [Playbooks -> Playbook]
    BY DEF TypeOK, Delete, Playbook
  <1>2. run' \in [Pairs -> RunStatus \cup {None}]
    BY DEF TypeOK, Delete
  <1> QED
    BY <1>1, <1>2 DEF TypeOK, Delete

LEMMA BeginPassType ==
    ASSUME TypeOK, NEW t \in Passes, NEW mode \in Modes, NEW matches \in SUBSET Pairs,
           BeginPass(t, mode, matches)
    PROVE  TypeOK'
  <1> DEFINE hits == {x \in matches : playbook[x[1]].state = "enabled"}
             plan == {[pair |-> x, verdict |-> Verdict(mode, x[1]),
                       email |-> playbook[x[1]].email] : x \in hits}
  <1>1. pass' = [pass EXCEPT ![t].plan = plan] /\ mode # "off"
    BY DEF BeginPass
  <1>2. ASSUME NEW x \in hits
        PROVE  [pair |-> x, verdict |-> Verdict(mode, x[1]),
                email |-> playbook[x[1]].email] \in Planned
    <2>1. x \in Pairs /\ x[1] \in Playbooks
      BY PairParts
    <2>2. Verdict(mode, x[1]) \in Verdicts
      BY <1>1, <2>1, VerdictType
    <2>3. playbook[x[1]].email \in BOOLEAN
      BY <2>1 DEF TypeOK, Playbook
    <2> QED
      BY <2>1, <2>2, <2>3 DEF Planned
  <1>3. plan \in SUBSET Planned
    BY <1>2
  <1>4. pass' \in [Passes -> Pass]
    <2> HIDE DEF plan
    <2> QED
      BY <1>1, <1>3 DEF TypeOK, Pass
  <1> QED
    BY <1>4 DEF TypeOK, BeginPass

LEMMA SkipType ==
    ASSUME TypeOK, NEW t \in Passes, NEW r \in pass[t].plan, Skip(t, r)
    PROVE  TypeOK'
  <1>1. pass' \in [Passes -> Pass]
    BY DEF TypeOK, Skip, Pass
  <1> QED
    BY <1>1 DEF TypeOK, Skip

LEMMA FireType ==
    ASSUME TypeOK, NEW t \in Passes, NEW r \in pass[t].plan, Fire(t, r)
    PROVE  TypeOK' /\ r \in Planned
  <1>1. r \in Planned /\ r.pair \in Pairs /\ r.email \in BOOLEAN
    BY DEF TypeOK, Pass, Planned
  <1>2. PICK s \in Outcomes(r) : Write(t, r, s)
    BY DEF Fire
  <1>3. [status |-> s, email |-> r.email] \in Written
    BY <1>1, <1>2, OutcomeType DEF Written
  <1>4. pass' \in [Passes -> Pass]
    BY <1>1, <1>2, <1>3 DEF TypeOK, Write, Pass
  <1> QED
    BY <1>1, <1>2, <1>4 DEF TypeOK, Write

LEMMA CommitPassType ==
    ASSUME TypeOK, NEW t \in Passes, CommitPass(t)
    PROVE  TypeOK'
  <1> DEFINE w == pass[t].wrote
  <1>1. w \in [Pairs -> Written \cup {None}]
    BY DEF TypeOK, Pass
  <1>2. run' \in [Pairs -> RunStatus \cup {None}]
    BY <1>1 DEF TypeOK, CommitPass, Written
  <1>3. fired' \in [Pairs -> Nat]
    BY DEF TypeOK, CommitPass
  <1>4. note' \in [Pairs -> EmailStatus \cup {None}]
    BY <1>1, EnqueuedType DEF TypeOK, CommitPass, Written
  <1>5. pass' \in [Passes -> Pass]
    BY DEF TypeOK, CommitPass, Pass, NoPass
  <1> QED
    BY <1>2, <1>3, <1>4, <1>5 DEF TypeOK, CommitPass

LEMMA FailPassType ==
    ASSUME TypeOK, NEW t \in Passes, FailPass(t)
    PROVE  TypeOK'
  BY DEF TypeOK, FailPass, Pass, NoPass

LEMMA ReadApproveType ==
    ASSUME TypeOK, NEW a \in Approvers, NEW x \in Pairs, ReadApprove(a, x)
    PROVE  TypeOK'
  <1>1. playbook[x[1]].email \in BOOLEAN
    BY PairParts DEF TypeOK, Playbook
  <1> QED
    BY <1>1 DEF TypeOK, ReadApprove, Approver

LEMMA WriteApproveType ==
    ASSUME TypeOK, NEW a \in Approvers, WriteApprove(a)
    PROVE  TypeOK' /\ approver[a].pair \in Pairs
  <1>1. approver[a] \in Approver /\ approver[a].pair \in Pairs /\ approver[a].email \in BOOLEAN
    BY DEF TypeOK, WriteApprove, Approver
  <1>2. run' \in [Pairs -> RunStatus \cup {None}]
    BY <1>1 DEF TypeOK, WriteApprove, RunStatus
  <1>3. fired' \in [Pairs -> Nat] /\ approved' \subseteq Pairs
    BY <1>1 DEF TypeOK, WriteApprove
  <1>4. note' \in [Pairs -> EmailStatus \cup {None}]
    BY <1>1, EnqueuedType DEF TypeOK, WriteApprove
  <1> QED
    BY <1>1, <1>2, <1>3, <1>4 DEF TypeOK, WriteApprove

LEMMA FailApproveType ==
    ASSUME TypeOK, NEW a \in Approvers, FailApprove(a)
    PROVE  TypeOK'
  BY DEF TypeOK, FailApprove

LEMMA DismissType ==
    ASSUME TypeOK, NEW x \in Pairs, Dismiss(x)
    PROVE  TypeOK'
  BY DEF TypeOK, Dismiss, RunStatus

LEMMA DeliveryType ==
    ASSUME TypeOK, NEW k \in Ticks,
           BeginDelivery(k) \/ CommitDelivery(k) \/ CrashDelivery(k)
    PROVE  TypeOK'
  <1>1. CASE BeginDelivery(k)
    BY <1>1 DEF TypeOK, BeginDelivery, Tick
  <1>2. CASE CommitDelivery(k)
    <2>1. tick[k].mark \in [Pairs -> EmailStatus \cup {None}]
      BY DEF TypeOK, Tick
    <2>2. note' \in [Pairs -> EmailStatus \cup {None}]
      BY <1>2, <2>1 DEF TypeOK, CommitDelivery
    <2> QED
      BY <1>2, <2>2 DEF TypeOK, CommitDelivery, Tick, NoTick
  <1>3. CASE CrashDelivery(k)
    BY <1>3 DEF TypeOK, CrashDelivery, Tick, NoTick
  <1> QED
    BY <1>1, <1>2, <1>3

LEMMA SendType ==
    ASSUME TypeOK, NEW k \in Ticks, NEW x \in Pairs,
           NEW result \in {"sent", "failed", "skipped"}, Send(k, x, result)
    PROVE  TypeOK'
  <1>1. StatusOf(result) \in EmailStatus
    BY DEF StatusOf, EmailStatus
  <1>2. tick' \in [Ticks -> Tick]
    BY <1>1, ZenonT(40) DEF TypeOK, Send, Tick
  <1> QED
    BY <1>2 DEF TypeOK, Send

LEMMA TypeStep == TypeOK /\ [Next]_vars => TypeOK'
  <1> SUFFICES ASSUME TypeOK, [Next]_vars PROVE TypeOK'
    OBVIOUS
  <1>1. CASE \E p \in Playbooks :
                \/ \E email \in BOOLEAN : Create(p, email) \/ UpdateChannels(p, email)
                \/ \E s \in {"enabled", "disabled"} : Toggle(p, s)
    BY <1>1, RulesType, SetPlaybookType
  <1>2. CASE \E p \in Playbooks : Delete(p)
    BY <1>2, DeleteType
  <1>3. CASE \E t \in Passes, mode \in Modes, matches \in SUBSET Pairs :
                BeginPass(t, mode, matches)
    BY <1>3, BeginPassType
  <1>4. CASE \E t \in Passes : \E r \in pass[t].plan : Skip(t, r) \/ Fire(t, r)
    BY <1>4, SkipType, FireType
  <1>5. CASE \E t \in Passes : CommitPass(t) \/ FailPass(t)
    BY <1>5, CommitPassType, FailPassType
  <1>6. CASE \E a \in Approvers, x \in Pairs : ReadApprove(a, x)
    BY <1>6, ReadApproveType
  <1>7. CASE \E a \in Approvers : WriteApprove(a) \/ FailApprove(a)
    BY <1>7, WriteApproveType, FailApproveType
  <1>8. CASE \E x \in Pairs : Dismiss(x)
    BY <1>8, DismissType
  <1>9. CASE \E k \in Ticks : BeginDelivery(k) \/ CommitDelivery(k) \/ CrashDelivery(k)
    BY <1>9, DeliveryType
  <1>10. CASE \E k \in Ticks, x \in Pairs, result \in {"sent", "failed", "skipped"} :
                Send(k, x, result)
    BY <1>10, SendType
  <1>11. CASE UNCHANGED vars
    BY <1>11 DEF TypeOK, vars
  <1> QED
    BY <1>1, <1>2, <1>3, <1>4, <1>5, <1>6, <1>7, <1>8, <1>9, <1>10, <1>11 DEF Next

\* The tables and everything in flight keep their types.
THEOREM TypeCorrect == Spec => []TypeOK
  <1>1. Init => TypeOK
    BY InitTypeOK
  <1>2. TypeOK /\ [Next]_vars => TypeOK'
    BY TypeStep
  <1> QED
    BY <1>1, <1>2, PTL DEF Spec

-----------------------------------------------------------------------------
(* The ledger of runs *)

LEMMA InitLedgerInv == Init => LedgerInv
  <1> SUFFICES ASSUME Init PROVE LedgerInv
    OBVIOUS
  <1>1. RunsHaveRules /\ UnrecordedUnfired /\ RunTellsTruth /\ FiresOnce
    BY NoneAssumption
       DEF Init, RunsHaveRules, UnrecordedUnfired, RunTellsTruth, FiresOnce, RunStatus
  <1>2. WritesAreNew /\ ApprovalsHold
    BY DEF Init, WritesAreNew, ApprovalsHold, NoPass
  <1> QED
    BY <1>1, <1>2, InitTypeOK DEF LedgerInv

\* A step that leaves runs, rules and dispatches alone, commits nothing new
\* and opens no approval.
LEMMA LedgerFrame ==
    ASSUME LedgerInv, UNCHANGED <<playbook, run, fired>>, TypeOK',
           \A t \in Passes, x \in Pairs :
               pass'[t].wrote[x] # None => pass[t].wrote[x] # None,
           \A a \in Approvers : approver'[a] \in {approver[a], None}
    PROVE  LedgerInv'
  <1>1. RunsHaveRules' /\ UnrecordedUnfired' /\ RunTellsTruth' /\ FiresOnce'
    BY DEF LedgerInv, RunsHaveRules, UnrecordedUnfired, RunTellsTruth, FiresOnce, Exists
  <1>2. WritesAreNew'
    BY DEF LedgerInv, WritesAreNew, Exists
  <1>3. ApprovalsHold'
    BY DEF LedgerInv, ApprovalsHold
  <1> QED
    BY <1>1, <1>2, <1>3 DEF LedgerInv

\* A rule is created, changed or switched.
LEMMA LedgerRules ==
    ASSUME LedgerInv, NEW p \in Playbooks, NEW row \in Playbook, SetPlaybook(p, row),
           row.state \in {"enabled", "disabled"}, playbook[p].state # "deleted"
    PROVE  LedgerInv'
  <1>1. \A q \in Playbooks : /\ Exists(q) => Exists(q)'
                             /\ playbook'[q].state = "deleted" <=> playbook[q].state = "deleted"
    BY DEF LedgerInv, TypeOK, SetPlaybook, Exists
  <1>2. RunsHaveRules' /\ UnrecordedUnfired' /\ RunTellsTruth' /\ FiresOnce'
    BY <1>1, PairParts
       DEF LedgerInv, SetPlaybook, RunsHaveRules, UnrecordedUnfired, RunTellsTruth, FiresOnce
  <1>3. WritesAreNew'
    BY <1>1, PairParts DEF LedgerInv, SetPlaybook, WritesAreNew
  <1>4. ApprovalsHold'
    <2>1. \A a \in Approvers : approver[a] # None => approver[a].pair \in Pairs
      BY DEF LedgerInv, TypeOK, Approver
    <2> QED
      BY <1>1, <2>1, PairParts DEF LedgerInv, SetPlaybook, ApprovalsHold
  <1>5. TypeOK'
    BY SetPlaybookType DEF LedgerInv
  <1> QED
    BY <1>2, <1>3, <1>4, <1>5 DEF LedgerInv

\* A rule is deleted with its runs: no pass holds it, and approvals in flight
\* find it deleted.
LEMMA LedgerDelete ==
    ASSUME LedgerInv, NEW p \in Playbooks, Delete(p)
    PROVE  LedgerInv'
  <1>1. playbook'[p].state = "deleted"
    BY DEF LedgerInv, TypeOK, Delete, Playbook
  <1>2. \A q \in Playbooks : q # p => playbook'[q] = playbook[q]
    BY DEF LedgerInv, TypeOK, Delete
  <1>3. \A x \in Pairs : run'[x] = IF x[1] = p THEN None ELSE run[x]
    BY DEF Delete
  <1>4. \A t \in Passes, x \in Pairs : pass[t].wrote[x] # None => x[1] # p
    BY PairParts DEF Delete
  <1>5. RunsHaveRules' /\ UnrecordedUnfired'
    BY <1>1, <1>2, <1>3, PairParts
       DEF LedgerInv, Delete, RunsHaveRules, UnrecordedUnfired, Exists
  <1>6. RunTellsTruth' /\ FiresOnce'
    BY <1>3, NoneAssumption DEF LedgerInv, Delete, RunTellsTruth, FiresOnce, RunStatus
  <1>7. WritesAreNew'
    BY <1>2, <1>3, <1>4, PairParts DEF LedgerInv, Delete, WritesAreNew, Exists
  <1>8. ApprovalsHold'
    <2>1. \A a \in Approvers : approver[a] # None => approver[a].pair \in Pairs
      BY DEF LedgerInv, TypeOK, Approver
    <2> QED
      BY <1>1, <1>2, <1>3, <2>1, PairParts DEF LedgerInv, Delete, ApprovalsHold
  <1> QED
    BY <1>5, <1>6, <1>7, <1>8, DeleteType DEF LedgerInv

\* A pass inserts a run: no other has, and the index shows none.
LEMMA LedgerFire ==
    ASSUME LedgerInv, NEW t \in Passes, NEW r \in pass[t].plan, Fire(t, r)
    PROVE  LedgerInv'
  <1>1. TypeOK' /\ r \in Planned /\ r.pair \in Pairs
    BY FireType DEF LedgerInv, Planned
  <1>2. PICK s \in Outcomes(r) : Write(t, r, s)
    BY DEF Fire
  <1>3. /\ \A u \in Passes \ {t} : pass'[u] = pass[u]
        /\ \A x \in Pairs \ {r.pair} : pass'[t].wrote[x] = pass[t].wrote[x]
    BY <1>1, <1>2 DEF LedgerInv, TypeOK, Pass, Write
  <1>4. /\ run[r.pair] = None
        /\ Exists(r.pair[1])
        /\ \A u \in Passes \ {t} : pass[u].wrote[r.pair] = None
    BY DEF Fire, Claimed
  <1>5. WritesAreNew'
    BY <1>1, <1>2, <1>3, <1>4 DEF LedgerInv, WritesAreNew, Write, Exists
  <1>6. /\ RunsHaveRules' /\ UnrecordedUnfired' /\ RunTellsTruth'
        /\ FiresOnce' /\ ApprovalsHold'
    BY <1>2 DEF LedgerInv, Write, RunsHaveRules, UnrecordedUnfired, RunTellsTruth,
                FiresOnce, ApprovalsHold, Exists
  <1> QED
    BY <1>1, <1>5, <1>6 DEF LedgerInv

\* A pass commits: its pairs had not fired and no approval has read them.
LEMMA LedgerCommit ==
    ASSUME LedgerInv, NEW t \in Passes, CommitPass(t)
    PROVE  LedgerInv'
  <1> DEFINE w == pass[t].wrote
  <1>1. w \in [Pairs -> Written \cup {None}]
    BY DEF LedgerInv, TypeOK, Pass
  <1>2. \A x \in Pairs : w[x] # None => run[x] = None /\ Exists(x[1]) /\ fired[x] = 0
    BY DEF LedgerInv, WritesAreNew, UnrecordedUnfired, Exists
  <1>3. \A x \in Pairs : w[x] # None => run'[x] = w[x].status /\ run'[x] # None
    BY <1>1, NoneAssumption DEF CommitPass, Written
  <1>4. \A x \in Pairs : w[x] = None => run'[x] = run[x] /\ fired'[x] = fired[x]
    BY DEF CommitPass
  <1>5. \A x \in Pairs : w[x] # None => fired'[x] = IF run'[x] = "executed" THEN 1 ELSE 0
    BY <1>2, <1>3 DEF CommitPass
  <1>6. RunsHaveRules'
    BY <1>2, <1>4 DEF LedgerInv, CommitPass, RunsHaveRules, Exists
  <1>7. UnrecordedUnfired'
    BY <1>3, <1>4 DEF LedgerInv, CommitPass, UnrecordedUnfired
  <1>8. RunTellsTruth' /\ FiresOnce'
    BY <1>4, <1>5 DEF LedgerInv, RunTellsTruth, FiresOnce
  <1>9. WritesAreNew'
    <2>1. \A u \in Passes : pass'[u] = IF u = t THEN NoPass ELSE pass[u]
      BY DEF LedgerInv, TypeOK, CommitPass
    <2>2. \A u \in Passes, x \in Pairs : pass'[u].wrote[x] # None =>
              u # t /\ pass[u].wrote[x] # None /\ w[x] = None
      BY <2>1 DEF LedgerInv, WritesAreNew, NoPass
    <2> QED
      BY <1>4, <2>1, <2>2 DEF LedgerInv, WritesAreNew, CommitPass, Exists, NoPass
  <1>10. ApprovalsHold'
    <2>1. \A a \in Approvers : approver[a] # None =>
              approver[a].pair \in Pairs /\ w[approver[a].pair] = None
      BY <1>2 DEF LedgerInv, TypeOK, Approver, ApprovalsHold, Exists
    <2> QED
      BY <1>4, <2>1 DEF LedgerInv, CommitPass, ApprovalsHold
  <1> QED
    BY <1>6, <1>7, <1>8, <1>9, <1>10, CommitPassType DEF LedgerInv

\* An approval reads a run that is pending, so nothing has fired.
LEMMA LedgerReadApprove ==
    ASSUME LedgerInv, NEW a \in Approvers, NEW x \in Pairs, ReadApprove(a, x)
    PROVE  LedgerInv'
  <1>1. run[x] # None /\ fired[x] = 0
    BY NoneAssumption DEF LedgerInv, RunTellsTruth, ReadApprove, RunStatus
  <1>2. approver'[a].pair = x /\ \A b \in Approvers \ {a} : approver'[b] = approver[b]
    BY DEF LedgerInv, TypeOK, ReadApprove
  <1>3. ApprovalsHold'
    BY <1>1, <1>2 DEF LedgerInv, ApprovalsHold, ReadApprove
  <1>4. /\ RunsHaveRules' /\ UnrecordedUnfired' /\ RunTellsTruth'
        /\ FiresOnce' /\ WritesAreNew'
    BY DEF LedgerInv, ReadApprove, RunsHaveRules, UnrecordedUnfired, RunTellsTruth,
           FiresOnce, WritesAreNew, Exists
  <1> QED
    BY <1>3, <1>4, ReadApproveType DEF LedgerInv

\* An approval dispatches: it is the pair's only one, and no pass can insert
\* the pair while it has a run or its rule is gone.
LEMMA LedgerWriteApprove ==
    ASSUME LedgerInv, NEW a \in Approvers, WriteApprove(a)
    PROVE  LedgerInv'
  <1> DEFINE y == approver[a].pair
  <1>1. TypeOK' /\ y \in Pairs
    BY WriteApproveType DEF LedgerInv
  <1>2. /\ fired[y] = 0
        /\ run[y] # None \/ playbook[y[1]].state = "deleted"
        /\ \A b \in Approvers \ {a} : approver[b] # None => approver[b].pair # y
    BY DEF LedgerInv, ApprovalsHold, WriteApprove
  <1>3. /\ fired'[y] = 1
        /\ run'[y] = IF run[y] = None THEN None ELSE "executed"
        /\ \A x \in Pairs \ {y} : run'[x] = run[x] /\ fired'[x] = fired[x]
    BY <1>1, <1>2 DEF LedgerInv, TypeOK, WriteApprove
  <1>4. "executed" # None
    BY NoneAssumption DEF RunStatus
  <1>5. RunsHaveRules' /\ UnrecordedUnfired'
    BY <1>1, <1>2, <1>3, <1>4
       DEF LedgerInv, WriteApprove, RunsHaveRules, UnrecordedUnfired, Exists
  <1>6. RunTellsTruth' /\ FiresOnce'
    BY <1>1, <1>3, NoneAssumption DEF LedgerInv, RunTellsTruth, FiresOnce, RunStatus
  <1>7. WritesAreNew'
    BY <1>1, <1>2, <1>3 DEF LedgerInv, WriteApprove, WritesAreNew, Exists
  <1>8. ApprovalsHold'
    <2>1. \A b \in Approvers : approver'[b] # None =>
              b # a /\ approver'[b] = approver[b] /\ approver[b].pair \in Pairs \ {y}
      BY <1>2 DEF LedgerInv, TypeOK, WriteApprove, Approver
    <2> QED
      BY <1>3, <2>1 DEF LedgerInv, WriteApprove, ApprovalsHold
  <1> QED
    BY <1>1, <1>5, <1>6, <1>7, <1>8 DEF LedgerInv

LEMMA LedgerDismiss ==
    ASSUME LedgerInv, NEW x \in Pairs, Dismiss(x)
    PROVE  LedgerInv'
  <1>1. /\ run[x] # None
        /\ run'[x] = "dismissed" /\ "dismissed" # None
        /\ \A y \in Pairs \ {x} : run'[y] = run[y]
    BY NoneAssumption DEF LedgerInv, TypeOK, Dismiss, RunStatus
  <1>2. RunsHaveRules' /\ UnrecordedUnfired' /\ RunTellsTruth' /\ FiresOnce'
    BY <1>1 DEF LedgerInv, Dismiss, RunsHaveRules, UnrecordedUnfired, RunTellsTruth,
                FiresOnce, Exists
  <1>3. WritesAreNew'
    BY <1>1 DEF LedgerInv, Dismiss, WritesAreNew, Exists
  <1>4. ApprovalsHold'
    <2>1. \A a \in Approvers : approver[a] # None => approver[a].pair \in Pairs
      BY DEF LedgerInv, TypeOK, Approver
    <2> QED
      BY <1>1, <2>1 DEF LedgerInv, Dismiss, ApprovalsHold
  <1> QED
    BY <1>2, <1>3, <1>4, DismissType DEF LedgerInv

LEMMA LedgerStep == LedgerInv /\ [Next]_vars => LedgerInv'
  <1> SUFFICES ASSUME LedgerInv, [Next]_vars PROVE LedgerInv'
    OBVIOUS
  <1>0. TypeOK /\ TypeOK'
    BY TypeStep DEF LedgerInv
  <1>1. CASE \E p \in Playbooks :
                \/ \E email \in BOOLEAN : Create(p, email) \/ UpdateChannels(p, email)
                \/ \E s \in {"enabled", "disabled"} : Toggle(p, s)
    BY <1>0, <1>1, RulesType, LedgerRules
  <1>2. CASE \E p \in Playbooks : Delete(p)
    BY <1>2, LedgerDelete
  <1>3. ASSUME NEW t \in Passes, NEW mode \in Modes, NEW matches \in SUBSET Pairs,
               BeginPass(t, mode, matches)
        PROVE  LedgerInv'
    <2>1. \A u \in Passes : pass'[u].wrote = pass[u].wrote
      BY <1>0, <1>3 DEF TypeOK, Pass, BeginPass
    <2> QED
      BY <1>0, <1>3, <2>1, LedgerFrame DEF BeginPass
  <1>4. ASSUME NEW t \in Passes, NEW r \in pass[t].plan, Skip(t, r)
        PROVE  LedgerInv'
    <2>1. \A u \in Passes : pass'[u].wrote = pass[u].wrote
      BY <1>0, <1>4 DEF TypeOK, Pass, Skip
    <2> QED
      BY <1>0, <1>4, <2>1, LedgerFrame DEF Skip
  <1>5. CASE \E t \in Passes : \E r \in pass[t].plan : Fire(t, r)
    BY <1>5, LedgerFire
  <1>6. CASE \E t \in Passes : CommitPass(t)
    BY <1>6, LedgerCommit
  <1>7. ASSUME NEW t \in Passes, FailPass(t)
        PROVE  LedgerInv'
    <2>1. \A u \in Passes : pass'[u] = IF u = t THEN NoPass ELSE pass[u]
      BY <1>0, <1>7 DEF TypeOK, FailPass
    <2>2. \A x \in Pairs : NoPass.wrote[x] = None
      BY DEF NoPass
    <2> QED
      BY <1>0, <1>7, <2>1, <2>2, LedgerFrame DEF FailPass
  <1>8. CASE \E a \in Approvers, x \in Pairs : ReadApprove(a, x)
    BY <1>8, LedgerReadApprove
  <1>9. CASE \E a \in Approvers : WriteApprove(a)
    BY <1>9, LedgerWriteApprove
  <1>10. ASSUME NEW a \in Approvers, FailApprove(a)
         PROVE  LedgerInv'
    <2>1. \A b \in Approvers : approver'[b] \in {approver[b], None}
      BY <1>0, <1>10 DEF TypeOK, FailApprove
    <2> QED
      BY <1>0, <1>10, <2>1, LedgerFrame DEF FailApprove
  <1>11. CASE \E x \in Pairs : Dismiss(x)
    BY <1>11, LedgerDismiss
  <1>12. CASE \E k \in Ticks : BeginDelivery(k) \/ CommitDelivery(k) \/ CrashDelivery(k)
    BY <1>0, <1>12, LedgerFrame DEF BeginDelivery, CommitDelivery, CrashDelivery
  <1>13. CASE \E k \in Ticks, x \in Pairs, result \in {"sent", "failed", "skipped"} :
                Send(k, x, result)
    BY <1>0, <1>13, LedgerFrame DEF Send
  <1>14. CASE UNCHANGED vars
    BY <1>0, <1>14, LedgerFrame DEF vars
  <1> QED
    BY <1>1, <1>2, <1>3, <1>4, <1>5, <1>6, <1>7, <1>8, <1>9, <1>10, <1>11, <1>12, <1>13,
       <1>14 DEF Next

\* The invariant of the ledger.
LEMMA LedgerHolds == Spec => []LedgerInv
  BY InitLedgerInv, LedgerStep, PTL DEF Spec

\* A rule's action is dispatched at most once for a decision, for every
\* number of rules, decisions, passes, approvals and deliveries.
THEOREM FireOnce == Spec => []FiresOnce
  <1>1. LedgerInv => FiresOnce
    BY DEF LedgerInv
  <1> QED
    BY <1>1, LedgerHolds, PTL

\* The status of a run tells whether its action was dispatched.
THEOREM LedgerTellsTruth == Spec => []RunTellsTruth
  <1>1. LedgerInv => RunTellsTruth
    BY Zenon DEF LedgerInv
  <1> QED
    BY <1>1, LedgerHolds, PTL

\* Which steps write a run that is there, and what they write.
LEMMA ClosedStep ==
    ASSUME LedgerInv, [Next]_vars, NEW x \in Pairs, run[x] \in Closed
    PROVE  run'[x] \in Closed \cup {None}
  <1>0. run[x] # None /\ TypeOK
    BY NoneAssumption DEF Closed, RunStatus, LedgerInv
  <1>1. ASSUME NEW p \in Playbooks, Delete(p)
        PROVE  run'[x] \in Closed \cup {None}
    BY <1>1 DEF Delete
  <1>2. ASSUME NEW t \in Passes, CommitPass(t)
        PROVE  run'[x] \in Closed \cup {None}
    BY <1>0, <1>2 DEF LedgerInv, WritesAreNew, CommitPass
  <1>3. ASSUME NEW a \in Approvers, WriteApprove(a)
        PROVE  run'[x] \in Closed \cup {None}
    BY <1>0, <1>3 DEF TypeOK, WriteApprove, Closed
  <1>4. ASSUME NEW y \in Pairs, Dismiss(y)
        PROVE  run'[x] \in Closed \cup {None}
    BY <1>0, <1>4 DEF TypeOK, Dismiss, Closed
  <1>5. CASE UNCHANGED run
    BY <1>5
  <1> QED
    BY <1>1, <1>2, <1>3, <1>4, <1>5
       DEF Next, vars, Create, UpdateChannels, Toggle, SetPlaybook, BeginPass, Skip, Fire,
           Write, FailPass, ReadApprove, FailApprove, BeginDelivery, CommitDelivery,
           CrashDelivery, Send

\* A run that was decided is never open again.
THEOREM DecisionsStay == Spec => DecidedStaysDecided
  <1>1. LedgerInv /\ [Next]_vars =>
          [\A x \in Pairs : run[x] \in Closed => run'[x] \in Closed \cup {None}]_vars
    BY ClosedStep
  <1> QED
    BY <1>1, LedgerHolds, PTL DEF Spec, DecidedStaysDecided

-----------------------------------------------------------------------------
(* Messages *)

LEMMA InitMailInv == Init => MailInv
  <1> SUFFICES ASSUME Init PROVE MailInv
    OBVIOUS
  <1>1. PlansGoverned /\ WritesGoverned /\ DeliveriesHold
    BY NoneAssumption
       DEF Init, PlansGoverned, WritesGoverned, DeliveriesHold, NoPass, NoTick, EmailStatus
  <1>2. ExternalSendsApproved /\ SentWasSent
    BY NoneAssumption DEF Init, ExternalSendsApproved, SentWasSent, EmailStatus
  <1> QED
    BY <1>1, <1>2, InitTypeOK DEF MailInv

\* A step that leaves notifications and deliveries alone, keeps each rule's
\* action and writes and plans nothing new.
LEMMA MailFrame ==
    ASSUME MailInv, TypeOK', UNCHANGED <<note, approved, handed, tick>>,
           \A p \in Playbooks : playbook'[p].action = playbook[p].action,
           \A t \in Passes : pass'[t].plan \subseteq pass[t].plan,
           \A t \in Passes, x \in Pairs :
               pass'[t].wrote[x] # None => pass'[t].wrote[x] = pass[t].wrote[x]
    PROVE  MailInv'
  <1>1. PlansGoverned'
    <2>1. \A t \in Passes : \A r \in pass[t].plan : r.pair[1] \in Playbooks
      BY PairParts DEF MailInv, TypeOK, Pass, Planned
    <2> QED
      BY <2>1 DEF MailInv, PlansGoverned
  <1>2. WritesGoverned'
    BY PairParts DEF MailInv, WritesGoverned
  <1>3. DeliveriesHold' /\ ExternalSendsApproved' /\ SentWasSent'
    BY DEF MailInv, DeliveriesHold, ExternalSendsApproved, SentWasSent
  <1> QED
    BY <1>1, <1>2, <1>3 DEF MailInv

\* An evaluation plans no notification by email as automatic: the risk of an
\* email is high in every mode.
LEMMA MailBeginPass ==
    ASSUME MailInv, NEW t \in Passes, NEW mode \in Modes, NEW matches \in SUBSET Pairs,
           BeginPass(t, mode, matches)
    PROVE  MailInv'
  <1> DEFINE hits == {x \in matches : playbook[x[1]].state = "enabled"}
             planned(x) == [pair |-> x, verdict |-> Verdict(mode, x[1]),
                            email |-> playbook[x[1]].email]
             plan == {planned(x) : x \in hits}
  <1>1. mode \in {"recommend_only", "auto_with_approval", "autonomous"}
    BY DEF BeginPass, Modes
  <1>2. ASSUME NEW p \in Playbooks, playbook[p].action = "notify", playbook[p].email
        PROVE  Verdict(mode, p) # "auto"
    BY <1>1, <1>2 DEF Verdict, Risk
  <1>3. \A r \in plan :
            r.verdict = "auto" /\ playbook[r.pair[1]].action = "notify" => ~r.email
    <2>1. TAKE r \in plan
    <2>2. PICK x \in hits : r = planned(x)
      BY <2>1
    <2>3. r.pair = x /\ r.verdict = Verdict(mode, x[1]) /\ r.email = playbook[x[1]].email
      BY <2>2
    <2>4. x[1] \in Playbooks
      BY PairParts
    <2> QED
      BY <1>2, <2>3, <2>4
  <1>4. /\ pass'[t].plan = plan
        /\ \A u \in Passes \ {t} : pass'[u].plan = pass[u].plan
        /\ \A u \in Passes : pass'[u].wrote = pass[u].wrote
    <2> HIDE DEF plan
    <2>1. pass' = [pass EXCEPT ![t].plan = plan]
      BY DEF BeginPass, plan
    <2> QED
      BY <2>1 DEF MailInv, TypeOK, Pass
  <1>5. PlansGoverned'
    <2> HIDE DEF plan
    <2>1. ASSUME NEW u \in Passes, NEW r \in pass'[u].plan,
                 r.verdict = "auto", playbook[r.pair[1]].action = "notify"
          PROVE  ~r.email
      BY <1>3, <1>4, <2>1 DEF MailInv, PlansGoverned
    <2>2. playbook' = playbook
      BY DEF BeginPass
    <2> QED
      BY <2>1, <2>2 DEF PlansGoverned
  <1>6. WritesGoverned'
    BY <1>4 DEF MailInv, BeginPass, WritesGoverned
  <1>7. DeliveriesHold' /\ ExternalSendsApproved' /\ SentWasSent'
    BY DEF MailInv, BeginPass, DeliveriesHold, ExternalSendsApproved, SentWasSent
  <1> QED
    BY <1>5, <1>6, <1>7, BeginPassType DEF MailInv

\* A run that ends executed in its pass was planned as automatic.
LEMMA MailFire ==
    ASSUME MailInv, NEW t \in Passes, NEW r \in pass[t].plan, Fire(t, r)
    PROVE  MailInv'
  <1>1. TypeOK' /\ r \in Planned /\ r.pair \in Pairs /\ r.verdict \in Verdicts
    BY FireType DEF MailInv, Planned
  <1>2. PICK s \in Outcomes(r) : Write(t, r, s)
    BY DEF Fire
  <1>3. s = "executed" => r.verdict = "auto"
    BY <1>1, <1>2 DEF Outcomes, Verdicts
  <1>4. /\ \A u \in Passes : pass'[u].plan \subseteq pass[u].plan
        /\ \A u \in Passes, x \in Pairs :
              \/ pass'[u].wrote[x] = pass[u].wrote[x]
              \/ x = r.pair /\ pass'[u].wrote[x] = [status |-> s, email |-> r.email]
    BY <1>1, <1>2 DEF MailInv, TypeOK, Pass, Write
  <1>5. PlansGoverned'
    BY <1>2, <1>4 DEF MailInv, Write, PlansGoverned
  <1>6. WritesGoverned'
    BY <1>2, <1>3, <1>4 DEF MailInv, Write, PlansGoverned, WritesGoverned
  <1>7. DeliveriesHold' /\ ExternalSendsApproved' /\ SentWasSent'
    BY <1>2 DEF MailInv, Write, DeliveriesHold, ExternalSendsApproved, SentWasSent
  <1> QED
    BY <1>1, <1>5, <1>6, <1>7 DEF MailInv

\* What a pass enqueues is not pending by email.
LEMMA MailCommit ==
    ASSUME MailInv, NEW t \in Passes, CommitPass(t)
    PROVE  MailInv'
  <1>1. \A x \in Pairs : note'[x] = note[x] \/ note'[x] = "none"
    <2> SUFFICES ASSUME NEW x \in Pairs PROVE note'[x] = note[x] \/ note'[x] = "none"
      OBVIOUS
    <2> DEFINE w == pass[t].wrote
               enqueues == w[x] # None /\ w[x].status = "executed" /\ playbook[x[1]].action = "notify"
    <2>1. note'[x] = IF enqueues THEN Enqueued(note[x], w[x].email) ELSE note[x]
      BY DEF CommitPass
    <2>2. enqueues => ~w[x].email
      BY DEF MailInv, WritesGoverned
    <2>3. ASSUME ~w[x].email PROVE Enqueued(note[x], w[x].email) \in {note[x], "none"}
      BY <2>3 DEF Enqueued
    <2> QED
      BY <2>1, <2>2, <2>3
  <1>2. \A u \in Passes : pass'[u] = IF u = t THEN NoPass ELSE pass[u]
    BY DEF MailInv, TypeOK, CommitPass
  <1>3. PlansGoverned' /\ WritesGoverned'
    BY <1>2 DEF MailInv, CommitPass, PlansGoverned, WritesGoverned, NoPass
  <1>4. DeliveriesHold' /\ ExternalSendsApproved' /\ SentWasSent'
    BY <1>1 DEF MailInv, CommitPass, DeliveriesHold, ExternalSendsApproved, SentWasSent
  <1> QED
    BY <1>3, <1>4, CommitPassType DEF MailInv

LEMMA MailWriteApprove ==
    ASSUME MailInv, NEW a \in Approvers, WriteApprove(a)
    PROVE  MailInv'
  <1>1. TypeOK' /\ approver[a].pair \in Pairs
    BY WriteApproveType DEF MailInv
  <1>2. \A x \in Pairs : x # approver[a].pair => note'[x] = note[x]
    BY DEF MailInv, TypeOK, WriteApprove
  <1>3. note'[approver[a].pair] \in {note[approver[a].pair], "pending", "none"}
    BY <1>1 DEF MailInv, TypeOK, WriteApprove, Enqueued, Approver
  <1>4. PlansGoverned' /\ WritesGoverned'
    BY DEF MailInv, WriteApprove, PlansGoverned, WritesGoverned
  <1>5. DeliveriesHold' /\ ExternalSendsApproved' /\ SentWasSent'
    BY <1>1, <1>2, <1>3
       DEF MailInv, WriteApprove, DeliveriesHold, ExternalSendsApproved, SentWasSent
  <1> QED
    BY <1>1, <1>4, <1>5 DEF MailInv

\* A delivery reads pending notifications, which are approved.
LEMMA MailDelivery ==
    ASSUME MailInv, NEW k \in Ticks,
           BeginDelivery(k) \/ CommitDelivery(k) \/ CrashDelivery(k)
    PROVE  MailInv'
  <1>1. TypeOK' /\ UNCHANGED <<playbook, pass, approved, handed>>
    BY DeliveryType DEF MailInv, BeginDelivery, CommitDelivery, CrashDelivery
  <1>2. PlansGoverned' /\ WritesGoverned'
    BY <1>1 DEF MailInv, PlansGoverned, WritesGoverned
  <1>3. \A j \in Ticks, x \in Pairs :
            /\ x \in tick'[j].batch => x \in tick[j].batch \/ note[x] = "pending"
            /\ tick'[j].mark[x] \in {tick[j].mark[x], None}
    BY DEF MailInv, TypeOK, Tick, BeginDelivery, CommitDelivery, CrashDelivery, NoTick
  <1>4. DeliveriesHold'
    BY <1>1, <1>3, NoneAssumption
       DEF MailInv, DeliveriesHold, ExternalSendsApproved, EmailStatus
  <1>5. \A x \in Pairs : \/ note'[x] = note[x]
                         \/ /\ x \in tick[k].batch
                            /\ note'[x] = tick[k].mark[x]
    <2>1. CASE CommitDelivery(k)
      BY <2>1 DEF CommitDelivery
    <2>2. CASE BeginDelivery(k) \/ CrashDelivery(k)
      <3>1. note' = note
        BY <2>2 DEF BeginDelivery, CrashDelivery
      <3> QED
        BY <3>1
    <2> QED
      BY <2>1, <2>2
  <1>6. ExternalSendsApproved' /\ SentWasSent'
    BY <1>1, <1>5 DEF MailInv, DeliveriesHold, ExternalSendsApproved, SentWasSent
  <1> QED
    BY <1>1, <1>2, <1>4, <1>6 DEF MailInv

LEMMA MailSend ==
    ASSUME MailInv, NEW k \in Ticks, NEW x \in Pairs,
           NEW result \in {"sent", "failed", "skipped"}, Send(k, x, result)
    PROVE  MailInv'
  <1>1. PlansGoverned' /\ WritesGoverned'
    BY DEF MailInv, Send, PlansGoverned, WritesGoverned
  <1>2. /\ x \in approved
        /\ handed' \in {handed, handed \cup {x}}
        /\ StatusOf(result) = "sent" => x \in handed'
    BY DEF MailInv, DeliveriesHold, Send, StatusOf
  <1>3. \A j \in Ticks, y \in Pairs :
            /\ tick'[j].batch = tick[j].batch
            /\ \/ tick'[j].mark[y] = tick[j].mark[y]
               \/ y = x /\ tick'[j].mark[y] = StatusOf(result)
    BY DEF MailInv, TypeOK, Tick, Send
  <1>4. DeliveriesHold'
    BY <1>2, <1>3 DEF MailInv, Send, DeliveriesHold
  <1>5. ExternalSendsApproved' /\ SentWasSent'
    BY <1>2 DEF MailInv, Send, ExternalSendsApproved, SentWasSent
  <1> QED
    BY <1>1, <1>4, <1>5, SendType DEF MailInv

LEMMA MailStep == MailInv /\ [Next]_vars => MailInv'
  <1> SUFFICES ASSUME MailInv, [Next]_vars PROVE MailInv'
    OBVIOUS
  <1>0. TypeOK /\ TypeOK'
    BY TypeStep DEF MailInv
  <1>1. ASSUME NEW p \in Playbooks,
                \/ \E email \in BOOLEAN : Create(p, email) \/ UpdateChannels(p, email)
                \/ \E s \in {"enabled", "disabled"} : Toggle(p, s)
        PROVE  MailInv'
    <2>1. PICK row \in Playbook : SetPlaybook(p, row) /\ row.action = playbook[p].action
      BY <1>0, <1>1, RulesType
    <2>2. \A q \in Playbooks : playbook'[q].action = playbook[q].action
      BY <1>0, <2>1 DEF TypeOK, SetPlaybook
    <2> QED
      BY <1>0, <2>1, <2>2, MailFrame DEF SetPlaybook
  <1>2. ASSUME NEW p \in Playbooks, Delete(p)
        PROVE  MailInv'
    <2>1. \A q \in Playbooks : playbook'[q].action = playbook[q].action
      BY <1>0, <1>2 DEF TypeOK, Playbook, Delete
    <2> QED
      BY <1>0, <1>2, <2>1, MailFrame DEF Delete
  <1>3. CASE \E t \in Passes, mode \in Modes, matches \in SUBSET Pairs :
                BeginPass(t, mode, matches)
    BY <1>3, MailBeginPass
  <1>4. ASSUME NEW t \in Passes, NEW r \in pass[t].plan, Skip(t, r)
        PROVE  MailInv'
    <2>1. \A u \in Passes : /\ pass'[u].wrote = pass[u].wrote
                            /\ pass'[u].plan \subseteq pass[u].plan
      BY <1>0, <1>4 DEF TypeOK, Pass, Skip
    <2> QED
      BY <1>0, <1>4, <2>1, MailFrame DEF Skip
  <1>5. CASE \E t \in Passes : \E r \in pass[t].plan : Fire(t, r)
    BY <1>5, MailFire
  <1>6. CASE \E t \in Passes : CommitPass(t)
    BY <1>6, MailCommit
  <1>7. ASSUME NEW t \in Passes, FailPass(t)
        PROVE  MailInv'
    <2>1. \A u \in Passes : pass'[u] = IF u = t THEN NoPass ELSE pass[u]
      BY <1>0, <1>7 DEF TypeOK, FailPass
    <2>2. NoPass.plan = {} /\ \A x \in Pairs : NoPass.wrote[x] = None
      BY DEF NoPass
    <2> QED
      BY <1>0, <1>7, <2>1, <2>2, MailFrame DEF FailPass
  <1>8. CASE \E a \in Approvers : WriteApprove(a)
    BY <1>8, MailWriteApprove
  <1>9. CASE \/ \E a \in Approvers, x \in Pairs : ReadApprove(a, x)
             \/ \E a \in Approvers : FailApprove(a)
             \/ \E x \in Pairs : Dismiss(x)
    BY <1>0, <1>9, MailFrame DEF ReadApprove, FailApprove, Dismiss
  <1>10. CASE \E k \in Ticks : BeginDelivery(k) \/ CommitDelivery(k) \/ CrashDelivery(k)
    BY <1>10, MailDelivery
  <1>11. CASE \E k \in Ticks, x \in Pairs, result \in {"sent", "failed", "skipped"} :
                Send(k, x, result)
    BY <1>11, MailSend
  <1>12. CASE UNCHANGED vars
    BY <1>0, <1>12, MailFrame DEF vars
  <1> QED
    BY <1>1, <1>2, <1>3, <1>4, <1>5, <1>6, <1>7, <1>8, <1>9, <1>10, <1>11, <1>12 DEF Next

\* The invariant of the messages.
LEMMA MailHolds == Spec => []MailInv
  BY InitMailInv, MailStep, PTL DEF Spec

\* Nothing leaves the workspace without a human's approval, in any mode and
\* whatever is done to the rule meanwhile.
THEOREM SendsAreApproved == Spec => []ExternalSendsApproved
  <1>1. MailInv => ExternalSendsApproved
    BY DEF MailInv
  <1> QED
    BY <1>1, MailHolds, PTL

\* What is recorded as sent was handed to the relay.
THEOREM SentIsTrue == Spec => []SentWasSent
  <1>1. MailInv => SentWasSent
    BY DEF MailInv
  <1> QED
    BY <1>1, MailHolds, PTL

=============================================================================
