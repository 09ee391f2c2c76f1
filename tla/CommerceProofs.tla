--------------------------- MODULE CommerceProofs ---------------------------
(***************************************************************************)
(* What holds of what a partner asks money for, sells and reports, for all *)
(* sets of ids, numbers of editors and bounds: MDF requests, planned       *)
(* events and their rules, funding submissions, private offers, metering   *)
(* records, marketplace listings and opportunities.                        *)
(*                                                                         *)
(* The waterfall of an MDF request is not inductive: an operation writes   *)
(* an amount that it compared with a row it read earlier.  FundingInv adds *)
(* that a stage not yet reached has no amount, so a figure that a pending  *)
(* operation was compared with can no longer be written, and PendingFits,  *)
(* that pending amounts still fit.  The other parts are built alike: the   *)
(* invariant of a part says what a pending operation may rely on.          *)
(***************************************************************************)
EXTENDS MCRecords, FiniteSetTheorems, Integers, Sequences, TLAPS

-----------------------------------------------------------------------------
(* MDF requests *)

\* A stage that a status has not reached has no amount.
Unreached ==
    \A r \in Rows :
        LET a == request[r].amount
            s == request[r].status
        IN  /\ s \in {"draft", "requested", "rejected"} => a["approved"] = 0
            /\ s \in {"draft", "requested", "rejected", "approved"} => a["deployed"] = 0
            /\ s \in {"draft", "requested", "rejected", "approved", "deployed"}
                  => a["claimed"] = 0
            /\ s # "reimbursed" => a["reimbursed"] = 0

\* What a pending operation was compared with still holds.
Fits(o) ==
    LET a == request[o.request].amount
    IN  /\ o.kind # "idle" => o.request \in Rows
        /\ o.kind = "deployed" => o.amount <= a["approved"] /\ o.amount >= 1
        /\ o.kind = "claimed" => /\ o.amount <= a["deployed"] /\ o.amount >= 1
                                 /\ request[o.request].proof
        /\ o.kind = "reimbursed" => o.amount <= a["claimed"] /\ o.amount >= 1

PendingFits == \A t \in Editors : Fits(op[t])

FundingInv == TypeOK /\ Unreached /\ Waterfall /\ ClaimedHasProof /\ PendingFits

\* What a step may do to a row without disturbing pending operations: the
\* decided figures and the proof stay.
Keeps(old, new) ==
    /\ old.proof => new.proof
    /\ \A s \in {"approved", "deployed", "claimed"} :
          old.amount[s] > 0 => new.amount[s] = old.amount[s]

\* What holds of a row by itself.
RowInv(w) ==
    /\ w \in Row
    /\ w.status \in {"draft", "requested", "rejected"} => w.amount["approved"] = 0
    /\ w.status \in {"draft", "requested", "rejected", "approved"} => w.amount["deployed"] = 0
    /\ w.status \in {"draft", "requested", "rejected", "approved", "deployed"}
          => w.amount["claimed"] = 0
    /\ w.status # "reimbursed" => w.amount["reimbursed"] = 0
    /\ w.amount["reimbursed"] <= w.amount["claimed"]
    /\ w.amount["claimed"] <= w.amount["deployed"]
    /\ w.amount["deployed"] <= w.amount["approved"]
    /\ w.status \in {"claimed", "reimbursed"} => w.proof

\* What FollowsLifecycle asks of one row.
Follows(old, new) ==
    /\ \/ new.status = old.status
       \/ <<old.status, new.status>> \in Transitions
    /\ \A s \in Stages \ {"requested"} :
          old.amount[s] > 0 => new.amount[s] = old.amount[s]

\* A step on the table: every row that is there is as RowInv says, and a row
\* that was there has followed the lifecycle and kept its figures.
TableStep ==
    /\ request' \in [Requests -> Row \cup {None}]
    /\ \A r \in Requests : request'[r] # None => RowInv(request'[r])
    /\ \A r \in Rows : /\ request'[r] # None
                       /\ Keeps(request[r], request'[r])
                       /\ Follows(request[r], request'[r])

-----------------------------------------------------------------------------
(* Rows *)

\* The invariant, row by row.
LEMMA InvByRow ==
    FundingInv <=> /\ TypeOK /\ PendingFits
                   /\ \A r \in Rows : RowInv(request[r])
  <1>1. ASSUME TypeOK, NEW r \in Rows PROVE request[r] \in Row
    BY <1>1 DEF TypeOK, Rows
  <1> QED
    BY <1>1 DEF FundingInv, Unreached, Waterfall, ClaimedHasProof, RowInv

\* A row of a typed table is a record, and a record is not None.
LEMMA RowIsNotNone ==
    ASSUME NEW w \in Row PROVE w # None
  BY NoneRowAssumption

\* A row is a record of its four fields, and what EXCEPT makes of it is one
\* with the fields it names replaced.
LEMMA RowFields ==
    ASSUME NEW w \in Row
    PROVE  /\ w.status \in Statuses /\ w.ready \in BOOLEAN /\ w.proof \in BOOLEAN
           /\ w.amount \in [Stages -> Amounts]
           /\ \A s \in Stages : w.amount[s] \in Nat
  BY AmountAssumption DEF Row, Amounts

-----------------------------------------------------------------------------
(* Steps on one row *)

\* A draft has the asked amount and no other.
LEMMA DraftRow ==
    ASSUME NEW a \in Amounts
    PROVE  RowInv([status |-> "draft", ready |-> FALSE, proof |-> FALSE,
                   amount |-> [s \in Stages |-> IF s = "requested" THEN a ELSE 0]])
  BY AmountAssumption DEF RowInv, Row, Statuses, Stages, Amounts

\* WithAmount is a row of amounts that differs in one stage.
LEMMA AmountFields ==
    ASSUME NEW w \in Row, NEW s \in Stages, NEW a \in Amounts
    PROVE  /\ WithAmount(w, s, a) \in [Stages -> Amounts]
           /\ WithAmount(w, s, a)[s] = a
           /\ \A x \in Stages \ {s} : WithAmount(w, s, a)[x] = w.amount[x]
  <1>1. w.amount \in [Stages -> Amounts]
    BY DEF Row
  <1> QED
    BY <1>1 DEF WithAmount

\* What an edit does to the fields of a row.
LEMMA EditedFields ==
    ASSUME NEW w \in Row, NEW a \in Amounts, NEW y \in BOOLEAN
    PROVE  LET v == Edited(w, a, y)
           IN  /\ v \in Row
               /\ v.status = w.status /\ v.proof = w.proof
               /\ \A s \in Stages \ {"requested"} : v.amount[s] = w.amount[s]
  <1> DEFINE b == WithAmount(w, "requested", a)
  <1>1. b \in [Stages -> Amounts] /\ \A x \in Stages \ {"requested"} : b[x] = w.amount[x]
    BY AmountFields DEF Stages
  <1>2. Edited(w, a, y) = [w EXCEPT !.ready = y, !.amount = b]
    BY DEF Edited
  <1> HIDE DEF b
  <1>3. /\ [w EXCEPT !.ready = y, !.amount = b] \in Row
        /\ [w EXCEPT !.ready = y, !.amount = b].status = w.status
        /\ [w EXCEPT !.ready = y, !.amount = b].proof = w.proof
        /\ [w EXCEPT !.ready = y, !.amount = b].amount = b
    BY <1>1 DEF Row
  <1> QED
    BY <1>1, <1>2, <1>3

\* What reaching a stage does to the fields of a row.
LEMMA ReachedFields ==
    ASSUME NEW w \in Row, NEW s \in Stages, NEW a \in Amounts
    PROVE  LET v == Reached(w, s, a)
           IN  /\ v \in Row
               /\ v.status = s /\ v.proof = w.proof /\ v.amount[s] = a
               /\ \A x \in Stages \ {s} : v.amount[x] = w.amount[x]
  <1> DEFINE b == WithAmount(w, s, a)
  <1>1. /\ b \in [Stages -> Amounts] /\ b[s] = a
        /\ \A x \in Stages \ {s} : b[x] = w.amount[x]
    BY AmountFields
  <1>2. Reached(w, s, a) = [w EXCEPT !.status = s, !.amount = b]
    BY DEF Reached
  <1>3. s \in Statuses
    BY DEF Statuses
  <1> HIDE DEF b
  <1>4. /\ [w EXCEPT !.status = s, !.amount = b] \in Row
        /\ [w EXCEPT !.status = s, !.amount = b].status = s
        /\ [w EXCEPT !.status = s, !.amount = b].proof = w.proof
        /\ [w EXCEPT !.status = s, !.amount = b].amount = b
    BY <1>1, <1>3 DEF Row
  <1> QED
    BY <1>1, <1>2, <1>4

\* An edit keeps all that the invariant speaks of.
LEMMA EditRow ==
    ASSUME NEW w \in Row, RowInv(w), NEW v \in Row,
           v.status = w.status, v.proof = w.proof,
           \A s \in Stages \ {"requested"} : v.amount[s] = w.amount[s]
    PROVE  RowInv(v) /\ Keeps(w, v) /\ Follows(w, v)
  <1>1. RowInv(v)
    BY DEF RowInv, Stages
  <1>2. Keeps(w, v)
    BY DEF Keeps, Stages
  <1>3. Follows(w, v)
    BY DEF Follows
  <1> QED
    BY <1>1, <1>2, <1>3

\* A change of the status alone.
LEMMA StatusRow ==
    ASSUME NEW w, RowInv(w), NEW s \in Statuses,
           <<w.status, s>> \in {<<"draft", "requested">>, <<"requested", "rejected">>},
           NEW v, v = [w EXCEPT !.status = s]
    PROVE  RowInv(v) /\ Keeps(w, v) /\ Follows(w, v)
  <1>1. w \in Row
    BY DEF RowInv
  <1>2. v \in Row
    BY <1>1 DEF Row
  <1>3. v.status = s /\ v.proof = w.proof /\ v.amount = w.amount
    BY <1>1 DEF Row
  <1>4. RowInv(v)
    BY <1>2, <1>3 DEF RowInv
  <1>5. Keeps(w, v) /\ Follows(w, v)
    BY <1>3 DEF Keeps, Follows, Transitions
  <1> QED
    BY <1>4, <1>5

\* Advancing to a stage from the status before, with an amount that fits.
LEMMA AdvanceRow ==
    ASSUME NEW w \in Row, RowInv(w), NEW s \in Stages \ {"requested"},
           <<w.status, s>> \in Transitions, NEW a \in Amounts,
           s = "deployed" => a <= w.amount["approved"],
           s = "claimed" => a <= w.amount["deployed"] /\ w.proof,
           s = "reimbursed" => a <= w.amount["claimed"],
           NEW v \in Row, v.status = s, v.proof = w.proof, v.amount[s] = a,
           \A x \in Stages \ {s} : v.amount[x] = w.amount[x]
    PROVE  RowInv(v) /\ Keeps(w, v) /\ Follows(w, v)
  <1>4. \A x \in Stages : w.amount[x] \in Nat /\ v.amount[x] \in Nat
    BY RowFields
  <1>5. CASE s = "approved"
    <2>1. w.status = "requested"
      BY <1>5 DEF Transitions, Stages
    <2> QED
      BY <1>4, <1>5, <2>1 DEF RowInv, Keeps, Follows, Stages, Transitions
  <1>6. CASE s = "deployed"
    <2>1. w.status = "approved"
      BY <1>6 DEF Transitions, Stages
    <2> QED
      BY <1>4, <1>6, <2>1 DEF RowInv, Keeps, Follows, Stages, Transitions
  <1>7. CASE s = "claimed"
    <2>1. w.status = "deployed"
      BY <1>7 DEF Transitions, Stages
    <2> QED
      BY <1>4, <1>7, <2>1 DEF RowInv, Keeps, Follows, Stages, Transitions
  <1>8. CASE s = "reimbursed"
    <2>1. w.status = "claimed"
      BY <1>8 DEF Transitions, Stages
    <2> QED
      BY <1>4, <1>8, <2>1 DEF RowInv, Keeps, Follows, Stages, Transitions
  <1> QED
    BY <1>5, <1>6, <1>7, <1>8 DEF Stages

-----------------------------------------------------------------------------
(* Steps on the table *)

\* A row that stays as it is follows the lifecycle.
LEMMA SameRow ==
    ASSUME NEW w PROVE Keeps(w, w) /\ Follows(w, w)
  BY DEF Keeps, Follows

\* A step that leaves the table alone.
LEMMA SameTable ==
    ASSUME FundingInv, UNCHANGED request
    PROVE  TableStep
  <1>1. request \in [Requests -> Row \cup {None}]
    BY DEF FundingInv, TypeOK
  <1>2. \A r \in Rows : RowInv(request[r])
    BY InvByRow
  <1> QED
    BY <1>1, <1>2, SameRow DEF TableStep, Rows

\* A step that replaces rows of the table by rows that follow from them.
LEMMA ChangedRows ==
    ASSUME FundingInv, NEW hit \in SUBSET Rows, NEW f,
           \A r \in hit : /\ f[r] \in Row /\ RowInv(f[r])
                          /\ Keeps(request[r], f[r]) /\ Follows(request[r], f[r]),
           request' = [r \in Requests |-> IF r \in hit THEN f[r] ELSE request[r]]
    PROVE  TableStep
  <1>1. request \in [Requests -> Row \cup {None}]
    BY DEF FundingInv, TypeOK
  <1>2. \A r \in Rows : RowInv(request[r])
    BY InvByRow
  <1>3. hit \subseteq Requests
    BY DEF Rows
  <1>4. ASSUME NEW r \in hit
        PROVE  request'[r] = f[r] /\ request'[r] # None
    BY <1>3, <1>4, RowIsNotNone
  <1>5. ASSUME NEW r \in Requests \ hit PROVE request'[r] = request[r]
    BY <1>5
  <1>6. request' \in [Requests -> Row \cup {None}]
    BY <1>1, <1>3
  <1>7. ASSUME NEW r \in Requests, request'[r] # None PROVE RowInv(request'[r])
    BY <1>2, <1>4, <1>5, <1>7 DEF Rows
  <1>8. ASSUME NEW r \in Rows
        PROVE  /\ request'[r] # None
               /\ Keeps(request[r], request'[r])
               /\ Follows(request[r], request'[r])
    BY <1>4, <1>5, SameRow DEF Rows
  <1> QED
    BY <1>6, <1>7, <1>8 DEF TableStep

\* The same of one row.
LEMMA ChangedRow ==
    ASSUME FundingInv, NEW r \in Rows, NEW v \in Row, RowInv(v),
           Keeps(request[r], v), Follows(request[r], v),
           request' = [request EXCEPT ![r] = v]
    PROVE  TableStep
  <1> DEFINE f == [x \in Requests |-> v]
  <1>1. request' = [x \in Requests |-> IF x \in {r} THEN f[x] ELSE request[x]]
    BY DEF FundingInv, TypeOK
  <1>2. f[r] = v
    BY DEF Rows
  <1> HIDE DEF f
  <1>3. \A x \in {r} : /\ f[x] \in Row /\ RowInv(f[x])
                       /\ Keeps(request[x], f[x]) /\ Follows(request[x], f[x])
    BY <1>2
  <1>4. {r} \in SUBSET Rows
    OBVIOUS
  <1> QED
    BY <1>1, <1>3, <1>4, ChangedRows

\* What a pending operation was compared with outlives a step on the table.
LEMMA FitsSurvives ==
    ASSUME FundingInv, TableStep, NEW o \in Op, Fits(o)
    PROVE  Fits(o)'
  <1>1. CASE o.kind = "idle"
    BY <1>1 DEF Fits
  <1>2. CASE o.kind # "idle"
    <2> DEFINE w == request[o.request]
               v == request'[o.request]
    <2>1. o.request \in Rows
      BY <1>2 DEF Fits
    <2>2. (o.request \in Rows)' /\ Keeps(w, v)
      BY <2>1 DEF TableStep, Rows
    <2>3. w \in Row /\ v \in Row
      BY <2>1, <2>2 DEF FundingInv, TypeOK, TableStep, Rows
    <2>4. \A s \in Stages : w.amount[s] \in Nat /\ v.amount[s] \in Nat
      BY <2>3, RowFields
    <2>5. o.amount \in Nat
      BY AmountAssumption DEF Op, Amounts
    <2>6. /\ o.kind = "deployed" => o.amount <= w.amount["approved"] /\ o.amount >= 1
          /\ o.kind = "claimed" => /\ o.amount <= w.amount["deployed"] /\ o.amount >= 1
                                   /\ w.proof
          /\ o.kind = "reimbursed" => o.amount <= w.amount["claimed"] /\ o.amount >= 1
      BY DEF Fits
    <2>7. /\ o.kind = "deployed" => o.amount <= v.amount["approved"] /\ o.amount >= 1
          /\ o.kind = "claimed" => /\ o.amount <= v.amount["deployed"] /\ o.amount >= 1
                                   /\ v.proof
          /\ o.kind = "reimbursed" => o.amount <= v.amount["claimed"] /\ o.amount >= 1
      <3> HIDE DEF w, v
      <3> QED
        BY <2>2, <2>4, <2>5, <2>6 DEF Keeps, Stages
    <2> QED
      BY <1>2, <2>2, <2>7 DEF Fits
  <1> QED
    BY <1>1, <1>2

-----------------------------------------------------------------------------
(* The operations *)

\* Reads leave the table alone; what they have read fits.
LEMMA ReadFits ==
    ASSUME FundingInv, NEW t \in Editors, NEW o \in Op, Fits(o), Read(t, o)
    PROVE  TableStep /\ op' \in [Editors -> Op] /\ PendingFits'
  <1>1. TableStep /\ UNCHANGED request
    BY SameTable DEF Read
  <1>2. op \in [Editors -> Op] /\ PendingFits
    BY DEF FundingInv, TypeOK
  <1>3. op' = [op EXCEPT ![t] = o]
    BY DEF Read
  <1>4. op' \in [Editors -> Op]
    BY <1>2, <1>3
  <1>5. \A s \in Editors : Fits(op[s])
    BY <1>2 DEF PendingFits
  <1>6. ASSUME NEW s \in Editors PROVE Fits(op'[s])
    BY <1>2, <1>3, <1>5
  <1>7. ASSUME NEW s \in Editors PROVE Fits(op[s])'
    <2>1. Fits(op'[s])
      BY <1>6
    <2> QED
      BY <2>1, <1>1 DEF Fits, Rows
  <1> QED
    BY <1>1, <1>4, <1>7 DEF PendingFits

\* An operation that finishes no longer has to fit, and the others still do.
LEMMA FinishFits ==
    ASSUME FundingInv, TableStep, NEW t \in Editors, op' = [op EXCEPT ![t] = Idle]
    PROVE  op' \in [Editors -> Op] /\ PendingFits'
  <1>1. op \in [Editors -> Op] /\ \A s \in Editors : Fits(op[s])
    BY DEF FundingInv, TypeOK, PendingFits
  <1>2. Idle \in Op
    BY AmountAssumption DEF Idle, Op, Amounts
  <1>3. op' \in [Editors -> Op]
    BY <1>1, <1>2
  <1>4. Fits(Idle)
    BY DEF Fits, Idle
  <1>5. ASSUME NEW s \in Editors PROVE Fits(op[s])'
    <2>1. op'[s] \in Op /\ Fits(op'[s])
      BY <1>1, <1>2, <1>4
    <2>2. \A o \in Op : Fits(o) => Fits(o)'
      BY FitsSurvives
    <2> QED
      BY <2>1, <2>2 DEF Fits, Rows
  <1> QED
    BY <1>3, <1>5 DEF PendingFits

\* What a step must do for the invariant and the lifecycle.
StepGood == TableStep /\ op' \in [Editors -> Op] /\ PendingFits'

\* Steps that change the table and leave the operations alone.
LEMMA TableOnly ==
    ASSUME FundingInv, TableStep, UNCHANGED op
    PROVE  StepGood
  <1>1. op \in [Editors -> Op] /\ \A s \in Editors : Fits(op[s])
    BY DEF FundingInv, TypeOK, PendingFits
  <1>2. \A o \in Op : Fits(o) => Fits(o)'
    BY FitsSurvives
  <1>3. ASSUME NEW s \in Editors PROVE Fits(op[s])'
    BY <1>1, <1>2 DEF Fits, Rows
  <1> QED
    BY <1>1, <1>3 DEF PendingFits, StepGood

\* A new draft.
LEMMA CreateGood ==
    ASSUME FundingInv, NEW r \in Requests, NEW a \in Amounts, Create(r, a)
    PROVE  StepGood
  <1> DEFINE v == [status |-> "draft", ready |-> FALSE, proof |-> FALSE,
                   amount |-> [s \in Stages |-> IF s = "requested" THEN a ELSE 0]]
  <1>1. RowInv(v) /\ v \in Row
    <2>1. RowInv(v)
      BY DraftRow
    <2> QED
      BY <2>1 DEF RowInv
  <1>2. request' = [request EXCEPT ![r] = v] /\ UNCHANGED op /\ r \notin Rows
    BY DEF Create
  <1> HIDE DEF v
  <1>3. request \in [Requests -> Row \cup {None}] /\ \A x \in Rows : RowInv(request[x])
    BY InvByRow DEF FundingInv, TypeOK
  <1>4. request' \in [Requests -> Row \cup {None}]
    BY <1>1, <1>2, <1>3
  <1>5. ASSUME NEW x \in Requests, request'[x] # None PROVE RowInv(request'[x])
    BY <1>1, <1>2, <1>3, <1>5 DEF Rows
  <1>6. ASSUME NEW x \in Rows
        PROVE  /\ request'[x] # None
               /\ Keeps(request[x], request'[x])
               /\ Follows(request[x], request'[x])
    BY <1>2, <1>3, SameRow DEF Rows
  <1>7. TableStep
    BY <1>4, <1>5, <1>6 DEF TableStep
  <1> QED
    BY <1>2, <1>7, TableOnly

\* The update of an edit.
LEMMA WriteEditGood ==
    ASSUME FundingInv, NEW t \in Editors, WriteEdit(t)
    PROVE  StepGood
  <1> DEFINE r == op[t].request
             v == Edited(request[r], op[t].amount, op[t].ready)
  <1>1. op[t] \in Op /\ Fits(op[t]) /\ op[t].kind = "edit"
    BY DEF FundingInv, TypeOK, PendingFits, WriteEdit
  <1>2. r \in Rows /\ request[r] \in Row /\ RowInv(request[r])
    BY <1>1, InvByRow DEF Fits, RowInv
  <1>3. op[t].amount \in Amounts /\ op[t].ready \in BOOLEAN
    BY <1>1 DEF Op
  <1>4. /\ v \in Row
        /\ v.status = request[r].status /\ v.proof = request[r].proof
        /\ \A s \in Stages \ {"requested"} : v.amount[s] = request[r].amount[s]
    BY <1>2, <1>3, EditedFields
  <1>5. request' = [request EXCEPT ![r] = v] /\ op' = [op EXCEPT ![t] = Idle]
    BY DEF WriteEdit
  <1> HIDE DEF v
  <1>6. RowInv(v) /\ Keeps(request[r], v) /\ Follows(request[r], v)
    BY <1>2, <1>4, EditRow
  <1>7. TableStep
    BY <1>2, <1>4, <1>5, <1>6, ChangedRow
  <1> QED
    BY <1>5, <1>7, FinishFits DEF StepGood

\* The update of a submission.
LEMMA WriteSubmitGood ==
    ASSUME FundingInv, NEW t \in Editors, WriteSubmit(t)
    PROVE  StepGood
  <1> DEFINE r == op[t].request
             v == [request[r] EXCEPT !.status = "requested"]
  <1>1. op[t] \in Op /\ Fits(op[t]) /\ op[t].kind = "requested"
    BY DEF FundingInv, TypeOK, PendingFits, WriteSubmit
  <1>2. r \in Rows /\ request[r] \in Row /\ RowInv(request[r]) /\ request \in [Requests -> Row \cup {None}]
    BY <1>1, InvByRow DEF Fits, RowInv, FundingInv, TypeOK
  <1>3. request[r].status = "draft" /\ op' = [op EXCEPT ![t] = Idle]
    BY DEF WriteSubmit
  <1>4. request' = [request EXCEPT ![r] = v]
    BY <1>2 DEF WriteSubmit
  <1>5. RowInv(v) /\ Keeps(request[r], v) /\ Follows(request[r], v)
    BY <1>2, <1>3, StatusRow DEF Statuses, Stages
  <1>6. v \in Row
    BY <1>5 DEF RowInv
  <1> HIDE DEF v
  <1>7. TableStep
    BY <1>2, <1>4, <1>5, <1>6, ChangedRow
  <1> QED
    BY <1>3, <1>7, FinishFits DEF StepGood

\* The update of a later stage: the amount that fitted when it was read fits.
LEMMA AdvanceGood ==
    ASSUME FundingInv, NEW t \in Editors, Advance(t)
    PROVE  StepGood
  <1> DEFINE r == op[t].request
             s == op[t].kind
             v == Reached(request[r], s, op[t].amount)
  <1>1. op[t] \in Op /\ Fits(op[t]) /\ s \in Stages \ {"requested"}
    BY DEF FundingInv, TypeOK, PendingFits, Advance
  <1>2. r \in Rows /\ request[r] \in Row /\ RowInv(request[r])
    BY <1>1, InvByRow DEF Fits, RowInv, Stages
  <1>3. op[t].amount \in Amounts
    BY <1>1 DEF Op
  <1>4. /\ <<request[r].status, s>> \in Transitions
        /\ request' = [request EXCEPT ![r] = v]
        /\ op' = [op EXCEPT ![t] = Idle]
    BY DEF Advance
  <1>5. /\ v \in Row /\ v.status = s /\ v.proof = request[r].proof
        /\ v.amount[s] = op[t].amount
        /\ \A x \in Stages \ {s} : v.amount[x] = request[r].amount[x]
    BY <1>1, <1>2, <1>3, ReachedFields
  <1>6. /\ s = "deployed" => op[t].amount <= request[r].amount["approved"]
        /\ s = "claimed" => op[t].amount <= request[r].amount["deployed"] /\ request[r].proof
        /\ s = "reimbursed" => op[t].amount <= request[r].amount["claimed"]
    BY <1>1 DEF Fits
  <1> HIDE DEF v, s, r
  <1>7. RowInv(v) /\ Keeps(request[r], v) /\ Follows(request[r], v)
    BY <1>1, <1>2, <1>3, <1>4, <1>5, <1>6, AdvanceRow
  <1>8. TableStep
    BY <1>2, <1>4, <1>5, <1>7, ChangedRow
  <1> QED
    BY <1>4, <1>8, FinishFits DEF StepGood

\* A rejection, of one row or in bulk.
LEMMA RejectGood ==
    ASSUME FundingInv, NEW rs \in SUBSET Requests, Reject(rs)
    PROVE  StepGood
  <1> DEFINE hit == {r \in rs \cap Rows : request[r].status = "requested"}
             f == [r \in Requests |-> [request[r] EXCEPT !.status = "rejected"]]
  <1>1. ASSUME NEW r \in hit
        PROVE  /\ f[r] \in Row /\ RowInv(f[r])
               /\ Keeps(request[r], f[r]) /\ Follows(request[r], f[r])
    <2>1. RowInv(request[r]) /\ request[r].status = "requested"
      BY InvByRow
    <2>2. f[r] = [request[r] EXCEPT !.status = "rejected"]
      BY DEF Rows
    <2>3. RowInv(f[r]) /\ Keeps(request[r], f[r]) /\ Follows(request[r], f[r])
      BY <2>1, <2>2, StatusRow DEF Statuses, Stages
    <2> QED
      BY <2>3 DEF RowInv
  <1>2. request' = [r \in Requests |-> IF r \in hit THEN f[r] ELSE request[r]] /\ UNCHANGED op
    BY DEF Reject
  <1>3. hit \in SUBSET Rows
    OBVIOUS
  <1> HIDE DEF hit, f
  <1>4. TableStep
    BY <1>1, <1>2, <1>3, ChangedRows
  <1> QED
    BY <1>2, <1>4, TableOnly

\* A bulk approval at the full ask.
LEMMA BulkApproveGood ==
    ASSUME FundingInv, NEW rs \in SUBSET Requests, BulkApprove(rs)
    PROVE  StepGood
  <1> DEFINE hit == {r \in rs \cap Rows : request[r].status = "requested"}
             f == [r \in Requests |->
                      Reached(request[r], "approved", request[r].amount["requested"])]
  <1>1. ASSUME NEW r \in hit
        PROVE  /\ f[r] \in Row /\ RowInv(f[r])
               /\ Keeps(request[r], f[r]) /\ Follows(request[r], f[r])
    <2> DEFINE w == request[r]
               a == request[r].amount["requested"]
               v == f[r]
    <2>1. RowInv(w) /\ w \in Row /\ w.status = "requested"
      BY InvByRow DEF RowInv
    <2>2. a \in Amounts
      BY <2>1 DEF Row, Stages
    <2>3. v = Reached(w, "approved", a)
      BY DEF Rows
    <2>4. <<w.status, "approved">> \in Transitions /\ "approved" \in Stages \ {"requested"}
      BY <2>1 DEF Transitions, Stages
    <2> HIDE DEF w, a, v
    <2>5. /\ v \in Row /\ v.status = "approved" /\ v.proof = w.proof
          /\ v.amount["approved"] = a
          /\ \A x \in Stages \ {"approved"} : v.amount[x] = w.amount[x]
      BY <2>1, <2>2, <2>3, <2>4, ReachedFields
    <2>6. RowInv(v) /\ Keeps(w, v) /\ Follows(w, v)
      BY <2>1, <2>2, <2>4, <2>5, AdvanceRow
    <2> QED
      BY <2>5, <2>6 DEF v, w
  <1>2. request' = [r \in Requests |-> IF r \in hit THEN f[r] ELSE request[r]] /\ UNCHANGED op
    BY DEF BulkApprove
  <1>3. hit \in SUBSET Rows
    OBVIOUS
  <1> HIDE DEF hit, f
  <1>4. TableStep
    BY <1>1, <1>2, <1>3, ChangedRows
  <1> QED
    BY <1>2, <1>4, TableOnly

\* The proof is linked.
LEMMA StageProofGood ==
    ASSUME FundingInv, NEW r \in Requests, StageProof(r)
    PROVE  StepGood
  <1> DEFINE w == request[r]
             v == [request[r] EXCEPT !.proof = TRUE]
  <1>1. r \in Rows /\ request \in [Requests -> Row \cup {None}] /\ RowInv(w) /\ w \in Row
    BY InvByRow DEF StageProof, FundingInv, TypeOK, RowInv
  <1>2. request' = [request EXCEPT ![r] = v] /\ UNCHANGED op
    BY <1>1 DEF StageProof
  <1>3. v \in Row /\ v.status = w.status /\ v.amount = w.amount /\ v.proof = TRUE
    BY <1>1 DEF Row
  <1> HIDE DEF w, v
  <1>4. RowInv(v)
    BY <1>1, <1>3 DEF RowInv
  <1>5. Keeps(w, v) /\ Follows(w, v)
    BY <1>3 DEF Keeps, Follows
  <1>6. TableStep
    BY <1>1, <1>2, <1>3, <1>4, <1>5, ChangedRow DEF w
  <1> QED
    BY <1>2, <1>6, TableOnly

-----------------------------------------------------------------------------
(* The invariant *)

\* A read keeps what it was made of.
LEMMA ReadGood ==
    ASSUME FundingInv, NEW t \in Editors, NEW o \in Op, Fits(o), Read(t, o)
    PROVE  StepGood
  BY ReadFits DEF StepGood

\* What a transition remembers.
LEMMA PendingFields ==
    ASSUME NEW k \in Stages, NEW r \in Requests, NEW a \in Amounts
    PROVE  /\ Pending(k, r, a) \in Op
           /\ Pending(k, r, a).kind = k
           /\ Pending(k, r, a).request = r
           /\ Pending(k, r, a).amount = a
  BY DEF Pending, Op

\* The read of a stage: the amount is at most the amount of the stage before.
LEMMA ReadStageGood ==
    ASSUME FundingInv, NEW t \in Editors, NEW r \in Requests, NEW a \in Amounts,
           NEW before \in Stages, NEW s \in Stages,
           ReadStage(t, r, before, s, a),
           <<before, s>> \in {<<"requested", "approved">>, <<"approved", "deployed">>,
                              <<"deployed", "claimed">>, <<"claimed", "reimbursed">>},
           s = "claimed" => request[r].proof
    PROVE  StepGood
  <1> DEFINE o == Pending(s, r, a)
  <1>1. o \in Op /\ o.kind = s /\ o.request = r /\ o.amount = a
    BY PendingFields
  <1>2. r \in Rows /\ a \in 1..request[r].amount[before] /\ Read(t, o)
    BY DEF ReadStage
  <1> HIDE DEF o
  <1>3. request[r].amount[before] \in Nat
    BY <1>2, RowFields DEF FundingInv, TypeOK, Rows
  <1>4. a >= 1 /\ a <= request[r].amount[before]
    BY <1>2, <1>3
  <1>5. Fits(o)
    BY <1>1, <1>2, <1>4 DEF Fits
  <1> QED
    BY <1>1, <1>2, <1>5, ReadGood

\* Every step of the system.
LEMMA NextGood == FundingInv /\ [Next]_vars => StepGood
  <1> SUFFICES ASSUME FundingInv, [Next]_vars PROVE StepGood
    OBVIOUS
  <1>1. ASSUME NEW r \in Requests, NEW a \in Amounts, Create(r, a) PROVE StepGood
    BY <1>1, CreateGood
  <1>2. ASSUME NEW t \in Editors, Edit(t) PROVE StepGood
    <2>1. ASSUME NEW r \in Requests, NEW a \in Amounts, NEW y \in BOOLEAN,
                 ReadEdit(t, r, a, y)
          PROVE  StepGood
      <3> DEFINE o == [kind |-> "edit", request |-> r, amount |-> a, ready |-> y]
      <3>1. r \in Rows /\ Read(t, o)
        BY <2>1 DEF ReadEdit
      <3>2. o \in Op /\ Fits(o)
        BY <3>1 DEF Op, Fits
      <3> QED
        BY <3>1, <3>2, ReadGood
    <2> QED
      BY <1>2, <2>1, WriteEditGood DEF Edit
  <1>3. ASSUME NEW t \in Editors, Transition(t) PROVE StepGood
    <2>1. ASSUME NEW r \in Requests, ReadSubmit(t, r) PROVE StepGood
      <3> DEFINE o == Pending("requested", r, 0)
      <3>1. r \in Rows /\ Read(t, o)
        BY <2>1 DEF ReadSubmit
      <3>2. o \in Op /\ o.kind = "requested" /\ o.request = r
        <4>1. "requested" \in Stages /\ 0 \in Amounts
          BY AmountAssumption DEF Stages, Amounts
        <4> QED
          BY <4>1, PendingFields
      <3> HIDE DEF o
      <3>3. Fits(o)
        BY <3>1, <3>2 DEF Fits
      <3> QED
        BY <3>1, <3>2, <3>3, ReadGood
    <2>2. ASSUME NEW r \in Requests, NEW a \in Amounts, ReadApprove(t, r, a) PROVE StepGood
      BY <2>2, ReadStageGood DEF ReadApprove, Stages
    <2>3. ASSUME NEW r \in Requests, NEW a \in Amounts, ReadDeploy(t, r, a) PROVE StepGood
      BY <2>3, ReadStageGood DEF ReadDeploy, Stages
    <2>4. ASSUME NEW r \in Requests, NEW a \in Amounts, ReadClaim(t, r, a) PROVE StepGood
      BY <2>4, ReadStageGood DEF ReadClaim, Stages
    <2>5. ASSUME NEW r \in Requests, NEW a \in Amounts, ReadReimburse(t, r, a) PROVE StepGood
      BY <2>5, ReadStageGood DEF ReadReimburse, Stages
    <2> QED
      BY <1>3, <2>1, <2>2, <2>3, <2>4, <2>5, WriteSubmitGood, AdvanceGood DEF Transition
  <1>4. ASSUME NEW t \in Editors, Abort(t) PROVE StepGood
    BY <1>4, SameTable, FinishFits DEF Abort, StepGood
  <1>5. ASSUME NEW rs \in SUBSET Requests, Reject(rs) \/ BulkApprove(rs) PROVE StepGood
    BY <1>5, RejectGood, BulkApproveGood
  <1>6. ASSUME NEW r \in Requests, StageProof(r) PROVE StepGood
    BY <1>6, StageProofGood
  <1>7. CASE UNCHANGED vars
    BY <1>7, SameTable, TableOnly DEF vars
  <1> QED
    BY <1>1, <1>2, <1>3, <1>4, <1>5, <1>6, <1>7 DEF Next

\* The table starts empty with nothing pending.
LEMMA InitInv == Init => FundingInv
  <1> SUFFICES ASSUME Init PROVE FundingInv
    OBVIOUS
  <1>1. Rows = {}
    BY DEF Init, Rows
  <1>2. Idle \in Op
    BY AmountAssumption DEF Idle, Op, Amounts
  <1>3. TypeOK
    BY <1>2 DEF Init, TypeOK
  <1>4. PendingFits
    BY DEF Init, PendingFits, Fits, Idle
  <1> QED
    BY <1>1, <1>3, <1>4, InvByRow

\* A good step preserves the invariant.
LEMMA GoodKeepsInv == FundingInv /\ StepGood => FundingInv'
  <1> SUFFICES ASSUME FundingInv, StepGood PROVE FundingInv'
    OBVIOUS
  <1>1. TypeOK'
    BY DEF StepGood, TableStep, TypeOK
  <1>2. \A r \in Rows' : RowInv(request'[r])
    BY DEF StepGood, TableStep, Rows
  <1>3. Unreached'
    BY <1>2 DEF Unreached, RowInv
  <1>4. Waterfall'
    BY <1>2 DEF Waterfall, RowInv
  <1>5. ClaimedHasProof'
    BY <1>2 DEF ClaimedHasProof, RowInv
  <1> QED
    BY <1>1, <1>3, <1>4, <1>5 DEF StepGood, FundingInv

\* The inductive invariant holds of every behaviour of the requests.
THEOREM FundingInvariant == Spec => []FundingInv
  <1>1. FundingInv /\ [Next]_vars => FundingInv'
    BY NextGood, GoodKeepsInv
  <1> QED
    BY InitInv, <1>1, PTL DEF Spec

\* Types of the table and of the pending operations.
THEOREM TypeCorrect == Spec => []TypeOK
  <1>1. FundingInv => TypeOK
    BY DEF FundingInv
  <1> QED
    BY FundingInvariant, <1>1, PTL

\* No stage of a request ever exceeds the stage before it, from what is
\* approved to what is reimbursed, whatever runs concurrently.
THEOREM WaterfallHolds == Spec => []Waterfall
  <1>1. FundingInv => Waterfall
    BY DEF FundingInv
  <1> QED
    BY FundingInvariant, <1>1, PTL

\* A claimed request has its proof of performance.
THEOREM ProofBeforeClaim == Spec => []ClaimedHasProof
  <1>1. FundingInv => ClaimedHasProof
    BY DEF FundingInv
  <1> QED
    BY FundingInvariant, <1>1, PTL

\* Every step moves a request along TRANSITIONS or not at all, and leaves
\* decided figures as they are.
THEOREM LifecycleFollowed == Spec => FollowsLifecycle
  <1> DEFINE RowsFollow == \A r \in Rows :
          /\ \/ request'[r].status = request[r].status
             \/ <<request[r].status, request'[r].status>> \in Transitions
          /\ \A s \in Stages \ {"requested"} :
                request[r].amount[s] > 0 => request'[r].amount[s] = request[r].amount[s]
  <1>1. FundingInv /\ [Next]_vars => RowsFollow
    BY NextGood DEF StepGood, TableStep, Follows
  <1>2. FundingInv /\ [Next]_vars => [RowsFollow]_vars
    BY <1>1
  <1> HIDE DEF RowsFollow
  <1>3. Spec => [][RowsFollow]_vars
    BY FundingInvariant, <1>2, PTL DEF Spec
  <1> QED
    BY <1>3 DEF RowsFollow, FollowsLifecycle

-----------------------------------------------------------------------------
(* The event planner: one request of its own for each item *)

\* An item without a request has been converted by nobody; what a conversion
\* alone in flight has read is its own and has no request yet.
PlanInv ==
    /\ D!TypeOK
    /\ D!ConvertedOnceAlone
    /\ D!LinkIsOwn
    /\ \A i \in D!Rows : item[i].request = None => \A q \in Three : converted[q] # i
    /\ \A e \in Editors : \A i \in planOp[e] \ planContended :
          /\ \A d \in Editors : i \in planOp[d] => d = e
          /\ \A q \in Three : converted[q] # i

LEMMA PlanInit == ASSUME D!ConstantsOK, D!Init PROVE PlanInv
  BY DEF D!Init, PlanInv, D!TypeOK, D!ConvertedOnceAlone, D!LinkIsOwn, D!Rows

\* A row of the table, and one with its link set or its dates moved.
LEMMA PlanRowFields ==
    ASSUME D!TypeOK, NEW i \in D!Rows
    PROVE  /\ i \in Two /\ item[i] \in D!Row
           /\ \A b \in BOOLEAN : /\ [item[i] EXCEPT !.blocked = b] \in D!Row
                                 /\ [item[i] EXCEPT !.blocked = b].request = item[i].request
           /\ \A q \in Three : /\ [item[i] EXCEPT !.request = q] \in D!Row
                               /\ [item[i] EXCEPT !.request = q].request = q
  BY DEF D!TypeOK, D!Rows, D!Row

\* A conversion begins with items that are eligible now.
LEMMA PlanReadPreserves ==
    ASSUME PlanInv, NEW e \in Editors, NEW I \in SUBSET D!Eligible, D!Begin(e, I)
    PROVE  PlanInv'
<1>1. /\ planOp[e] = {} /\ planOp' = [planOp EXCEPT ![e] = I]
      /\ planContended' = planContended \cup (I \cap D!Busy)
      /\ UNCHANGED <<item, converted>>
  BY DEF D!Begin
<1>2. I \subseteq D!Rows /\ \A i \in I : item[i].request = None
  BY DEF D!Eligible
<1>3. I \subseteq Two /\ D!Rows' = D!Rows
  BY <1>1, <1>2 DEF D!Rows
<1>4. D!TypeOK'
  BY <1>1, <1>3 DEF PlanInv, D!TypeOK
<1>5. \A d \in Editors : planOp'[d] = IF d = e THEN I ELSE planOp[d]
  BY <1>1 DEF PlanInv, D!TypeOK
<1>6. \A i \in I : \A d \in Editors : i \in planOp[d] => i \in planContended'
  BY <1>1 DEF D!Busy
<1>7. ASSUME NEW d \in Editors, NEW i \in planOp'[d] \ planContended'
      PROVE  /\ \A c \in Editors : i \in planOp'[c] => c = d
             /\ \A q \in Three : converted'[q] # i
  <2>1. CASE d = e
    BY <1>1, <1>2, <1>5, <1>6, <1>7, <2>1 DEF PlanInv
  <2>2. CASE d # e
    BY <1>1, <1>5, <1>6, <1>7, <2>2 DEF PlanInv
  <2>3. QED
    BY <2>1, <2>2
<1>8. D!ConvertedOnceAlone'
  BY <1>1 DEF PlanInv, D!ConvertedOnceAlone
<1>9. D!LinkIsOwn' /\ \A i \in D!Rows' : item'[i].request = None => \A q \in Three : converted'[q] # i
  BY <1>1, <1>3 DEF PlanInv, D!LinkIsOwn
<1>10. QED
  BY <1>4, <1>7, <1>8, <1>9 DEF PlanInv

\* Requests are made of the items that were read, each of another one.
LEMMA ConvertPreserves ==
    ASSUME D!ConstantsOK, PlanInv, NEW e \in Editors, D!Convert(e)
    PROVE  PlanInv'
<1> DEFINE free == {q \in Three : converted[q] = None}
<1>1. PICK ids \in D!Injection(planOp[e], free) :
          /\ converted' = [q \in Three |->
                IF \E i \in planOp[e] : ids[i] = q THEN CHOOSE i \in planOp[e] : ids[i] = q
                ELSE converted[q]]
          /\ D!LinkBack(ids)
  BY DEF D!Convert
<1>2. /\ ids \in [planOp[e] -> free]
      /\ \A i, j \in planOp[e] : ids[i] = ids[j] => i = j
  BY DEF D!Injection, D!IsInjective
<1>3. /\ planOp' = [planOp EXCEPT ![e] = {}] /\ planContended' = planContended
      /\ planOp[e] \subseteq Two
      /\ item' = [i \in Two |-> IF i \in D!Rows \cap planOp[e]
                                THEN [item[i] EXCEPT !.request = ids[i]] ELSE item[i]]
  BY <1>1, <1>2 DEF D!Convert, D!LinkBack, PlanInv, D!TypeOK
<1>4. /\ \A i \in planOp[e] : /\ ids[i] \in Three /\ converted[ids[i]] = None
                              /\ converted'[ids[i]] = i
      /\ \A q \in Three : converted[q] # None => converted'[q] = converted[q]
      /\ \A q \in Three : \/ converted'[q] = converted[q]
                          \/ \E i \in planOp[e] : ids[i] = q /\ converted'[q] = i
      /\ converted' \in [Three -> Two \cup {None}]
  <2>1. \A i \in planOp[e] : ids[i] \in Three /\ converted[ids[i]] = None
    BY <1>2
  <2>2. \A i \in planOp[e] : (CHOOSE j \in planOp[e] : ids[j] = ids[i]) = i
    BY <1>2
  <2>3. \A i \in planOp[e] : converted'[ids[i]] = i
    BY <1>1, <2>1, <2>2
  <2>4. \A q \in Three : (\E i \in planOp[e] : ids[i] = q) \/ converted'[q] = converted[q]
    BY <1>1
  <2>5. \A q \in Three : converted'[q] \in Two \cup {None}
    BY <1>3, <2>3, <2>4 DEF PlanInv, D!TypeOK
  <2>6. QED
    BY <1>1, <2>1, <2>3, <2>4, <2>5
<1> HIDE DEF free
<1>5. \A i \in D!Rows \cap planOp[e] :
          /\ [item[i] EXCEPT !.request = ids[i]] \in D!Row
          /\ [item[i] EXCEPT !.request = ids[i]].request = ids[i]
  BY <1>4, PlanRowFields DEF PlanInv
<1>6. D!TypeOK'
  BY <1>3, <1>4, <1>5 DEF PlanInv, D!TypeOK
<1>7. D!Rows' = D!Rows
  BY <1>3, <1>5 DEF D!Rows, D!ConstantsOK
<1>8. \A i \in D!Rows : IF i \in planOp[e] THEN item'[i].request = ids[i]
                        ELSE item'[i].request = item[i].request
  BY <1>3, <1>5 DEF D!Rows
<1>9. D!LinkIsOwn'
  <2> SUFFICES ASSUME NEW i \in D!Rows, item'[i].request # None
               PROVE  converted'[item'[i].request] = i
    BY <1>7 DEF D!LinkIsOwn
  <2>1. CASE i \in planOp[e]
    BY <1>4, <1>8, <2>1
  <2>2. CASE i \notin planOp[e]
    <3>1. /\ item'[i].request = item[i].request /\ converted[item[i].request] = i
          /\ item[i].request \in Three /\ i # None
      BY <1>8, <2>2, PlanRowFields DEF PlanInv, D!LinkIsOwn, D!Row, D!ConstantsOK
    <3>2. QED
      BY <1>4, <3>1
  <2>3. QED
    BY <2>1, <2>2
<1>10. \A i \in D!Rows' : item'[i].request = None => \A q \in Three : converted'[q] # i
  <2> SUFFICES ASSUME NEW i \in D!Rows, item'[i].request = None, NEW q \in Three,
                      converted'[q] = i
               PROVE  FALSE
    BY <1>7
  <2>1. i \notin planOp[e]
    BY <1>4, <1>8 DEF D!ConstantsOK
  <2>2. converted[q] # i
    BY <1>8, <2>1 DEF PlanInv
  <2>3. QED
    BY <1>4, <2>1, <2>2
<1>11. ASSUME NEW d \in Editors, NEW i \in planOp'[d] \ planContended'
       PROVE  /\ \A c \in Editors : i \in planOp'[c] => c = d
              /\ \A q \in Three : converted'[q] # i
  <2>1. /\ d # e /\ i \in planOp[d] \ planContended
        /\ \A c \in Editors : planOp'[c] \subseteq planOp[c]
    BY <1>3 DEF PlanInv, D!TypeOK
  <2>2. /\ \A c \in Editors : i \in planOp[c] => c = d
        /\ \A q \in Three : converted[q] # i
    BY <2>1 DEF PlanInv
  <2>3. i \notin planOp[e]
    BY <2>1, <2>2
  <2>4. QED
    BY <1>4, <2>1, <2>2, <2>3
<1>12. D!ConvertedOnceAlone'
  <2> SUFFICES ASSUME NEW p \in Three, NEW q \in Three, converted'[p] = converted'[q],
                      converted'[p] # None, converted'[p] \notin planContended
               PROVE  p = q
    BY <1>3 DEF D!ConvertedOnceAlone
  <2>1. \A i \in planOp[e] \ planContended : \A r \in Three : converted[r] # i
    BY DEF PlanInv
  <2>2. QED
    BY <1>2, <1>4, <2>1 DEF PlanInv, D!ConvertedOnceAlone
<1>13. QED
  BY <1>6, <1>9, <1>10, <1>11, <1>12 DEF PlanInv

LEMMA PlanStep == ASSUME D!ConstantsOK, PlanInv, [D!Next]_D!vars PROVE PlanInv'
<1>1. ASSUME NEW i \in Two, NEW b \in BOOLEAN, D!AddItem(i, b) PROVE PlanInv'
  <2> DEFINE row == [blocked |-> b, request |-> None]
  <2>1. row \in D!Row /\ row # None
    <3>1. row \in D!Row
      BY DEF D!Row
    <3>2. QED
      BY <3>1 DEF D!ConstantsOK
  <2>2. /\ i \notin D!Rows /\ \A q \in Three : converted[q] # i
        /\ item' = [item EXCEPT ![i] = row]
        /\ UNCHANGED <<converted, planOp, planContended>>
    BY <1>1 DEF D!AddItem, D!Known
  <2>3. /\ D!Rows' = D!Rows \cup {i} /\ item'[i].request = None
        /\ \A j \in D!Rows : item'[j] = item[j]
    BY <2>1, <2>2 DEF D!Rows, PlanInv, D!TypeOK
  <2>4. D!TypeOK'
    BY <2>1, <2>2 DEF PlanInv, D!TypeOK
  <2>5. QED
    BY <2>2, <2>3, <2>4 DEF PlanInv, D!ConvertedOnceAlone, D!LinkIsOwn
<1>2. ASSUME NEW i \in Two, NEW b \in BOOLEAN, D!UpdateItem(i, b) PROVE PlanInv'
  <2> DEFINE row == [item[i] EXCEPT !.blocked = b]
  <2>1. /\ i \in D!Rows /\ item' = [item EXCEPT ![i] = row]
        /\ UNCHANGED <<converted, planOp, planContended>>
    BY <1>2 DEF D!UpdateItem
  <2>2. row \in D!Row /\ row # None /\ row.request = item[i].request
    <3>1. row \in D!Row /\ row.request = item[i].request
      BY <2>1, PlanRowFields DEF PlanInv
    <3>2. QED
      BY <3>1 DEF D!ConstantsOK
  <2> HIDE DEF row
  <2>3. /\ D!Rows' = D!Rows
        /\ \A j \in D!Rows : item'[j].request = item[j].request
    BY <2>1, <2>2 DEF D!Rows, PlanInv, D!TypeOK
  <2>4. D!TypeOK'
    BY <2>1, <2>2 DEF PlanInv, D!TypeOK
  <2>5. QED
    BY <2>1, <2>3, <2>4 DEF PlanInv, D!ConvertedOnceAlone, D!LinkIsOwn
<1>3. ASSUME NEW i \in Two, D!RemoveItem(i) PROVE PlanInv'
  <2>1. /\ item' = [item EXCEPT ![i] = None] /\ UNCHANGED <<converted, planOp, planContended>>
    BY <1>3 DEF D!RemoveItem
  <2>2. \A j \in D!Rows' : j \in D!Rows /\ item'[j] = item[j]
    BY <2>1 DEF D!Rows, PlanInv, D!TypeOK
  <2>3. D!TypeOK'
    BY <2>1 DEF PlanInv, D!TypeOK
  <2>4. QED
    BY <2>1, <2>2, <2>3 DEF PlanInv, D!ConvertedOnceAlone, D!LinkIsOwn
<1>4. ASSUME NEW e \in Editors, NEW i \in Two, D!ReadOne(e, i) PROVE PlanInv'
  BY <1>4, PlanReadPreserves DEF D!ReadOne
<1>5. ASSUME NEW e \in Editors, D!ReadAll(e) PROVE PlanInv'
  BY <1>5, PlanReadPreserves DEF D!ReadAll
<1>6. ASSUME NEW e \in Editors, D!Convert(e) PROVE PlanInv'
  BY <1>6, ConvertPreserves
<1>7. ASSUME NEW e \in Editors, D!Fail(e) PROVE PlanInv'
  <2>1. planOp' = [planOp EXCEPT ![e] = {}] /\ UNCHANGED <<item, converted, planContended>>
    BY <1>7 DEF D!Fail
  <2>2. D!TypeOK' /\ \A d \in Editors : planOp'[d] \subseteq planOp[d]
    BY <2>1 DEF PlanInv, D!TypeOK
  <2>3. QED
    BY <2>1, <2>2 DEF PlanInv, D!ConvertedOnceAlone, D!LinkIsOwn, D!Rows
<1>8. CASE UNCHANGED D!vars
  BY <1>8 DEF D!vars, PlanInv, D!TypeOK, D!ConvertedOnceAlone, D!LinkIsOwn, D!Rows
<1>9. QED
  BY <1>1, <1>2, <1>3, <1>4, <1>5, <1>6, <1>7, <1>8 DEF D!Next

LEMMA PlanInvariance == ASSUME D!ConstantsOK PROVE D!Spec => []PlanInv
  BY PlanInit, PlanStep, PTL DEF D!Spec

-----------------------------------------------------------------------------
(* FundRules: the deadline is enforced, and blocks stay *)

LEMMA RuleDays ==
    ASSUME U!ConstantsOK
    PROVE  /\ U!Days \subseteq Nat /\ None \notin Int /\ None \notin U!Days /\ 0 \in U!Days
           /\ YearDays \in Nat /\ YearDays > 0 /\ Lead \in Nat /\ SubmitCap \in Nat
<1>1. /\ YearDays \in Nat /\ Lead \in Nat /\ SubmitCap \in Nat /\ Years \in Nat /\ Years > 0
      /\ YearDays > 0 /\ None \notin Int
  BY DEF U!ConstantsOK
<1>2. U!Days \subseteq Nat /\ None \notin U!Days
  BY <1>1 DEF U!Days
<1>3. Years * YearDays \in Nat /\ Years * YearDays > 0
  BY <1>1
<1>4. 0 \in U!Days
  BY <1>3 DEF U!Days
<1>5. QED
  BY <1>1, <1>2, <1>4

LEMMA CutoffIsInt ==
    ASSUME U!ConstantsOK, NEW d \in U!Days PROVE U!InYear(d, SubmitCap) \in Int
<1>1. d \in Nat /\ YearDays \in Nat /\ YearDays > 0 /\ SubmitCap \in Nat
  BY RuleDays
<1> DEFINE q == d \div YearDays
<1>2. q \in Int
  BY <1>1
<1> HIDE DEF q
<1>3. q * YearDays \in Int
  BY <1>1, <1>2
<1>4. QED
  BY <1>1, <1>3 DEF U!InYear, U!YearOf, q

LEMMA RulesInit == ASSUME U!ConstantsOK, U!Init PROVE U!TypeOK
  BY RuleDays DEF U!Init, U!TypeOK

LEMMA RulesStep == ASSUME U!ConstantsOK, U!TypeOK, [U!Next]_U!vars PROVE U!TypeOK'
  BY DEF U!TypeOK, U!Next, U!Tick, U!vars, U!Days

\* Lead, cutoff and start are what the deadline is made of.
LEMMA DeadlineAll == ASSUME U!ConstantsOK, U!TypeOK PROVE U!DeadlineIsEnforced
<1> SUFFICES ASSUME start # None
             PROVE  date <= U!SubmitBy <=>
                       ~U!Warns /\ U!Blocks \cap {"pre_approval", "submit_cutoff"} = {}
  BY DEF U!DeadlineIsEnforced
<1> DEFINE cutoff == U!InYear(start, SubmitCap)
<1>1. start \in Nat /\ date \in Nat /\ Lead \in Nat /\ cutoff \in Int
  BY RuleDays, CutoffIsInt DEF U!TypeOK
<1>2. U!SubmitBy = IF start - Lead < cutoff THEN start - Lead ELSE cutoff
  BY DEF U!SubmitBy, U!Earlier
<1>3. "pre_approval" \in U!Blocks <=> start < date
  BY DEF U!Blocks
<1>4. "submit_cutoff" \in U!Blocks <=> start >= date /\ date > cutoff
  BY DEF U!Blocks
<1>5. U!Warns <=> start >= date /\ date + Lead > start
  BY DEF U!Warns
<1>6. U!Blocks \cap {"pre_approval", "submit_cutoff"} = {}
      <=> "pre_approval" \notin U!Blocks /\ "submit_cutoff" \notin U!Blocks
  OBVIOUS
<1> HIDE DEF cutoff
<1>7. QED
  BY <1>1, <1>2, <1>3, <1>4, <1>5, <1>6

LEMMA BlocksGrow ==
    ASSUME U!ConstantsOK, U!TypeOK, [U!Next]_U!vars, U!Blocks # {}
    PROVE  U!Blocks' # {}
<1>1. CASE UNCHANGED U!vars
  BY <1>1 DEF U!vars, U!Blocks
<1>2. CASE U!Tick
  <2>1. date' = date + 1 /\ start' = start /\ end' = end /\ date \in Nat
    BY <1>2, RuleDays DEF U!Tick, U!TypeOK
  <2>2. PICK c \in U!Blocks : TRUE
    OBVIOUS
  <2>3. CASE c = "dates"
    BY <2>1, <2>2, <2>3 DEF U!Blocks
  <2>4. CASE c = "calendar_year"
    BY <2>1, <2>2, <2>4 DEF U!Blocks
  <2>5. CASE c = "pre_approval"
    <3>1. start # None /\ start < date
      BY <2>2, <2>5 DEF U!Blocks
    <3>2. start \in Nat
      BY <3>1, RuleDays DEF U!TypeOK
    <3>3. start < date'
      BY <2>1, <3>1, <3>2
    <3>4. "pre_approval" \in U!Blocks'
      BY <2>1, <3>1, <3>3 DEF U!Blocks
    <3>5. QED
      BY <3>4
  <2>6. CASE c = "submit_cutoff"
    <3>1. start # None /\ date > U!InYear(start, SubmitCap)
      BY <2>2, <2>6 DEF U!Blocks
    <3>2. start \in Nat /\ U!InYear(start, SubmitCap) \in Int
      BY <3>1, RuleDays, CutoffIsInt DEF U!TypeOK
    <3>3. date' > U!InYear(start, SubmitCap)
      BY <2>1, <3>1, <3>2
    <3>4. start < date' \/ start >= date'
      BY <2>1, <3>2
    <3>5. "pre_approval" \in U!Blocks' \/ "submit_cutoff" \in U!Blocks'
      BY <2>1, <3>1, <3>3, <3>4 DEF U!Blocks, U!InYear, U!YearOf
    <3>6. QED
      BY <3>5
  <2>7. QED
    BY <2>2, <2>3, <2>4, <2>5, <2>6 DEF U!Blocks
<1>3. QED
  BY <1>1, <1>2 DEF U!Next

LEMMA RulesTyped == ASSUME U!ConstantsOK PROVE U!Spec => []U!TypeOK
  BY RulesInit, RulesStep, PTL DEF U!Spec

FundingAbout(e, s) == submissionOp[e] # F!Idle /\ submissionOp[e].submission = s

FundingOpsKnown == \A e \in Editors : submissionOp[e] # F!Idle => submissionOp[e].submission \in F!Rows

FundingOneAtATime ==
    \A e, d \in Editors, s \in One \ submissionContended :
        FundingAbout(e, s) /\ FundingAbout(d, s) => e = d

FundingReadingsStand ==
    \A e \in Editors, s \in F!Rows \ submissionContended :
        FundingAbout(e, s) =>
            /\ submissionOp[e].kind = "edit" =>
                  submission[s].status \in {"draft", "withdrawn"} /\ submission[s].approved = 0
            /\ submissionOp[e].kind = "submit" => submission[s].requested > 0
            /\ submissionOp[e].kind = "approve" /\ submission[s].requested > 0 =>
                  submissionOp[e].amount <= submission[s].requested

AskedFirst ==
    \A s \in F!Rows \ submissionContended :
        /\ submission[s].status = "draft" => submission[s].approved = 0
        /\ submission[s].status \notin {"draft", "withdrawn"} => submission[s].requested > 0

FundingAlone == FundingOneAtATime /\ FundingReadingsStand /\ AskedFirst /\ F!ApprovedWithinAskAlone

SubmissionInv == F!TypeOK /\ FundingOpsKnown /\ FundingAlone

-----------------------------------------------------------------------------
(* Fields *)

\* A row's fields.
LEMMA FundingRowFields ==
    ASSUME F!ConstantsOK, F!TypeOK, NEW s \in F!Rows
    PROVE  /\ s \in One
           /\ submission[s] \in F!Row
           /\ submission[s].status \in F!Statuses
           /\ submission[s].requested \in Nat
           /\ submission[s].approved \in Nat
<1>1. s \in One /\ submission[s] \in F!Row
  BY DEF F!Rows, F!TypeOK
<1> QED
  BY <1>1 DEF F!Row, F!Amounts, F!ConstantsOK

\* The fields of an operation in flight.
LEMMA FundingOpFields ==
    ASSUME F!ConstantsOK, F!TypeOK, NEW e \in Editors, submissionOp[e] # F!Idle
    PROVE  /\ submissionOp[e].kind \in {"edit", "submit", "approve"}
           /\ submissionOp[e].submission \in One
           /\ submissionOp[e].amount \in F!Amounts
           /\ submissionOp[e].amount \in Nat
<1>1. submissionOp[e] \in [kind: {"edit", "submit", "approve"}, submission: One, amount: F!Amounts]
  BY DEF F!TypeOK, F!Op
<1> QED
  BY <1>1 DEF F!Amounts, F!ConstantsOK

\* An operation of a kind is in flight.
LEMMA FundingKindNotIdle ==
    ASSUME NEW e \in Editors, submissionOp[e].kind \in {"edit", "submit", "approve"}
    PROVE  submissionOp[e] # F!Idle
  BY DEF F!Idle

-----------------------------------------------------------------------------

LEMMA FundingInitEstablishes == ASSUME F!ConstantsOK, F!Init PROVE SubmissionInv
<1>1. F!TypeOK
  BY DEF F!Init, F!TypeOK, F!Op
<1>2. FundingOpsKnown /\ FundingOneAtATime /\ FundingReadingsStand
  BY DEF F!Init, FundingOpsKnown, FundingOneAtATime, FundingReadingsStand, FundingAbout
<1>3. AskedFirst /\ F!ApprovedWithinAskAlone
  BY DEF F!Init, AskedFirst, F!ApprovedWithinAskAlone, F!Rows
<1> QED
  BY <1>1, <1>2, <1>3 DEF SubmissionInv, FundingAlone

\* createSubmissionOp: no operation in flight is about a new row.
LEMMA FundingCreatePreserves ==
    ASSUME F!ConstantsOK, SubmissionInv, NEW s \in One, NEW a \in F!Amounts, F!Create(s, a)
    PROVE  SubmissionInv'
<1> DEFINE row == [status |-> "draft", requested |-> a, approved |-> 0]
<1>1. row \in F!Row /\ row.status = "draft" /\ row.approved = 0 /\ row.requested \in Nat
  BY DEF F!Row, F!Statuses, F!Amounts, F!ConstantsOK
<1>2. submission' = [submission EXCEPT ![s] = row] /\ UNCHANGED <<submissionOp, submissionContended>>
  BY DEF F!Create
<1> HIDE DEF row
<1>3. F!TypeOK'
  BY <1>1, <1>2 DEF SubmissionInv, F!TypeOK
<1>4. submission'[s] = row /\ \A t \in One \ {s} : submission'[t] = submission[t]
  BY <1>2 DEF SubmissionInv, F!TypeOK
<1>5. F!Rows' = F!Rows \cup {s} /\ s \notin F!Rows
  BY <1>1, <1>4 DEF F!Rows, F!Create, F!ConstantsOK
<1>6. FundingOpsKnown'
  BY <1>2, <1>5 DEF SubmissionInv, FundingOpsKnown
<1>7. FundingOneAtATime'
  BY <1>2 DEF SubmissionInv, FundingAlone, FundingOneAtATime, FundingAbout
<1>8. \A e \in Editors : ~FundingAbout(e, s)
  BY <1>5 DEF SubmissionInv, FundingOpsKnown, FundingAbout
<1>9. FundingReadingsStand'
  <2> SUFFICES ASSUME NEW e \in Editors, NEW t \in F!Rows' \ submissionContended', FundingAbout(e, t)'
               PROVE  /\ submissionOp'[e].kind = "edit" =>
                           /\ submission'[t].status \in {"draft", "withdrawn"}
                           /\ submission'[t].approved = 0
                      /\ submissionOp'[e].kind = "submit" => submission'[t].requested > 0
                      /\ submissionOp'[e].kind = "approve" /\ submission'[t].requested > 0 =>
                           submissionOp'[e].amount <= submission'[t].requested
    BY DEF FundingReadingsStand
  <2>1. FundingAbout(e, t) /\ t # s
    BY <1>2, <1>8 DEF FundingAbout
  <2>2. t \in F!Rows \ submissionContended /\ submission'[t] = submission[t]
    BY <1>2, <1>4, <1>5, <2>1 DEF F!Rows
  <2> QED
    BY <1>2, <2>1, <2>2 DEF SubmissionInv, FundingAlone, FundingReadingsStand
<1>10. AskedFirst' /\ F!ApprovedWithinAskAlone'
  <2> SUFFICES ASSUME NEW t \in F!Rows' \ submissionContended'
               PROVE  /\ submission'[t].status = "draft" => submission'[t].approved = 0
                      /\ submission'[t].status \notin {"draft", "withdrawn"} =>
                           submission'[t].requested > 0
                      /\ submission'[t].approved <= submission'[t].requested
    BY DEF AskedFirst, F!ApprovedWithinAskAlone
  <2>1. CASE t = s
    BY <1>1, <1>4, <2>1
  <2>2. CASE t # s
    <3>1. t \in F!Rows \ submissionContended /\ submission'[t] = submission[t]
      BY <1>2, <1>4, <1>5, <2>2 DEF F!Rows
    <3> QED
      BY <3>1 DEF SubmissionInv, FundingAlone, AskedFirst, F!ApprovedWithinAskAlone
  <2> QED
    BY <2>1, <2>2
<1> QED
  BY <1>3, <1>6, <1>7, <1>9, <1>10 DEF SubmissionInv, FundingAlone

\* An operation that begins: if it is alone on its submission, what it has
\* just read stands.
LEMMA FundingBeginPreserves ==
    ASSUME F!ConstantsOK, SubmissionInv, NEW e \in Editors,
           NEW kind \in {"edit", "submit", "approve"}, NEW s \in F!Rows, NEW a \in F!Amounts,
           F!Begin(e, kind, s, a),
           kind = "edit" => submission[s].status = "draft",
           kind = "submit" => submission[s].requested > 0,
           kind = "approve" /\ submission[s].requested > 0 => a <= submission[s].requested
    PROVE  SubmissionInv'
<1> DEFINE what == [kind |-> kind, submission |-> s, amount |-> a]
<1>1. /\ what \in F!Op /\ what # F!Idle
      /\ what.kind = kind /\ what.submission = s /\ what.amount = a
      /\ s \in One
  <2>1. s \in One
    BY DEF F!Rows
  <2>2. what # F!Idle
    BY DEF F!Idle
  <2> QED
    BY <2>1, <2>2 DEF F!Op
<1>2. submissionOp' = [submissionOp EXCEPT ![e] = what] /\ UNCHANGED submission /\ submissionOp[e] = F!Idle
  BY DEF F!Begin
<1>3. /\ submissionContended \subseteq submissionContended'
      /\ submissionContended' \subseteq submissionContended \cup {s}
      /\ s \notin submissionContended' => \A d \in Editors : ~FundingAbout(d, s)
  BY DEF F!Begin, FundingAbout
<1> HIDE DEF what
<1>4. F!Rows' = F!Rows
  BY <1>2 DEF F!Rows
<1>5. F!TypeOK'
  BY <1>1, <1>2, <1>3 DEF SubmissionInv, F!TypeOK
<1>6. submissionOp'[e] = what /\ \A d \in Editors \ {e} : submissionOp'[d] = submissionOp[d]
  BY <1>2 DEF SubmissionInv, F!TypeOK
<1>7. FundingOpsKnown'
  BY <1>1, <1>4, <1>6 DEF SubmissionInv, FundingOpsKnown
<1>8. FundingOneAtATime'
  <2> SUFFICES ASSUME NEW c \in Editors, NEW d \in Editors, NEW t \in One \ submissionContended',
                      FundingAbout(c, t)', FundingAbout(d, t)'
               PROVE  c = d
    BY DEF FundingOneAtATime
  <2>1. CASE t = s
    BY <1>1, <1>3, <1>6, <2>1 DEF FundingAbout
  <2>2. CASE t # s
    <3>1. c # e /\ d # e
      BY <1>1, <1>6, <2>2 DEF FundingAbout
    <3>2. FundingAbout(c, t) /\ FundingAbout(d, t) /\ t \in One \ submissionContended
      BY <1>3, <1>6, <3>1 DEF FundingAbout
    <3> QED
      BY <3>2 DEF SubmissionInv, FundingAlone, FundingOneAtATime
  <2> QED
    BY <2>1, <2>2
<1>9. FundingReadingsStand'
  <2> SUFFICES ASSUME NEW d \in Editors, NEW t \in F!Rows' \ submissionContended', FundingAbout(d, t)'
               PROVE  /\ submissionOp'[d].kind = "edit" =>
                           /\ submission'[t].status \in {"draft", "withdrawn"}
                           /\ submission'[t].approved = 0
                      /\ submissionOp'[d].kind = "submit" => submission'[t].requested > 0
                      /\ submissionOp'[d].kind = "approve" /\ submission'[t].requested > 0 =>
                           submissionOp'[d].amount <= submission'[t].requested
    BY DEF FundingReadingsStand
  <2>1. t \in F!Rows \ submissionContended /\ submission'[t] = submission[t]
    BY <1>2, <1>3, <1>4
  <2>2. CASE d = e
    <3>1. t = s
      BY <1>1, <1>6, <2>2 DEF FundingAbout
    <3>2. submission[s].status = "draft" => submission[s].approved = 0
      BY <2>1, <3>1 DEF SubmissionInv, FundingAlone, AskedFirst
    <3> QED
      BY <1>1, <1>6, <2>1, <2>2, <3>1, <3>2
  <2>3. CASE d # e
    <3>1. FundingAbout(d, t) /\ submissionOp'[d] = submissionOp[d]
      BY <1>6, <2>3 DEF FundingAbout
    <3> QED
      BY <2>1, <3>1 DEF SubmissionInv, FundingAlone, FundingReadingsStand
  <2> QED
    BY <2>2, <2>3
<1>10. AskedFirst' /\ F!ApprovedWithinAskAlone'
  BY <1>2, <1>3, <1>4 DEF SubmissionInv, FundingAlone, AskedFirst, F!ApprovedWithinAskAlone
<1> QED
  BY <1>5, <1>7, <1>8, <1>9, <1>10 DEF SubmissionInv, FundingAlone

\* An operation that ends, and may have changed the row it is about: what is
\* left to show is the row itself, if it was alone on it.
LEMMA FundingEndPreserves ==
    ASSUME F!ConstantsOK, SubmissionInv, NEW e \in Editors, submissionOp[e] # F!Idle, F!End(e),
           NEW row \in F!Row,
           submission' = [submission EXCEPT ![submissionOp[e].submission] = row],
           submissionOp[e].submission \notin submissionContended =>
               /\ row.status = "draft" => row.approved = 0
               /\ row.status \notin {"draft", "withdrawn"} => row.requested > 0
               /\ row.approved <= row.requested
    PROVE  SubmissionInv'
<1> DEFINE s == submissionOp[e].submission
<1>1. s \in F!Rows /\ s \in One
  BY DEF SubmissionInv, FundingOpsKnown, F!Rows
<1>2. submissionOp' = [submissionOp EXCEPT ![e] = F!Idle] /\ submissionContended' = submissionContended
  BY DEF F!End
<1>3. submissionOp'[e] = F!Idle /\ \A d \in Editors \ {e} : submissionOp'[d] = submissionOp[d]
  BY <1>2 DEF SubmissionInv, F!TypeOK
<1>4. submission'[s] = row /\ \A t \in One \ {s} : submission'[t] = submission[t]
  BY <1>1 DEF SubmissionInv, F!TypeOK
<1>5. F!Rows' = F!Rows
  BY <1>1, <1>4 DEF F!Rows, F!ConstantsOK
<1>6. F!TypeOK'
  BY <1>2 DEF SubmissionInv, F!TypeOK, F!Op
<1> HIDE DEF s
<1>7. FundingOpsKnown'
  BY <1>3, <1>5 DEF SubmissionInv, FundingOpsKnown
<1>8. \A d \in Editors, t \in One : FundingAbout(d, t)' => d # e /\ FundingAbout(d, t) /\ submissionOp'[d] = submissionOp[d]
  BY <1>3 DEF FundingAbout
<1>9. FundingOneAtATime'
  BY <1>2, <1>8 DEF SubmissionInv, FundingAlone, FundingOneAtATime
<1>10. FundingReadingsStand'
  <2> SUFFICES ASSUME NEW d \in Editors, NEW t \in F!Rows' \ submissionContended', FundingAbout(d, t)'
               PROVE  /\ submissionOp'[d].kind = "edit" =>
                           /\ submission'[t].status \in {"draft", "withdrawn"}
                           /\ submission'[t].approved = 0
                      /\ submissionOp'[d].kind = "submit" => submission'[t].requested > 0
                      /\ submissionOp'[d].kind = "approve" /\ submission'[t].requested > 0 =>
                           submissionOp'[d].amount <= submission'[t].requested
    BY DEF FundingReadingsStand
  <2>1. t \in F!Rows \ submissionContended /\ t \in One
    BY <1>2, <1>5 DEF F!Rows
  <2>2. d # e /\ FundingAbout(d, t) /\ submissionOp'[d] = submissionOp[d]
    BY <1>8, <2>1
  <2>3. t # s
    BY <2>1, <2>2 DEF SubmissionInv, FundingAlone, FundingOneAtATime, FundingAbout, s
  <2> QED
    BY <1>4, <2>1, <2>2, <2>3 DEF SubmissionInv, FundingAlone, FundingReadingsStand
<1>11. AskedFirst' /\ F!ApprovedWithinAskAlone'
  <2> SUFFICES ASSUME NEW t \in F!Rows' \ submissionContended'
               PROVE  /\ submission'[t].status = "draft" => submission'[t].approved = 0
                      /\ submission'[t].status \notin {"draft", "withdrawn"} =>
                           submission'[t].requested > 0
                      /\ submission'[t].approved <= submission'[t].requested
    BY DEF AskedFirst, F!ApprovedWithinAskAlone
  <2>1. CASE t = s
    BY <1>2, <1>4, <2>1 DEF s
  <2>2. CASE t # s
    <3>1. t \in F!Rows \ submissionContended /\ submission'[t] = submission[t]
      BY <1>2, <1>4, <1>5, <2>2 DEF F!Rows
    <3> QED
      BY <3>1 DEF SubmissionInv, FundingAlone, AskedFirst, F!ApprovedWithinAskAlone
  <2> QED
    BY <2>1, <2>2
<1> QED
  BY <1>6, <1>7, <1>9, <1>10, <1>11 DEF SubmissionInv, FundingAlone

\* What the one operation on a submission may rely on.
LEMMA FundingStands ==
    ASSUME F!ConstantsOK, SubmissionInv, NEW e \in Editors, submissionOp[e] # F!Idle
    PROVE  LET s == submissionOp[e].submission
           IN  /\ s \in F!Rows
               /\ s \notin submissionContended =>
                     /\ submissionOp[e].kind = "edit" =>
                           /\ submission[s].status \in {"draft", "withdrawn"}
                           /\ submission[s].approved = 0
                     /\ submissionOp[e].kind = "submit" => submission[s].requested > 0
                     /\ submissionOp[e].kind = "approve" /\ submission[s].requested > 0 =>
                           submissionOp[e].amount <= submission[s].requested
                     /\ submission[s].status = "draft" => submission[s].approved = 0
                     /\ submission[s].status \notin {"draft", "withdrawn"} =>
                           submission[s].requested > 0
                     /\ submission[s].approved <= submission[s].requested
<1>1. submissionOp[e].submission \in F!Rows
  BY DEF SubmissionInv, FundingOpsKnown
<1>2. FundingAbout(e, submissionOp[e].submission)
  BY DEF FundingAbout
<1> QED
  BY <1>1, <1>2 DEF SubmissionInv, FundingAlone, FundingReadingsStand, AskedFirst, F!ApprovedWithinAskAlone

\* updateSubmissionOp's UPDATE by id: alone, it finds a draft or a withdrawn one.
LEMMA FundingWriteEditPreserves ==
    ASSUME F!ConstantsOK, SubmissionInv, NEW e \in Editors, F!WriteEdit(e) PROVE SubmissionInv'
<1> DEFINE s == submissionOp[e].submission
           row == [submission[s] EXCEPT !.requested = submissionOp[e].amount]
<1>1. submissionOp[e] # F!Idle /\ submissionOp[e].kind = "edit"
  BY FundingKindNotIdle DEF F!WriteEdit
<1>2. s \in F!Rows /\ submission[s] \in F!Row /\ submissionOp[e].amount \in F!Amounts
  BY <1>1, FundingStands, FundingRowFields, FundingOpFields DEF SubmissionInv
<1>3. /\ row \in F!Row
      /\ row.status = submission[s].status
      /\ row.approved = submission[s].approved
      /\ row.requested = submissionOp[e].amount
  BY <1>2 DEF F!Row
<1>4. submission' = [submission EXCEPT ![s] = row] /\ F!End(e)
  BY DEF F!WriteEdit
<1>5. submissionOp[e].amount >= 0
  BY <1>1, FundingOpFields DEF SubmissionInv
<1>6. s \notin submissionContended =>
          submission[s].status \in {"draft", "withdrawn"} /\ submission[s].approved = 0
  BY <1>1, FundingStands
<1> HIDE DEF row
<1> QED
  BY <1>1, <1>3, <1>4, <1>5, <1>6, FundingEndPreserves

\* submitSubmissionOp's UPDATE: alone, it finds the ask that it read.
LEMMA FundingWriteSubmitPreserves ==
    ASSUME F!ConstantsOK, SubmissionInv, NEW e \in Editors, F!WriteSubmit(e) PROVE SubmissionInv'
<1> DEFINE s == submissionOp[e].submission
           row == [submission[s] EXCEPT !.status = "submitted"]
<1>1. submissionOp[e] # F!Idle /\ submissionOp[e].kind = "submit"
  BY FundingKindNotIdle DEF F!WriteSubmit
<1>2. s \in F!Rows /\ submission[s] \in F!Row
  BY <1>1, FundingStands, FundingRowFields DEF SubmissionInv
<1>3. /\ row \in F!Row
      /\ row.status = "submitted"
      /\ row.approved = submission[s].approved
      /\ row.requested = submission[s].requested
  BY <1>2 DEF F!Row, F!Statuses
<1>4. submission' = [submission EXCEPT ![s] = row] /\ F!End(e)
  BY DEF F!WriteSubmit
<1>5. s \notin submissionContended =>
          submission[s].requested > 0 /\ submission[s].approved <= submission[s].requested
  BY <1>1, FundingStands
<1> HIDE DEF row
<1> QED
  BY <1>1, <1>3, <1>4, <1>5, FundingEndPreserves

\* approveSubmissionOp's UPDATE: alone, it finds the ask that it compared with.
LEMMA FundingWriteApprovePreserves ==
    ASSUME F!ConstantsOK, SubmissionInv, NEW e \in Editors, F!WriteApprove(e) PROVE SubmissionInv'
<1> DEFINE s == submissionOp[e].submission
           row == [submission[s] EXCEPT !.status = "approved", !.approved = submissionOp[e].amount]
<1>1. submissionOp[e] # F!Idle /\ submissionOp[e].kind = "approve"
  BY FundingKindNotIdle DEF F!WriteApprove
<1>2. s \in F!Rows /\ submission[s] \in F!Row /\ submissionOp[e].amount \in F!Amounts
  BY <1>1, FundingStands, FundingRowFields, FundingOpFields DEF SubmissionInv
<1>3. /\ row \in F!Row
      /\ row.status = "approved"
      /\ row.approved = submissionOp[e].amount
      /\ row.requested = submission[s].requested
  BY <1>2 DEF F!Row, F!Statuses
<1>4. submission' = [submission EXCEPT ![s] = row] /\ F!End(e)
  BY <1>2 DEF F!WriteApprove, SubmissionInv, F!TypeOK, F!Rows
<1>5. submission[s].status \in {"submitted", "in_review"}
  BY DEF F!WriteApprove, F!Decided
<1>6. s \notin submissionContended =>
          submission[s].requested > 0 /\ submissionOp[e].amount <= submission[s].requested
  BY <1>1, <1>5, FundingStands
<1> HIDE DEF row
<1> QED
  BY <1>1, <1>3, <1>4, <1>6, FundingEndPreserves

\* Single guarded statements change the status alone, and never to a draft.
LEMMA FundingMovePreserves ==
    ASSUME F!ConstantsOK, SubmissionInv, NEW s \in One, NEW to \in F!Statuses, F!Move(s, to)
    PROVE  SubmissionInv'
<1> DEFINE row == [submission[s] EXCEPT !.status = to]
<1>1. s \in F!Rows /\ submission[s] \in F!Row
  BY FundingRowFields DEF F!Move, SubmissionInv
<1>2. /\ row \in F!Row
      /\ row.status = to
      /\ row.approved = submission[s].approved
      /\ row.requested = submission[s].requested
  BY <1>1 DEF F!Row
<1>3. submission' = [submission EXCEPT ![s] = row] /\ UNCHANGED <<submissionOp, submissionContended>>
  BY DEF F!Move
<1>4. /\ to \in {"in_review", "rejected", "funded", "withdrawn"}
      /\ submission[s].status \in {"draft", "withdrawn"} => to = "withdrawn"
  BY DEF F!Move, F!Transitions, F!Decided, F!Withdrawn
<1> HIDE DEF row
<1>5. F!TypeOK'
  BY <1>2, <1>3 DEF SubmissionInv, F!TypeOK
<1>6. submission'[s] = row /\ \A t \in One \ {s} : submission'[t] = submission[t]
  BY <1>3 DEF SubmissionInv, F!TypeOK
<1>7. F!Rows' = F!Rows
  BY <1>1, <1>2, <1>6 DEF F!Rows, F!ConstantsOK
<1>8. FundingOpsKnown' /\ FundingOneAtATime'
  BY <1>3, <1>7 DEF SubmissionInv, FundingAlone, FundingOpsKnown, FundingOneAtATime, FundingAbout
<1>9. \A t \in F!Rows : /\ submission'[t].approved = submission[t].approved
                      /\ submission'[t].requested = submission[t].requested
                      /\ \/ submission'[t].status = submission[t].status
                         \/ t = s /\ submission'[t].status = to
  BY <1>2, <1>6 DEF F!Rows
<1>10. FundingReadingsStand'
  BY <1>3, <1>4, <1>7, <1>9 DEF SubmissionInv, FundingAlone, FundingReadingsStand, FundingAbout
<1>11. AskedFirst' /\ F!ApprovedWithinAskAlone'
  BY <1>3, <1>4, <1>7, <1>9 DEF SubmissionInv, FundingAlone, AskedFirst, F!ApprovedWithinAskAlone
<1> QED
  BY <1>5, <1>8, <1>10, <1>11 DEF SubmissionInv, FundingAlone

LEMMA FundingFailPreserves ==
    ASSUME F!ConstantsOK, SubmissionInv, NEW e \in Editors, F!Fail(e) PROVE SubmissionInv'
<1> DEFINE s == submissionOp[e].submission
<1>1. submissionOp[e] # F!Idle /\ F!End(e) /\ UNCHANGED submission
  BY DEF F!Fail
<1>2. submission[s] \in F!Row
  BY <1>1, FundingStands, FundingRowFields DEF SubmissionInv
<1>3. submission' = [submission EXCEPT ![s] = submission[s]]
  BY <1>1 DEF SubmissionInv, F!TypeOK
<1>4. s \notin submissionContended =>
          /\ submission[s].status = "draft" => submission[s].approved = 0
          /\ submission[s].status \notin {"draft", "withdrawn"} => submission[s].requested > 0
          /\ submission[s].approved <= submission[s].requested
  BY <1>1, FundingStands
<1> QED
  BY <1>1, <1>2, <1>3, <1>4, FundingEndPreserves

\* The readings of operations that begin.
LEMMA FundingReadPreserves ==
    ASSUME F!ConstantsOK, SubmissionInv, NEW e \in Editors, NEW s \in One, NEW a \in F!Amounts,
           F!ReadEdit(e, s, a) \/ F!ReadApprove(e, s, a) \/ F!ReadSubmit(e, s)
    PROVE  SubmissionInv'
<1>1. CASE F!ReadEdit(e, s, a)
  BY <1>1, FundingBeginPreserves DEF F!ReadEdit
<1>2. CASE F!ReadApprove(e, s, a)
  BY <1>2, FundingBeginPreserves DEF F!ReadApprove
<1>3. CASE F!ReadSubmit(e, s)
  <2>1. 0 \in F!Amounts
    BY DEF F!Amounts, F!ConstantsOK
  <2> QED
    BY <1>3, <2>1, FundingBeginPreserves DEF F!ReadSubmit
<1> QED
  BY <1>1, <1>2, <1>3

\* Every step of the funding operations keeps the invariant.
LEMMA FundingStepPreserves == ASSUME F!ConstantsOK, SubmissionInv, [F!Next]_F!vars PROVE SubmissionInv'
<1>1. ASSUME NEW s \in One, NEW a \in F!Amounts, F!Create(s, a) PROVE SubmissionInv'
  BY <1>1, FundingCreatePreserves
<1>2. ASSUME NEW s \in One, NEW to \in F!Statuses, F!Move(s, to) PROVE SubmissionInv'
  BY <1>2, FundingMovePreserves
<1>3. ASSUME NEW e \in Editors, NEW s \in One, NEW a \in F!Amounts,
             F!ReadEdit(e, s, a) \/ F!ReadApprove(e, s, a)
      PROVE  SubmissionInv'
  BY <1>3, FundingReadPreserves
<1>4. ASSUME NEW e \in Editors, NEW s \in One, F!ReadSubmit(e, s) PROVE SubmissionInv'
  <2>1. 0 \in F!Amounts
    BY DEF F!Amounts, F!ConstantsOK
  <2> QED
    BY <1>4, <2>1, FundingReadPreserves
<1>5. ASSUME NEW e \in Editors, F!WriteEdit(e) PROVE SubmissionInv'
  BY <1>5, FundingWriteEditPreserves
<1>6. ASSUME NEW e \in Editors, F!WriteSubmit(e) PROVE SubmissionInv'
  BY <1>6, FundingWriteSubmitPreserves
<1>7. ASSUME NEW e \in Editors, F!WriteApprove(e) PROVE SubmissionInv'
  BY <1>7, FundingWriteApprovePreserves
<1>8. ASSUME NEW e \in Editors, F!Fail(e) PROVE SubmissionInv'
  BY <1>8, FundingFailPreserves
<1>9. CASE UNCHANGED F!vars
  BY <1>9 DEF F!vars, SubmissionInv, FundingAlone, F!TypeOK, FundingOpsKnown, FundingOneAtATime, FundingReadingsStand, AskedFirst,
              F!ApprovedWithinAskAlone, FundingAbout, F!Rows
<1> QED
  BY <1>1, <1>2, <1>3, <1>4, <1>5, <1>6, <1>7, <1>8, <1>9 DEF F!Next

LEMMA FundingHolds == ASSUME F!ConstantsOK PROVE F!Spec => []SubmissionInv
<1>1. F!Init => SubmissionInv
  BY FundingInitEstablishes
<1>2. SubmissionInv /\ [F!Next]_F!vars => SubmissionInv'
  BY FundingStepPreserves
<1> QED
  BY <1>1, <1>2, PTL DEF F!Spec

-----------------------------------------------------------------------------
(* The lifecycle *)

\* The abstract status of a submission.
FundingStatus == [s \in One |-> F!StatusOf(s)]

\* One row is made or moves, and the abstract record with it.
LEMMA FundingOneMoves ==
    ASSUME NEW s \in One,
           \A t \in One \ {s} : F!StatusOf(t)' = F!StatusOf(t),
           \/ F!StatusOf(s) = "absent" /\ F!StatusOf(s)' = "draft"
           \/ <<F!StatusOf(s), F!StatusOf(s)'>> \in F!Transitions
    PROVE  F!L!Next
<1>1. F!L!Step(s)
  BY DEF F!L!Step
<1>2. FundingStatus' = [i \in One |-> IF i \in {s} THEN FundingStatus'[i] ELSE FundingStatus[i]]
  BY DEF FundingStatus
<1> QED
  BY <1>1, <1>2 DEF F!L!Next, FundingStatus

\* No row does.
LEMMA FundingNoneMoves ==
    ASSUME \A t \in One : F!StatusOf(t)' = F!StatusOf(t)
    PROVE  UNCHANGED FundingStatus
  BY DEF FundingStatus

\* Whoever replaces one row by another moves one record at most.
LEMMA FundingRowMoves ==
    ASSUME F!ConstantsOK, F!TypeOK, NEW s \in F!Rows, NEW row \in F!Row,
           submission' = [submission EXCEPT ![s] = row],
           row.status = submission[s].status \/ <<submission[s].status, row.status>> \in F!Transitions
    PROVE  F!L!Next \/ UNCHANGED FundingStatus
<1>1. s \in One
  BY DEF F!Rows
<1>2. submission'[s] = row /\ \A t \in One \ {s} : submission'[t] = submission[t]
  BY <1>1 DEF F!TypeOK
<1>3. F!StatusOf(s) = submission[s].status /\ F!StatusOf(s)' = row.status
  BY <1>1, <1>2 DEF F!StatusOf, F!Rows, F!ConstantsOK
<1>4. \A t \in One \ {s} : F!StatusOf(t)' = F!StatusOf(t)
  BY <1>2 DEF F!StatusOf, F!Rows
<1>5. CASE row.status = submission[s].status
  BY <1>3, <1>4, <1>5, FundingNoneMoves
<1>6. CASE <<submission[s].status, row.status>> \in F!Transitions
  BY <1>1, <1>3, <1>4, <1>6, FundingOneMoves
<1> QED
  BY <1>5, <1>6

\* Every step of the funding operations is a step of the lifecycle or none.
LEMMA FundingStepFollows ==
    ASSUME F!ConstantsOK, SubmissionInv, [F!Next]_F!vars
    PROVE  F!L!Next \/ UNCHANGED FundingStatus
<1>1. ASSUME NEW s \in One, NEW a \in F!Amounts, F!Create(s, a) PROVE F!L!Next
  <2> DEFINE row == [status |-> "draft", requested |-> a, approved |-> 0]
  <2>1. row \in F!Row /\ row.status = "draft"
    BY <1>1 DEF F!Row, F!Statuses, F!Amounts, F!ConstantsOK
  <2>2. submission' = [submission EXCEPT ![s] = row] /\ s \notin F!Rows
    BY <1>1 DEF F!Create
  <2> HIDE DEF row
  <2>3. submission'[s] = row /\ \A t \in One \ {s} : submission'[t] = submission[t]
    BY <2>2 DEF SubmissionInv, F!TypeOK
  <2>4. F!StatusOf(s) = "absent" /\ F!StatusOf(s)' = "draft"
    BY <2>1, <2>2, <2>3 DEF F!StatusOf, F!Rows, F!ConstantsOK
  <2>5. \A t \in One \ {s} : F!StatusOf(t)' = F!StatusOf(t)
    BY <2>3 DEF F!StatusOf, F!Rows
  <2> QED
    BY <2>4, <2>5, FundingOneMoves
<1>2. ASSUME NEW s \in One, NEW to \in F!Statuses, F!Move(s, to)
      PROVE  F!L!Next \/ UNCHANGED FundingStatus
  <2> DEFINE row == [submission[s] EXCEPT !.status = to]
  <2>1. s \in F!Rows /\ submission[s] \in F!Row
    BY <1>2, FundingRowFields DEF F!Move, SubmissionInv
  <2>2. row \in F!Row /\ row.status = to
    BY <2>1 DEF F!Row
  <2>3. submission' = [submission EXCEPT ![s] = row] /\ <<submission[s].status, to>> \in F!Transitions
    BY <1>2 DEF F!Move
  <2> HIDE DEF row
  <2> QED
    BY <2>1, <2>2, <2>3, FundingRowMoves DEF SubmissionInv
<1>3. ASSUME UNCHANGED submission PROVE UNCHANGED FundingStatus
  BY <1>3, FundingNoneMoves DEF F!StatusOf, F!Rows
<1>4. ASSUME NEW e \in Editors, F!WriteEdit(e) PROVE F!L!Next \/ UNCHANGED FundingStatus
  <2> DEFINE s == submissionOp[e].submission
             row == [submission[s] EXCEPT !.requested = submissionOp[e].amount]
  <2>1. submissionOp[e] # F!Idle
    BY <1>4, FundingKindNotIdle DEF F!WriteEdit
  <2>2. s \in F!Rows /\ submission[s] \in F!Row /\ submissionOp[e].amount \in F!Amounts
    BY <2>1, FundingStands, FundingRowFields, FundingOpFields DEF SubmissionInv
  <2>3. row \in F!Row /\ row.status = submission[s].status
    BY <2>2 DEF F!Row
  <2>4. submission' = [submission EXCEPT ![s] = row]
    BY <1>4 DEF F!WriteEdit
  <2> HIDE DEF row
  <2> QED
    BY <2>2, <2>3, <2>4, FundingRowMoves DEF SubmissionInv
<1>5. ASSUME NEW e \in Editors, F!WriteSubmit(e) PROVE F!L!Next \/ UNCHANGED FundingStatus
  <2> DEFINE s == submissionOp[e].submission
             row == [submission[s] EXCEPT !.status = "submitted"]
  <2>1. submissionOp[e] # F!Idle
    BY <1>5, FundingKindNotIdle DEF F!WriteSubmit
  <2>2. s \in F!Rows /\ submission[s] \in F!Row
    BY <2>1, FundingStands, FundingRowFields DEF SubmissionInv
  <2>3. row \in F!Row /\ row.status = "submitted"
    BY <2>2 DEF F!Row, F!Statuses
  <2>4. submission' = [submission EXCEPT ![s] = row] /\ submission[s].status = "draft"
    BY <1>5 DEF F!WriteSubmit
  <2>5. <<submission[s].status, row.status>> \in F!Transitions
    BY <2>3, <2>4 DEF F!Transitions
  <2> HIDE DEF row
  <2> QED
    BY <2>2, <2>3, <2>4, <2>5, FundingRowMoves DEF SubmissionInv
<1>6. ASSUME NEW e \in Editors, F!WriteApprove(e) PROVE F!L!Next \/ UNCHANGED FundingStatus
  <2> DEFINE s == submissionOp[e].submission
             row == [submission[s] EXCEPT !.status = "approved", !.approved = submissionOp[e].amount]
  <2>1. submissionOp[e] # F!Idle
    BY <1>6, FundingKindNotIdle DEF F!WriteApprove
  <2>2. s \in F!Rows /\ submission[s] \in F!Row /\ submissionOp[e].amount \in F!Amounts
    BY <2>1, FundingStands, FundingRowFields, FundingOpFields DEF SubmissionInv
  <2>3. row \in F!Row /\ row.status = "approved"
    BY <2>2 DEF F!Row, F!Statuses
  <2>4. submission' = [submission EXCEPT ![s] = row]
    BY <1>6, <2>2 DEF F!WriteApprove, SubmissionInv, F!TypeOK, F!Rows
  <2>5. <<submission[s].status, row.status>> \in F!Transitions
    BY <1>6, <2>3 DEF F!WriteApprove, F!Transitions
  <2> HIDE DEF row
  <2> QED
    BY <2>2, <2>3, <2>4, <2>5, FundingRowMoves DEF SubmissionInv
<1> QED
  BY <1>1, <1>2, <1>3, <1>4, <1>5, <1>6
     DEF F!Next, F!vars, F!ReadEdit, F!ReadApprove, F!ReadSubmit, F!Begin, F!Fail

\* No submission, nothing in the lifecycle.
LEMMA FundingInitFollows == ASSUME F!Init PROVE F!L!Init
  BY DEF F!Init, F!L!Init, F!StatusOf, F!Rows

-----------------------------------------------------------------------------

\* The table of funding/operations.ts keeps its type.
THEOREM FundingTyped == ASSUME F!ConstantsOK PROVE F!Spec => []F!TypeOK
<1>1. SubmissionInv => F!TypeOK
  BY DEF SubmissionInv
<1> QED
  BY <1>1, FundingHolds, PTL

\* An approval that no other operation overlapped is within the ask
\* (approveSubmissionOp).
THEOREM ApprovalWithinAsk == ASSUME F!ConstantsOK PROVE F!Spec => []F!ApprovedWithinAskAlone
<1>1. SubmissionInv => F!ApprovedWithinAskAlone
  BY DEF SubmissionInv, FundingAlone
<1> QED
  BY <1>1, FundingHolds, PTL

\* Submissions implement the lifecycle of TRANSITIONS, overlaps included
\* (funding/lifecycle.ts).
THEOREM FundingLifecycle == ASSUME F!ConstantsOK PROVE F!Spec => F!FundingFollowsLifecycle
<1>1. F!Init => F!L!Init
  BY FundingInitFollows
<1>2. SubmissionInv /\ [F!Next]_F!vars => [F!L!Next]_FundingStatus
  BY FundingStepFollows
<1> QED
  BY <1>1, <1>2, FundingHolds, PTL DEF F!Spec, F!FundingFollowsLifecycle, F!L!Spec, FundingStatus

LEMMA FundingInvariance == ASSUME F!ConstantsOK
    PROVE  F!Spec => []F!TypeOK /\ []F!ApprovedWithinAskAlone /\ F!FundingFollowsLifecycle
<1> QED
  BY FundingTyped, ApprovalWithinAsk, FundingLifecycle, PTL

-----------------------------------------------------------------------------
(* Private offers: the sync and the hand decide on one offer *)

\* A pending edit or move is of a row, along an edge; a match is of a row that
\* was sent.
OfferOpsHold ==
    \A e \in Editors :
        /\ offerOp[e].kind \in {"edit", "move"} => offerOp[e].offer \in O!Rows
        /\ offerOp[e].kind = "move" => <<offerOp[e].from, offerOp[e].to>> \in O!Transitions
        /\ offerOp[e].kind = "sync" =>
              \A f \in Two : offerOp[e].match[f] # None => f \in O!Rows

OfferInv == O!TypeOK /\ OfferOpsHold /\ O!LinkedIsAccepted

LEMMA OfferRowFields ==
    ASSUME O!TypeOK, O!ConstantsOK, NEW f \in O!Rows
    PROVE  /\ f \in Two /\ offer[f] \in O!Row
           /\ offer[f].status \in O!Statuses
           /\ offer[f].customer \in One \cup {None}
           /\ offer[f].agreement \in One \cup {None}
  BY DEF O!TypeOK, O!Rows, O!Row

LEMMA OfferOpFields ==
    ASSUME O!TypeOK, NEW e \in Editors
    PROVE  /\ offerOp[e].kind \in {"idle", "edit", "move", "sync"}
           /\ offerOp[e].kind = "edit" =>
                 offerOp[e].offer \in Two /\ offerOp[e].customer \in One \cup {None}
           /\ offerOp[e].kind = "move" =>
                 /\ offerOp[e].offer \in Two
                 /\ offerOp[e].from \in O!Statuses /\ offerOp[e].to \in O!Statuses
           /\ offerOp[e].kind = "sync" =>
                 /\ offerOp[e].synced \in O!Synced
                 /\ offerOp[e].match \in [Two -> One \cup {None}]
           /\ O!Idle \in O!Op /\ O!Idle.kind = "idle"
<1>1. offerOp[e] \in O!Op
  BY DEF O!TypeOK
<1>2. O!Idle \in O!Op /\ O!Idle.kind = "idle"
  BY DEF O!Idle, O!Op
<1>3. QED
  BY <1>1, <1>2 DEF O!Op, O!Idle

LEMMA OfferInit == ASSUME O!ConstantsOK, O!Init PROVE OfferInv
  BY DEF O!Init, OfferInv, O!TypeOK, OfferOpsHold, O!LinkedIsAccepted, O!Rows, O!Op,
         O!Idle, O!Synced

\* A read that leaves the tables and remembers a true reading.
LEMMA OfferBeginPreserves ==
    ASSUME O!ConstantsOK, OfferInv, NEW e \in Editors, NEW o \in O!Op, O!Begin(e, o),
           o.kind \in {"edit", "move"} => o.offer \in O!Rows,
           o.kind = "move" => <<o.from, o.to>> \in O!Transitions,
           o.kind = "sync" => \A f \in Two : o.match[f] # None => f \in O!Rows
    PROVE  OfferInv'
<1>1. offerOp' = [offerOp EXCEPT ![e] = o] /\ offer' = offer /\ agreement' = agreement
  BY DEF O!Begin
<1>2. O!TypeOK' /\ O!Rows' = O!Rows
  BY <1>1 DEF OfferInv, O!TypeOK, O!Rows
<1>3. OfferOpsHold'
  BY <1>1, <1>2 DEF OfferInv, OfferOpsHold, O!TypeOK
<1>4. QED
  BY <1>1, <1>2, <1>3 DEF OfferInv, O!LinkedIsAccepted

\* An end of an operation that leaves every row a row.
LEMMA OfferEndPreserves ==
    ASSUME O!ConstantsOK, OfferInv, NEW e \in Editors, O!End(e),
           offer' \in [Two -> O!Row \cup {None}], agreement' \in O!Synced,
           O!Rows \subseteq O!Rows',
           \A f \in O!Rows' : offer'[f].agreement # None => offer'[f].status = "accepted"
    PROVE  OfferInv'
<1>1. offerOp' = [offerOp EXCEPT ![e] = O!Idle]
  BY DEF O!End
<1>2. O!TypeOK'
  BY <1>1, OfferOpFields DEF OfferInv, O!TypeOK
<1>3. OfferOpsHold'
  BY <1>1, OfferOpFields DEF OfferInv, OfferOpsHold, O!TypeOK
<1>4. QED
  BY <1>2, <1>3 DEF OfferInv, O!LinkedIsAccepted

\* An operation that replaces one row by another.
LEMMA OfferWritePreserves ==
    ASSUME O!ConstantsOK, OfferInv, NEW e \in Editors, O!End(e), agreement' = agreement,
           NEW f \in O!Rows, NEW row \in O!Row, offer' = [offer EXCEPT ![f] = row],
           row.agreement # None => row.status = "accepted"
    PROVE  OfferInv'
<1>1. f \in Two /\ offer \in [Two -> O!Row \cup {None}]
  BY DEF OfferInv, O!TypeOK, O!Rows
<1>2. /\ offer' \in [Two -> O!Row \cup {None}]
      /\ offer'[f] = row /\ \A g \in Two \ {f} : offer'[g] = offer[g]
  BY <1>1
<1>3. O!Rows \subseteq O!Rows'
  BY <1>2 DEF O!Rows, O!ConstantsOK
<1>4. \A g \in O!Rows' : offer'[g].agreement # None => offer'[g].status = "accepted"
  BY <1>2 DEF OfferInv, O!LinkedIsAccepted, O!Rows
<1>5. QED
  BY <1>2, <1>3, <1>4, OfferEndPreserves DEF OfferInv, O!TypeOK

LEMMA OfferStep == ASSUME O!ConstantsOK, OfferInv, [O!Next]_O!vars PROVE OfferInv'
<1>1. ASSUME NEW f \in Two, NEW c \in One \cup {None}, O!Create(f, c) PROVE OfferInv'
  <2> DEFINE row == [status |-> "draft", customer |-> c, agreement |-> None]
  <2>1. row \in O!Row /\ row.agreement = None
    BY DEF O!Row, O!Statuses
  <2>2. offer' = [offer EXCEPT ![f] = row] /\ f \notin O!Rows /\ UNCHANGED <<agreement, offerOp>>
    BY <1>1 DEF O!Create
  <2> HIDE DEF row
  <2>3. /\ offer' \in [Two -> O!Row \cup {None}]
        /\ offer'[f] = row /\ \A g \in Two \ {f} : offer'[g] = offer[g]
    BY <2>1, <2>2 DEF OfferInv, O!TypeOK
  <2>4. O!Rows \subseteq O!Rows'
    BY <2>1, <2>3 DEF O!Rows, O!ConstantsOK
  <2>5. QED
    BY <2>1, <2>2, <2>3, <2>4 DEF OfferInv, O!TypeOK, OfferOpsHold, O!LinkedIsAccepted, O!Rows
<1>2. ASSUME NEW e \in Editors, NEW f \in Two, NEW c \in One \cup {None}, O!ReadEdit(e, f, c)
      PROVE  OfferInv'
  <2> DEFINE o == [kind |-> "edit", offer |-> f, customer |-> c]
  <2>1. o \in O!Op /\ o.kind = "edit" /\ o.offer = f
    BY DEF O!Op
  <2>2. O!Begin(e, o) /\ f \in O!Rows
    BY <1>2 DEF O!ReadEdit
  <2> HIDE DEF o
  <2>3. QED
    BY <2>1, <2>2, OfferBeginPreserves
<1>3. ASSUME NEW e \in Editors, NEW f \in Two, NEW to \in O!Statuses, O!ReadMove(e, f, to)
      PROVE  OfferInv'
  <2> DEFINE o == [kind |-> "move", offer |-> f, from |-> offer[f].status, to |-> to]
  <2>1. O!Begin(e, o) /\ f \in O!Rows /\ <<offer[f].status, to>> \in O!Transitions
    BY <1>3 DEF O!ReadMove
  <2>2. o \in O!Op /\ o.kind = "move" /\ o.offer = f /\ o.from = offer[f].status /\ o.to = to
    BY <2>1, OfferRowFields DEF O!Op, OfferInv
  <2> HIDE DEF o
  <2>3. QED
    BY <2>1, <2>2, OfferBeginPreserves
<1>4. ASSUME NEW e \in Editors, NEW synced \in O!Synced, O!ReadSync(e, synced) PROVE OfferInv'
  <2>1. PICK match \in [Two -> One \cup {None}] :
            /\ \A f \in Two : match[f] # None => f \in O!Rows
            /\ O!Begin(e, [kind |-> "sync", synced |-> synced, match |-> match])
    BY <1>4 DEF O!ReadSync
  <2> DEFINE o == [kind |-> "sync", synced |-> synced, match |-> match]
  <2>2. o \in O!Op /\ o.kind = "sync" /\ o.match = match
    BY <2>1 DEF O!Op
  <2>3. O!Begin(e, o) /\ \A f \in Two : o.match[f] # None => f \in O!Rows
    BY <2>1
  <2> HIDE DEF o
  <2>4. QED
    BY <2>2, <2>3, OfferBeginPreserves
<1>5. ASSUME NEW e \in Editors, O!WriteEdit(e) PROVE OfferInv'
  <2> DEFINE f == offerOp[e].offer
             row == [offer[f] EXCEPT !.customer = offerOp[e].customer]
  <2>1. f \in O!Rows /\ offerOp[e].customer \in One \cup {None}
    BY <1>5, OfferOpFields DEF O!WriteEdit, OfferInv, OfferOpsHold
  <2>2. row \in O!Row /\ row.agreement = offer[f].agreement /\ row.status = offer[f].status
    BY <2>1, OfferRowFields DEF OfferInv, O!Row
  <2>3. offer' = [offer EXCEPT ![f] = row] /\ O!End(e) /\ agreement' = agreement
    BY <1>5 DEF O!WriteEdit
  <2>4. row.agreement # None => row.status = "accepted"
    BY <2>1, <2>2 DEF OfferInv, O!LinkedIsAccepted
  <2> HIDE DEF row, f
  <2>5. QED
    BY <2>1, <2>2, <2>3, <2>4, OfferWritePreserves
<1>6. ASSUME NEW e \in Editors, O!WriteMove(e) PROVE OfferInv'
  <2> DEFINE f == offerOp[e].offer
             row == [offer[f] EXCEPT !.status = offerOp[e].to]
  <2>1. /\ f \in O!Rows /\ offerOp[e].to \in O!Statuses
        /\ <<offer[f].status, offerOp[e].to>> \in O!Transitions
    BY <1>6, OfferOpFields DEF O!WriteMove, OfferInv, OfferOpsHold
  <2>2. row \in O!Row /\ row.agreement = offer[f].agreement
    BY <2>1, OfferRowFields DEF OfferInv, O!Row
  <2>3. offer' = [offer EXCEPT ![f] = row] /\ O!End(e) /\ agreement' = agreement
    BY <1>6 DEF O!WriteMove
  <2>4. offer[f].status # "accepted"
    BY <2>1 DEF O!Transitions
  <2>5. row.agreement = None
    BY <2>1, <2>2, <2>4, SMTT(30) DEF OfferInv, O!LinkedIsAccepted
  <2> HIDE DEF row, f
  <2>6. QED
    BY <2>1, <2>2, <2>3, <2>5, OfferWritePreserves
<1>7. ASSUME NEW e \in Editors, O!WriteSync(e) PROVE OfferInv'
  <2> DEFINE m == offerOp[e].match
  <2>1. /\ m \in [Two -> One \cup {None}] /\ offerOp[e].synced \in O!Synced
        /\ \A f \in Two : m[f] # None => f \in O!Rows
    BY <1>7, OfferOpFields DEF O!WriteSync, OfferInv, OfferOpsHold
  <2>2. /\ agreement' = O!Upserted(offerOp[e].synced) /\ O!End(e)
        /\ offer' = [f \in Two |-> IF m[f] # None /\ offer[f].status = "sent"
                       THEN [offer[f] EXCEPT !.status = "accepted", !.agreement = m[f]]
                       ELSE offer[f]]
    BY <1>7 DEF O!WriteSync
  <2> HIDE DEF m
  <2>3. \A f \in Two : m[f] # None =>
            /\ [offer[f] EXCEPT !.status = "accepted", !.agreement = m[f]] \in O!Row
            /\ [offer[f] EXCEPT !.status = "accepted", !.agreement = m[f]].status = "accepted"
    BY <2>1, OfferRowFields DEF OfferInv, O!Row, O!Statuses
  <2>4. offer' \in [Two -> O!Row \cup {None}]
    BY <2>2, <2>3 DEF OfferInv, O!TypeOK
  <2>5. O!Rows \subseteq O!Rows'
    BY <2>2, <2>3 DEF O!Rows, O!ConstantsOK
  <2>6. \A f \in O!Rows' : offer'[f].agreement # None => offer'[f].status = "accepted"
    BY <2>2, <2>3 DEF OfferInv, O!LinkedIsAccepted, O!Rows
  <2>7. agreement' \in O!Synced
    BY <2>1, <2>2 DEF OfferInv, O!TypeOK, O!Synced, O!Upserted
  <2>8. QED
    BY <2>1, <2>2, <2>4, <2>5, <2>6, <2>7, OfferEndPreserves
<1>8. ASSUME NEW e \in Editors, O!Fail(e) PROVE OfferInv'
  <2>1. O!End(e) /\ UNCHANGED <<offer, agreement>>
    BY <1>8 DEF O!Fail
  <2>2. O!Rows' = O!Rows
    BY <2>1 DEF O!Rows
  <2>3. QED
    BY <2>1, <2>2, OfferEndPreserves DEF OfferInv, O!TypeOK, O!LinkedIsAccepted
<1>9. CASE UNCHANGED O!vars
  BY <1>9 DEF O!vars, OfferInv, O!TypeOK, OfferOpsHold, O!LinkedIsAccepted, O!Rows
<1>10. QED
  BY <1>1, <1>2, <1>3, <1>4, <1>5, <1>6, <1>7, <1>8, <1>9 DEF O!Next

LEMMA OfferInvariance == ASSUME O!ConstantsOK PROVE O!Spec => []OfferInv
  BY OfferInit, OfferStep, PTL DEF O!Spec

-----------------------------------------------------------------------------

OfferStatus == [f \in Two |-> O!StatusOf(f)]

\* Whatever moves each offer along an edge, or not at all, is a step of the
\* lifecycle or none.
LEMMA OffersMove ==
    ASSUME \A f \in Two :
               \/ O!StatusOf(f)' = O!StatusOf(f)
               \/ O!StatusOf(f) = "absent" /\ O!StatusOf(f)' = "draft"
               \/ <<O!StatusOf(f), O!StatusOf(f)'>> \in O!Transitions
    PROVE  [O!L!Next]_OfferStatus
<1> DEFINE moved == {f \in Two : O!StatusOf(f)' # O!StatusOf(f)}
<1>1. moved \in SUBSET Two /\ \A f \in moved : O!L!Step(f)
  BY DEF O!L!Step
<1>2. OfferStatus' = [f \in Two |-> IF f \in moved THEN OfferStatus'[f] ELSE OfferStatus[f]]
  BY DEF OfferStatus
<1>3. QED
  BY <1>1, <1>2 DEF O!L!Next, OfferStatus

LEMMA OfferStepFollows ==
    ASSUME O!ConstantsOK, OfferInv, [O!Next]_O!vars
    PROVE  [O!L!Next]_OfferStatus
<1>1. ASSUME UNCHANGED offer PROVE [O!L!Next]_OfferStatus
  BY <1>1, OffersMove DEF O!StatusOf, O!Rows
<1>2. ASSUME NEW f \in Two, NEW row \in O!Row, offer' = [offer EXCEPT ![f] = row],
             \/ f \notin O!Rows /\ row.status = "draft"
             \/ /\ f \in O!Rows
                /\ \/ row.status = offer[f].status
                   \/ <<offer[f].status, row.status>> \in O!Transitions
      PROVE [O!L!Next]_OfferStatus
  <2>1. offer'[f] = row /\ row # None /\ \A g \in Two \ {f} : offer'[g] = offer[g]
    BY <1>2 DEF OfferInv, O!TypeOK, O!ConstantsOK
  <2>2. \A g \in Two \ {f} : O!StatusOf(g)' = O!StatusOf(g)
    BY <2>1 DEF O!StatusOf, O!Rows
  <2>3. O!StatusOf(f)' = row.status
    BY <2>1 DEF O!StatusOf, O!Rows
  <2>4. O!StatusOf(f) = IF f \in O!Rows THEN offer[f].status ELSE "absent"
    BY DEF O!StatusOf
  <2>5. QED
    BY <1>2, <2>2, <2>3, <2>4, OffersMove
<1>3. ASSUME NEW f \in Two, NEW c \in One \cup {None}, O!Create(f, c)
      PROVE [O!L!Next]_OfferStatus
  <2> DEFINE row == [status |-> "draft", customer |-> c, agreement |-> None]
  <2>1. row \in O!Row /\ row.status = "draft"
    BY DEF O!Row, O!Statuses
  <2>2. offer' = [offer EXCEPT ![f] = row] /\ f \notin O!Rows
    BY <1>3 DEF O!Create
  <2> HIDE DEF row
  <2>3. QED
    BY <1>2, <2>1, <2>2
<1>4. ASSUME NEW e \in Editors, O!WriteEdit(e) PROVE [O!L!Next]_OfferStatus
  <2> DEFINE f == offerOp[e].offer
             row == [offer[f] EXCEPT !.customer = offerOp[e].customer]
  <2>1. f \in O!Rows /\ f \in Two /\ offerOp[e].customer \in One \cup {None}
    BY <1>4, OfferOpFields DEF O!WriteEdit, OfferInv, OfferOpsHold
  <2>2. row \in O!Row /\ row.status = offer[f].status
    BY <2>1, OfferRowFields DEF OfferInv, O!Row
  <2>3. offer' = [offer EXCEPT ![f] = row]
    BY <1>4 DEF O!WriteEdit
  <2> HIDE DEF row, f
  <2>4. QED
    BY <1>2, <2>1, <2>2, <2>3
<1>5. ASSUME NEW e \in Editors, O!WriteMove(e) PROVE [O!L!Next]_OfferStatus
  <2> DEFINE f == offerOp[e].offer
             row == [offer[f] EXCEPT !.status = offerOp[e].to]
  <2>1. /\ f \in O!Rows /\ f \in Two /\ offerOp[e].to \in O!Statuses
        /\ <<offer[f].status, offerOp[e].to>> \in O!Transitions
    BY <1>5, OfferOpFields DEF O!WriteMove, OfferInv, OfferOpsHold
  <2>2. row \in O!Row /\ row.status = offerOp[e].to
    BY <2>1, OfferRowFields DEF OfferInv, O!Row
  <2>3. offer' = [offer EXCEPT ![f] = row]
    BY <1>5 DEF O!WriteMove
  <2>4. <<offer[f].status, row.status>> \in O!Transitions
    BY <2>1, <2>2
  <2> HIDE DEF row, f
  <2>5. QED
    BY <1>2, <2>1, <2>2, <2>3, <2>4
<1>6. ASSUME NEW e \in Editors, O!WriteSync(e) PROVE [O!L!Next]_OfferStatus
  <2> DEFINE m == offerOp[e].match
  <2>1. m \in [Two -> One \cup {None}] /\ \A f \in Two : m[f] # None => f \in O!Rows
    BY <1>6, OfferOpFields DEF O!WriteSync, OfferInv, OfferOpsHold
  <2>2. offer' = [f \in Two |-> IF m[f] # None /\ offer[f].status = "sent"
                    THEN [offer[f] EXCEPT !.status = "accepted", !.agreement = m[f]]
                    ELSE offer[f]]
    BY <1>6 DEF O!WriteSync
  <2> HIDE DEF m
  <2>3. SUFFICES ASSUME NEW f \in Two
                 PROVE  \/ O!StatusOf(f)' = O!StatusOf(f)
                        \/ <<O!StatusOf(f), O!StatusOf(f)'>> \in O!Transitions
    BY OffersMove
  <2>4. CASE m[f] # None /\ offer[f].status = "sent"
    <3> DEFINE row == [offer[f] EXCEPT !.status = "accepted", !.agreement = m[f]]
    <3>1. f \in O!Rows /\ offer'[f] = row
      BY <2>1, <2>2, <2>4
    <3>2. row.status = "accepted" /\ row \in O!Row
      BY <2>1, <3>1, OfferRowFields DEF OfferInv, O!Row, O!Statuses
    <3>3. row # None
      BY <3>2 DEF O!ConstantsOK
    <3> HIDE DEF row
    <3>4. O!StatusOf(f) = "sent" /\ O!StatusOf(f)' = "accepted"
      BY <2>4, <3>1, <3>2, <3>3 DEF O!StatusOf, O!Rows
    <3>5. QED
      BY <3>4 DEF O!Transitions
  <2>5. CASE ~(m[f] # None /\ offer[f].status = "sent")
    BY <2>2, <2>5 DEF O!StatusOf, O!Rows
  <2>6. QED
    BY <2>4, <2>5
<1>7. QED
  BY <1>1, <1>3, <1>4, <1>5, <1>6
  DEF O!Next, O!vars, O!ReadEdit, O!ReadMove, O!ReadSync, O!Begin, O!Fail

\* Offers take the transitions of marketplace/private-offers.ts.
LEMMA OffersFollow == ASSUME O!ConstantsOK PROVE O!Spec => O!OffersFollowLifecycle
<1>1. O!Init => O!L!Init
  BY DEF O!Init, O!L!Init, O!StatusOf, O!Rows
<1>2. OfferInv /\ [O!Next]_O!vars => [O!L!Next]_OfferStatus
  BY OfferStepFollows
<1>3. QED
  BY <1>1, <1>2, OfferInvariance, PTL DEF O!Spec, O!OffersFollowLifecycle, O!L!Spec, OfferStatus

-----------------------------------------------------------------------------
(* Metering: results are matched with a batch by their position *)

\* What the answer of AWS that a call carries says of its records.
Carried(c) ==
    IF call[c].kind = "submitted" THEN {[source |-> None, outcome |-> call[c].outcome]}
    ELSE IF call[c].kind = "answered" THEN call[c].items
    ELSE {}

\* A batch that was read names rows, each once.
BatchesHold ==
    \A c \in Editors : call[c].kind = "eligible" =>
        /\ \A i \in DOMAIN call[c].batch : call[c].batch[i] \in M!Rows
        /\ \A i, j \in DOMAIN call[c].batch : call[c].batch[i] = call[c].batch[j] => i = j

\* The retry of a record has claimed it.
SourcesClaimed ==
    \A r \in M!Rows : record[r].source # None =>
        /\ record[r].source \in M!Rows
        /\ record[record[r].source].retried

\* A receipt under way was given for the usage it comes with, is on no record
\* and comes once; a source comes once in an answer.
CarriedOnce ==
    \A c \in Editors : \A i \in Carried(c) :
        /\ i.outcome.receipt # None =>
              /\ i.outcome.receipt \in billed[i.outcome.usage]
              /\ \A r \in M!Rows : record[r].outcome.receipt # i.outcome.receipt
              /\ \A d \in Editors : \A j \in Carried(d) :
                    j.outcome.receipt = i.outcome.receipt => c = d /\ i = j
        /\ \A j \in Carried(c) : i.source = j.source => i = j

MeteringInv ==
    /\ M!TypeOK
    /\ call = [c \in Editors |-> call[c]]
    /\ BatchesHold
    /\ SourcesClaimed
    /\ CarriedOnce
    /\ M!RetriedOnce
    /\ M!ReceiptOnce

\* What a row, an action in flight and an answer are made of.
LEMMA MeteringRowFields ==
    ASSUME M!TypeOK, NEW r \in M!Rows
    PROVE  /\ r \in Three /\ record[r] \in M!Row
           /\ record[r].outcome \in M!Outcome /\ record[r].outcome.usage \in Two
           /\ record[r].source \in Three \cup {None}
  BY DEF M!TypeOK, M!Rows, M!Row, M!Outcome

LEMMA MeteringCallFields ==
    ASSUME M!TypeOK, NEW c \in Editors
    PROVE  /\ call[c].kind = "submitted" => call[c].outcome \in M!Outcome
           /\ call[c].kind = "eligible" => call[c].batch \in M!Batches
           /\ call[c].kind = "answered" => call[c].items \in SUBSET M!Item
           /\ M!Idle \in M!Call /\ M!Idle.kind = "idle"
<1>1. call[c] \in M!Call
  BY DEF M!TypeOK
<1>2. M!Idle \in M!Call /\ M!Idle.kind = "idle"
  BY DEF M!Call, M!Idle
<1>3. QED
  BY <1>1, <1>2 DEF M!Call, M!Idle

LEMMA CarriedFields ==
    ASSUME M!TypeOK, NEW c \in Editors, NEW i \in Carried(c)
    PROVE  /\ i.outcome \in M!Outcome /\ i.outcome.usage \in Two
           /\ i.outcome.receipt \in Two \cup {None}
           /\ i.source \in Three \cup {None}
<1>1. CASE call[c].kind = "submitted"
  BY <1>1, MeteringCallFields DEF Carried, M!Outcome
<1>2. CASE call[c].kind = "answered"
  BY <1>2, MeteringCallFields DEF Carried, M!Item, M!Outcome
<1>3. QED
  BY <1>1, <1>2 DEF Carried

LEMMA MeteringInit == ASSUME M!ConstantsOK, M!Init PROVE MeteringInv
<1>1. \A c \in Editors : call[c] = M!Idle /\ M!Idle.kind = "idle" /\ M!Idle \in M!Call
  BY DEF M!Init, M!Idle, M!Call
<1>2. M!Rows = {}
  BY DEF M!Init, M!Rows
<1>3. \A c \in Editors : Carried(c) = {}
  BY <1>1 DEF Carried
<1>4. M!TypeOK /\ call = [c \in Editors |-> call[c]]
  BY <1>1 DEF M!Init, M!TypeOK
<1>5. QED
  BY <1>1, <1>2, <1>3, <1>4
  DEF MeteringInv, BatchesHold, SourcesClaimed, CarriedOnce, M!RetriedOnce, M!ReceiptOnce

\* An action in flight takes up what it has read, or an answer with receipts
\* that are new.
LEMMA MeteringAnswerPreserves ==
    ASSUME M!ConstantsOK, MeteringInv, NEW c \in Editors, NEW what \in M!Call,
           call' = [call EXCEPT ![c] = what],
           record' = record,
           billed' \in [Two -> SUBSET Two], \A u \in Two : billed[u] \subseteq billed'[u],
           what.kind = "eligible" =>
              /\ \A i \in DOMAIN what.batch : what.batch[i] \in M!Rows
              /\ \A i, j \in DOMAIN what.batch : what.batch[i] = what.batch[j] => i = j,
           \A i \in Carried(c)' :
              /\ i.outcome.receipt # None =>
                    /\ i.outcome.receipt \in M!Unused
                    /\ i.outcome.receipt \in billed'[i.outcome.usage]
                    /\ \A j \in Carried(c)' : j.outcome.receipt = i.outcome.receipt => i = j
              /\ \A j \in Carried(c)' : i.source = j.source => i = j
    PROVE  MeteringInv'
<1>0. \A d \in Editors : call'[d] = IF d = c THEN what ELSE call[d]
  BY DEF MeteringInv
<1>1. M!Rows' = M!Rows
  BY DEF M!Rows
<1>2. M!TypeOK' /\ (call = [d \in Editors |-> call[d]])'
  BY <1>0 DEF MeteringInv, M!TypeOK
<1>3. BatchesHold'
  BY <1>0, <1>1 DEF MeteringInv, BatchesHold
<1>4. SourcesClaimed' /\ M!RetriedOnce'
  BY <1>1 DEF MeteringInv, SourcesClaimed, M!RetriedOnce
<1>5. \A d \in Editors \ {c} : Carried(d)' = Carried(d)
  BY <1>0 DEF Carried
<1>6. \A q \in M!Unused : \A u \in Two : q \notin billed[u]
  BY DEF M!Unused
<1>7. \A r \in M!Rows : record[r].outcome.receipt # None =>
          /\ record[r].outcome.receipt \notin M!Unused
          /\ record[r].outcome.receipt \in billed'[M!UsageOf(r)]
  BY <1>6, MeteringRowFields DEF MeteringInv, M!ReceiptOnce, M!UsageOf
<1>8. \A d \in Editors : \A i \in Carried(d) : i.outcome.receipt # None =>
          /\ i.outcome.receipt \notin M!Unused
          /\ i.outcome.receipt \in billed'[i.outcome.usage]
  BY <1>6, CarriedFields DEF MeteringInv, CarriedOnce
<1>9. M!ReceiptOnce'
  BY <1>1, <1>7 DEF MeteringInv, M!ReceiptOnce, M!UsageOf
<1>10. CarriedOnce'
  <2> SUFFICES ASSUME NEW d \in Editors, NEW i \in Carried(d)'
               PROVE  /\ i.outcome.receipt # None =>
                            /\ i.outcome.receipt \in billed'[i.outcome.usage]
                            /\ \A r \in M!Rows : record[r].outcome.receipt # i.outcome.receipt
                            /\ \A e \in Editors : \A j \in Carried(e)' :
                                  j.outcome.receipt = i.outcome.receipt => d = e /\ i = j
                      /\ \A j \in Carried(d)' : i.source = j.source => i = j
    BY <1>1 DEF CarriedOnce
  <2>1. CASE d = c
    BY <1>5, <1>7, <1>8, <2>1
  <2>2. CASE d # c
    BY <1>5, <1>8, <2>2 DEF MeteringInv, CarriedOnce
  <2>3. QED
    BY <2>1, <2>2
<1>11. QED
  BY <1>2, <1>3, <1>4, <1>9, <1>10 DEF MeteringInv

\* An action in flight ends with new rows of its own answer, each of another
\* item, and claims their sources.
LEMMA MeteringEndPreserves ==
    ASSUME M!ConstantsOK, MeteringInv, NEW c \in Editors,
           M!End(c),
           billed' = billed,
           record' \in [Three -> M!Row \cup {None}],
           \A r \in M!Rows :
              /\ record'[r] # None
              /\ record'[r].outcome = record[r].outcome
              /\ record'[r].source = record[r].source
              /\ record[r].retried => record'[r].retried,
           NEW own,
           \A r \in M!Rows' \ M!Rows :
              /\ own[r] \in Carried(c)
              /\ record'[r].outcome = own[r].outcome
              /\ record'[r].source = own[r].source
              /\ \A s \in M!Rows' \ M!Rows : own[r] = own[s] => r = s
              /\ own[r].source # None =>
                    /\ own[r].source \in M!Rows
                    /\ ~record[own[r].source].retried
                    /\ record'[own[r].source].retried
    PROVE  MeteringInv'
<1> DEFINE new == M!Rows' \ M!Rows
<1>0. /\ \A d \in Editors : call'[d] = IF d = c THEN M!Idle ELSE call[d]
      /\ (call = [d \in Editors |-> call[d]])'
  BY DEF MeteringInv, M!End
<1>1. M!Rows \subseteq M!Rows' /\ \A r \in M!Rows' : r \in M!Rows \/ r \in new
  BY DEF M!Rows, MeteringInv, M!TypeOK
<1>2. M!TypeOK'
  BY <1>0, MeteringCallFields DEF MeteringInv, M!TypeOK
<1>3. BatchesHold'
  BY <1>0, <1>1, MeteringCallFields DEF MeteringInv, BatchesHold
<1>4. SourcesClaimed'
  BY <1>1 DEF MeteringInv, SourcesClaimed
<1>5. Carried(c)' = {} /\ \A d \in Editors \ {c} : Carried(d)' = Carried(d)
  BY <1>0, MeteringCallFields DEF Carried, MeteringInv
<1>6. \A r, s \in new : own[r].source = own[s].source => r = s
  BY DEF MeteringInv, CarriedOnce
<1>7. \A r \in new : own[r].outcome.receipt # None =>
          /\ own[r].outcome.receipt \in billed[own[r].outcome.usage]
          /\ \A s \in M!Rows : record[s].outcome.receipt # own[r].outcome.receipt
          /\ \A s \in new : own[s].outcome.receipt = own[r].outcome.receipt => r = s
          /\ \A d \in Editors \ {c} : \A i \in Carried(d) :
                 i.outcome.receipt # own[r].outcome.receipt
  BY DEF MeteringInv, CarriedOnce
<1>8. M!RetriedOnce'
  <2> SUFFICES ASSUME NEW r \in M!Rows', NEW s \in M!Rows',
                      record'[r].source = record'[s].source, record'[r].source # None
               PROVE  r = s
    BY DEF M!RetriedOnce
  <2>1. CASE r \in M!Rows /\ s \in M!Rows
    BY <2>1 DEF MeteringInv, M!RetriedOnce
  <2>2. CASE r \in new /\ s \in new
    BY <1>6, <2>2
  <2>3. \A x \in M!Rows, y \in new : record'[x].source # None =>
            record'[x].source # record'[y].source
    BY DEF MeteringInv, SourcesClaimed
  <2>4. QED
    BY <1>1, <2>1, <2>2, <2>3
<1>9. M!ReceiptOnce'
  <2> SUFFICES ASSUME NEW r \in M!Rows', record'[r].outcome.receipt # None
               PROVE  /\ record'[r].outcome.receipt \in billed[record'[r].outcome.usage]
                      /\ \A s \in M!Rows' :
                            record'[s].outcome.receipt = record'[r].outcome.receipt => r = s
    BY DEF M!ReceiptOnce, M!UsageOf
  <2>1. CASE r \in M!Rows
    <3>1. \A s \in M!Rows : record[s].outcome.receipt = record[r].outcome.receipt => r = s
      BY <2>1 DEF MeteringInv, M!ReceiptOnce
    <3>2. \A s \in new : record'[s].outcome.receipt # record'[r].outcome.receipt
      BY <1>7, <2>1
    <3>3. record[r].outcome.receipt \in billed[record[r].outcome.usage]
      BY <2>1 DEF MeteringInv, M!ReceiptOnce, M!UsageOf
    <3>4. QED
      BY <1>1, <2>1, <3>1, <3>2, <3>3
  <2>2. CASE r \in new
    BY <1>1, <1>7, <2>2
  <2>3. QED
    BY <1>1, <2>1, <2>2
<1>10. CarriedOnce'
  <2> SUFFICES ASSUME NEW d \in Editors, d # c, NEW i \in Carried(d)
               PROVE  /\ i.outcome.receipt # None =>
                            /\ i.outcome.receipt \in billed[i.outcome.usage]
                            /\ \A r \in M!Rows' : record'[r].outcome.receipt # i.outcome.receipt
                            /\ \A e \in Editors \ {c} : \A j \in Carried(e) :
                                  j.outcome.receipt = i.outcome.receipt => d = e /\ i = j
                      /\ \A j \in Carried(d) : i.source = j.source => i = j
    BY <1>5 DEF CarriedOnce
  <2>1. \A r \in new : i.outcome.receipt # None => record'[r].outcome.receipt # i.outcome.receipt
    BY <1>7
  <2>2. QED
    BY <1>1, <2>1 DEF MeteringInv, CarriedOnce
<1>11. QED
  BY <1>0, <1>2, <1>3, <1>4, <1>8, <1>9, <1>10 DEF MeteringInv

\* The instance counts as FiniteSets does.
LEMMA MeteringCardinality == ASSUME NEW I PROVE M!Cardinality(I) = Cardinality(I)
  BY DEF M!Cardinality, Cardinality

\* The places of the positions that were processed are all of 1..their number:
\* the CHOOSE in Results finds one.
LEMMA PlaceIsOnto ==
    ASSUME NEW n \in Nat, NEW done \in SUBSET (1..n)
    PROVE  /\ Cardinality(done) \in Nat
           /\ \A k \in 1..Cardinality(done) : \E j \in done : M!Place(j, done) = k
<1> DEFINE size == Cardinality(done)
           place == [j \in done |-> M!Place(j, done)]
           upto(j) == {x \in done : x <= j}
<1>1. IsFiniteSet(done) /\ size \in Nat
  <2>1. IsFiniteSet(1..n)
    BY FS_Interval
  <2>2. IsFiniteSet(done)
    BY <2>1, FS_Subset
  <2>3. QED
    BY <2>2, FS_CardinalityType
<1>2. \A j \in done : IsFiniteSet(upto(j)) /\ Cardinality(upto(j)) \in 1..size
  <2> TAKE j \in done
  <2>1. upto(j) \in SUBSET done /\ j \in upto(j)
    OBVIOUS
  <2>2. IsFiniteSet(upto(j)) /\ Cardinality(upto(j)) <= size /\ Cardinality(upto(j)) \in Nat
    BY <1>1, <2>1, FS_Subset, FS_CardinalityType
  <2>3. Cardinality(upto(j)) # 0
    BY <2>1, <2>2, FS_EmptySet
  <2>4. QED
    BY <1>1, <2>2, <2>3
<1>a. \A j \in done : M!Place(j, done) = Cardinality(upto(j))
  BY MeteringCardinality DEF M!Place
<1> HIDE DEF upto
<1>3. place \in [done -> 1..size] /\ \A j \in done : place[j] = Cardinality(upto(j))
  BY <1>2, <1>a
<1>4. \A i, j \in done : i < j => place[i] # place[j]
  <2> SUFFICES ASSUME NEW i \in done, NEW j \in done, i < j
               PROVE  Cardinality(upto(i)) # Cardinality(upto(j))
    BY <1>3
  <2>1. i \in Int /\ j \in Int /\ \A x \in done : x \in Int
    OBVIOUS
  <2>2. upto(i) \in SUBSET upto(j) /\ j \in upto(j) /\ j \notin upto(i)
    <3>1. ~(j <= i) /\ j <= j /\ \A x \in done : x <= i => x <= j
      BY <2>1
    <3>2. QED
      BY <3>1 DEF upto
  <2>3. QED
    BY <1>2, <2>2, FS_Subset
<1>5. place \in Injection(done, 1..size)
  <2>1. \A i, j \in done : place[i] = place[j] => i = j
    <3> SUFFICES ASSUME NEW i \in done, NEW j \in done, i # j
                 PROVE  place[i] # place[j]
      OBVIOUS
    <3>1. i < j \/ j < i
      OBVIOUS
    <3>2. QED
      BY <1>4, <3>1
  <2>2. QED
    BY <1>3, <2>1 DEF Injection, IsInjective
<1>6. IsFiniteSet(1..size) /\ Cardinality(1..size) = size
  BY <1>1, FS_Interval
<1>7. place \in Surjection(done, 1..size)
  BY <1>1, <1>5, <1>6, FS_Injection
<1>8. QED
  BY <1>1, <1>3, <1>7, <1>a DEF Surjection

\* Of each answer the record and what AWS says of it: a receipt that was given
\* for the usage named with it, and to one position only.
LEMMA MatchedOutcomes ==
    ASSUME M!ConstantsOK, MeteringInv, NEW n \in Nat, NEW batch \in [1..n -> M!Rows],
           \A i, j \in 1..n : batch[i] = batch[j] => i = j,
           NEW done \in SUBSET (1..n), NEW receipt \in [1..n -> M!Unused \cup {None}],
           \A i, j \in 1..n : receipt[i] = receipt[j] => i = j \/ receipt[i] = None
    PROVE  LET items == M!Matched(batch, M!Results(batch, done, receipt))
           IN  /\ items \in SUBSET M!Item
               /\ \A i, j \in items : i.source = j.source => i = j
               /\ \A i \in items : i.outcome.receipt # None =>
                     /\ \E p \in done :
                           i.outcome.receipt = receipt[p] /\ i.outcome.usage = M!UsageOf(batch[p])
                     /\ \A j \in items : i.outcome.receipt = j.outcome.receipt => i = j
<1> DEFINE size == Cardinality(done)
           at(k) == CHOOSE j \in done : M!Place(j, done) = k
           result(k) == [usage |-> M!UsageOf(batch[at(k)]), accepted |-> receipt[at(k)] # None,
                         receipt |-> receipt[at(k)]]
           results == M!Results(batch, done, receipt)
           outcome(i) == IF i \in DOMAIN results THEN results[i]
                         ELSE M!Rejected(M!UsageOf(batch[i]))
           pair(i) == [source |-> batch[i], outcome |-> outcome(i)]
           items == M!Matched(batch, results)
<1>1. size \in Nat /\ \A k \in 1..size : at(k) \in done /\ M!Place(at(k), done) = k
  BY PlaceIsOnto
<1>2. DOMAIN results = 1..size /\ \A k \in 1..size : results[k] = result(k)
  <2>1. results = [k \in 1..size |-> result(k)]
    BY MeteringCardinality DEF M!Results
  <2> HIDE DEF results, result
  <2>2. QED
    BY <2>1
<1> HIDE DEF at
<1>3. \A i \in 1..n : M!UsageOf(batch[i]) \in Two /\ batch[i] \in Three
  BY MeteringRowFields DEF MeteringInv, M!UsageOf
<1>4. \A k \in 1..size : result(k) \in M!Outcome
  BY <1>1, <1>3 DEF M!Outcome, M!Unused
<1> HIDE DEF results, result
<1>5. \A i \in 1..n :
          /\ outcome(i) \in M!Outcome
          /\ i \notin 1..size => outcome(i).receipt = None
          /\ i \in 1..size => outcome(i) = result(i)
  <2> TAKE i \in 1..n
  <2>1. CASE i \in 1..size
    BY <1>2, <1>4, <2>1
  <2>2. CASE i \notin 1..size
    <3>1. outcome(i) = M!Rejected(M!UsageOf(batch[i]))
      BY <1>2, <2>2
    <3>2. \A u \in Two : M!Rejected(u) \in M!Outcome /\ M!Rejected(u).receipt = None
      BY DEF M!Rejected, M!Outcome
    <3> HIDE DEF outcome
    <3>3. QED
      BY <1>3, <2>2, <3>1, <3>2
  <2>3. QED
    BY <2>1, <2>2
<1> HIDE DEF outcome
<1>6. items = {pair(i) : i \in 1..n}
  BY DEF M!Matched, outcome
<1> HIDE DEF items
<1>7. items \in SUBSET M!Item
  BY <1>3, <1>5, <1>6 DEF M!Item
<1>8. \A i, j \in items : i.source = j.source => i = j
  BY <1>6
<1>9. ASSUME NEW x \in items, x.outcome.receipt # None
      PROVE  /\ \E p \in done :
                   x.outcome.receipt = receipt[p] /\ x.outcome.usage = M!UsageOf(batch[p])
             /\ \A y \in items : x.outcome.receipt = y.outcome.receipt => x = y
  <2>1. PICK i \in 1..n : x = pair(i)
    BY <1>6
  <2>2. i \in 1..size /\ x.outcome = result(i)
    BY <1>5, <1>9, <2>1
  <2>3. ASSUME NEW y \in items, x.outcome.receipt = y.outcome.receipt
        PROVE  x = y
    <3>1. PICK j \in 1..n : y = pair(j)
      BY <1>6
    <3>2. j \in 1..size /\ y.outcome = result(j)
      BY <1>5, <1>9, <2>3, <3>1
    <3>3. receipt[at(i)] = receipt[at(j)] /\ receipt[at(i)] # None
      BY <1>9, <2>2, <2>3, <3>2 DEF result
    <3>4. at(i) = at(j)
      BY <1>1, <2>2, <3>2, <3>3
    <3>5. i = j
      BY <1>1, <2>2, <3>2, <3>4
    <3>6. QED
      BY <2>1, <3>1, <3>5
  <2>4. x.outcome.receipt = receipt[at(i)] /\ x.outcome.usage = M!UsageOf(batch[at(i)])
    BY <2>2 DEF result
  <2>5. QED
    BY <1>1, <2>2, <2>3, <2>4
<1>10. QED
  BY <1>7, <1>8, <1>9 DEF items, results

LEMMA MeteringStep == ASSUME M!ConstantsOK, MeteringInv, [M!Next]_M!vars PROVE MeteringInv'
<1>1. ASSUME NEW c \in Editors, NEW u \in Two, M!Submit(c, u) \/ M!SubmitLocally(c, u)
      PROVE  MeteringInv'
  <2>1. PICK receipt \in M!Unused \cup {None}, accepted \in BOOLEAN :
            /\ billed' = [billed EXCEPT ![u] = @ \cup ({receipt} \ {None})]
            /\ call' = [call EXCEPT ![c] = [kind |-> "submitted",
                  outcome |-> [usage |-> u, accepted |-> accepted, receipt |-> receipt]]]
            /\ record' = record
    <3>1. CASE M!Submit(c, u)
      BY <3>1 DEF M!Submit, M!Begin
    <3>2. CASE M!SubmitLocally(c, u)
      <4>1. billed' = [billed EXCEPT ![u] = @ \cup ({None} \ {None})]
        BY <3>2 DEF M!SubmitLocally, MeteringInv, M!TypeOK
      <4>2. QED
        BY <3>2, <4>1 DEF M!SubmitLocally, M!Begin
    <3>3. QED
      BY <1>1, <3>1, <3>2
  <2> DEFINE outcome == [usage |-> u, accepted |-> accepted, receipt |-> receipt]
             what == [kind |-> "submitted", outcome |-> outcome]
  <2>2. outcome \in M!Outcome /\ outcome.usage = u /\ outcome.receipt = receipt
    BY DEF M!Outcome, M!Unused
  <2>3. what \in M!Call /\ what.kind = "submitted" /\ what.outcome = outcome
    BY <2>2 DEF M!Call
  <2>4. call' = [call EXCEPT ![c] = what]
    BY <2>1
  <2> HIDE DEF outcome, what
  <2>5. Carried(c)' = {[source |-> None, outcome |-> outcome]}
    BY <2>3, <2>4 DEF Carried, MeteringInv
  <2>6. /\ billed' \in [Two -> SUBSET Two] /\ \A v \in Two : billed[v] \subseteq billed'[v]
        /\ receipt # None => receipt \in billed'[u]
    BY <2>1 DEF MeteringInv, M!TypeOK, M!Unused
  <2>7. \A i \in Carried(c)' :
            /\ i.outcome.receipt # None =>
                  i.outcome.receipt \in M!Unused /\ i.outcome.receipt \in billed'[i.outcome.usage]
            /\ \A j \in Carried(c)' : i = j
    BY <2>2, <2>5, <2>6
  <2>8. what.kind # "eligible"
    BY <2>3
  <2> HIDE DEF Carried
  <2>9. QED
    <3>1. record' = record
      BY <2>1
    <3>2. QED
      BY <2>3, <2>4, <2>6, <2>7, <2>8, <3>1, MeteringAnswerPreserves
<1>2. ASSUME NEW c \in Editors, M!Record(c) PROVE MeteringInv'
  <2>1. PICK r \in Three \ M!Rows :
            record' = [record EXCEPT ![r] =
                [outcome |-> call[c].outcome, retried |-> FALSE, source |-> None]]
    BY <1>2 DEF M!Record
  <2> DEFINE row == [outcome |-> call[c].outcome, retried |-> FALSE, source |-> None]
             own == [x \in {r} |-> [source |-> None, outcome |-> call[c].outcome]]
  <2>2. row \in M!Row /\ row # None /\ row.outcome = call[c].outcome /\ row.source = None
    <3>1. call[c].outcome \in M!Outcome
      BY <1>2, MeteringCallFields DEF M!Record, MeteringInv
    <3>2. row \in M!Row
      BY <3>1 DEF M!Row
    <3>3. QED
      BY <3>2 DEF M!ConstantsOK
  <2>3. record' = [record EXCEPT ![r] = row]
    BY <2>1
  <2>4. Carried(c) = {[source |-> None, outcome |-> call[c].outcome]}
    BY <1>2 DEF Carried, M!Record
  <2> HIDE DEF row
  <2>5. /\ record' \in [Three -> M!Row \cup {None}]
        /\ record'[r] = row /\ \A s \in Three \ {r} : record'[s] = record[s]
    BY <2>2, <2>3 DEF MeteringInv, M!TypeOK
  <2>6. M!Rows' \ M!Rows = {r}
    BY <2>2, <2>5 DEF M!Rows
  <2>7. \A s \in M!Rows : record'[s] = record[s] /\ record[s] # None
    BY <2>5 DEF M!Rows
  <2>8. M!End(c) /\ billed' = billed
    BY <1>2 DEF M!Record
  <2>9. \A x \in M!Rows' \ M!Rows :
              /\ own[x] \in Carried(c)
              /\ record'[x].outcome = own[x].outcome
              /\ record'[x].source = own[x].source
              /\ \A s \in M!Rows' \ M!Rows : own[x] = own[s] => x = s
              /\ own[x].source = None
    BY <2>2, <2>4, <2>5, <2>6
  <2> HIDE DEF own
  <2>10. QED
    BY <2>5, <2>7, <2>8, <2>9, MeteringEndPreserves
<1>3. ASSUME NEW c \in Editors, NEW batch \in M!Batches, M!ReadEligible(c, batch)
      PROVE  MeteringInv'
  <2> DEFINE what == [kind |-> "eligible", batch |-> batch]
  <2>1. what \in M!Call /\ what.kind = "eligible" /\ what.batch = batch
    BY DEF M!Call
  <2>2. call' = [call EXCEPT ![c] = what] /\ UNCHANGED <<record, billed>>
    BY <1>3 DEF M!ReadEligible, M!Begin
  <2> HIDE DEF what
  <2>3. Carried(c)' = {}
    BY <2>1, <2>2 DEF Carried, MeteringInv
  <2>4. /\ \A i \in DOMAIN batch : batch[i] \in M!Rows
        /\ \A i, j \in DOMAIN batch : batch[i] = batch[j] => i = j
    BY <1>3 DEF M!ReadEligible, M!Eligible
  <2>5. billed' \in [Two -> SUBSET Two] /\ \A u \in Two : billed[u] \subseteq billed'[u]
    BY <2>2 DEF MeteringInv, M!TypeOK
  <2>6. QED
    BY <2>1, <2>2, <2>3, <2>4, <2>5, MeteringAnswerPreserves
<1>4. ASSUME NEW c \in Editors, M!Resend(c) PROVE MeteringInv'
  <2> DEFINE batch == call[c].batch
  <2>1. PICK n \in 1..MaxBatch : batch \in [1..n -> Three]
    BY <1>4, MeteringCallFields DEF M!Resend, MeteringInv, M!Batches
  <2>2. /\ n \in Nat /\ batch \in [1..n -> M!Rows]
        /\ \A i, j \in 1..n : batch[i] = batch[j] => i = j
    BY <1>4, <2>1 DEF M!Resend, MeteringInv, BatchesHold, M!ConstantsOK
  <2>3. PICK done \in SUBSET (1..n), receipt \in [1..n -> M!Unused \cup {None}] :
            /\ \A i, j \in 1..n : receipt[i] = receipt[j] => i = j \/ receipt[i] = None
            /\ billed' = [u \in Two |-> billed[u] \cup
                   {receipt[i] : i \in {j \in done : M!UsageOf(batch[j]) = u /\ receipt[j] # None}}]
            /\ call' = [call EXCEPT ![c] = [kind |-> "answered",
                   items |-> M!Matched(batch, M!Results(batch, done, receipt))]]
    BY <1>4, <2>1 DEF M!Resend
  <2> DEFINE items == M!Matched(batch, M!Results(batch, done, receipt))
             what == [kind |-> "answered", items |-> items]
  <2> HIDE DEF batch
  <2>4. /\ items \in SUBSET M!Item
        /\ \A i, j \in items : i.source = j.source => i = j
        /\ \A i \in items : i.outcome.receipt # None =>
              /\ \E p \in done :
                    i.outcome.receipt = receipt[p] /\ i.outcome.usage = M!UsageOf(batch[p])
              /\ \A j \in items : i.outcome.receipt = j.outcome.receipt => i = j
    BY <2>2, <2>3, MatchedOutcomes
  <2> HIDE DEF items
  <2>5. what \in M!Call /\ what.kind = "answered" /\ what.items = items
    BY <2>4 DEF M!Call
  <2>6. call' = [call EXCEPT ![c] = what] /\ record' = record
    BY <1>4, <2>3 DEF items, M!Resend
  <2> HIDE DEF what
  <2>7. Carried(c)' = items
    BY <2>5, <2>6 DEF Carried, MeteringInv
  <2>8. /\ billed' \in [Two -> SUBSET Two] /\ \A u \in Two : billed[u] \subseteq billed'[u]
        /\ \A p \in done : receipt[p] # None => receipt[p] \in billed'[M!UsageOf(batch[p])]
    <3>1. \A p \in done : M!UsageOf(batch[p]) \in Two
      BY <2>2, MeteringRowFields DEF MeteringInv, M!UsageOf
    <3>2. QED
      BY <2>3, <3>1 DEF MeteringInv, M!TypeOK, M!Unused
  <2>9. \A i \in items : i.outcome.receipt # None =>
            /\ i.outcome.receipt \in M!Unused
            /\ i.outcome.receipt \in billed'[i.outcome.usage]
    BY <2>3, <2>4, <2>8
  <2>10. QED
    BY <2>4, <2>5, <2>6, <2>7, <2>8, <2>9, MeteringAnswerPreserves
<1>5. ASSUME NEW c \in Editors, M!RecordRetries(c) PROVE MeteringInv'
  <2>a. PICK I \in SUBSET {i.source : i \in call[c].items} : \E ids \in [I -> Three \ M!Rows] :
            (\A s, t \in I : ids[s] = ids[t] => s = t) /\ M!ClaimAndInsert(c, ids)
    BY <1>5 DEF M!RecordRetries
  <2>1. PICK ids \in [I -> Three \ M!Rows] :
            (\A s, t \in I : ids[s] = ids[t] => s = t) /\ M!ClaimAndInsert(c, ids)
    BY <2>a
  <2> DEFINE items == {i \in call[c].items : M!Eligible(i.source)}
             own(r) == CHOOSE i \in items : ids[i.source] = r
             new == {ids[s] : s \in I}
             inserted(r) == [outcome |-> own(r).outcome, retried |-> FALSE,
                             source |-> own(r).source]
  <2>2. /\ I = {i.source : i \in items}
        /\ record' = [r \in Three |->
              IF r \in new THEN inserted(r)
              ELSE IF r \in I THEN [record[r] EXCEPT !.retried = TRUE]
              ELSE record[r]]
    BY <2>1 DEF M!ClaimAndInsert
  <2>3. call[c].kind = "answered" /\ M!End(c) /\ billed' = billed /\ Carried(c) = call[c].items
    BY <1>5 DEF M!RecordRetries, Carried
  <2>4. \A r \in new : own(r) \in items /\ ids[own(r).source] = r /\ own(r).source \in I
    BY <2>2
  <2>5. \A i \in items : i \in Carried(c) /\ i.source \in M!Rows /\ ~record[i.source].retried
    BY <2>3 DEF M!Eligible
  <2> HIDE DEF own, items
  <2>6. new \cap M!Rows = {} /\ I \subseteq M!Rows /\ new \subseteq Three
    BY <2>2, <2>5
  <2>7. \A r \in new :
            /\ inserted(r) \in M!Row /\ inserted(r) # None
            /\ inserted(r).outcome = own(r).outcome
            /\ inserted(r).source = own(r).source
    <3> TAKE r \in new
    <3>1. own(r).outcome \in M!Outcome /\ own(r).source \in Three \cup {None}
      BY <2>4, <2>5, CarriedFields DEF MeteringInv
    <3>2. inserted(r) \in M!Row
      BY <3>1 DEF M!Row
    <3>3. QED
      BY <3>2 DEF M!ConstantsOK
  <2> HIDE DEF inserted
  <2>8. \A r \in I :
            /\ [record[r] EXCEPT !.retried = TRUE] \in M!Row
            /\ [record[r] EXCEPT !.retried = TRUE].retried
            /\ [record[r] EXCEPT !.retried = TRUE].outcome = record[r].outcome
            /\ [record[r] EXCEPT !.retried = TRUE].source = record[r].source
    BY <2>6, MeteringRowFields DEF MeteringInv, M!Row
  <2>9. record' \in [Three -> M!Row \cup {None}]
    BY <2>2, <2>7, <2>8 DEF MeteringInv, M!TypeOK
  <2>10. \A r \in M!Rows :
              /\ record'[r] # None
              /\ record'[r].outcome = record[r].outcome
              /\ record'[r].source = record[r].source
              /\ record[r].retried => record'[r].retried
              /\ r \in I => record'[r].retried
    BY <2>2, <2>6, <2>8 DEF M!Rows, M!ConstantsOK
  <2>11. M!Rows' \ M!Rows = new
    BY <2>2, <2>6, <2>7, <2>8 DEF M!Rows
  <2>12. \A r \in new : record'[r] = inserted(r)
    BY <2>2, <2>6
  <2> DEFINE from == [r \in new |-> own(r)]
  <2>13. \A r \in M!Rows' \ M!Rows :
              /\ from[r] \in Carried(c)
              /\ record'[r].outcome = from[r].outcome
              /\ record'[r].source = from[r].source
              /\ \A s \in M!Rows' \ M!Rows : from[r] = from[s] => r = s
              /\ from[r].source \in M!Rows
              /\ ~record[from[r].source].retried
              /\ record'[from[r].source].retried
    <3>1. \A r \in new : from[r] = own(r)
      OBVIOUS
    <3> HIDE DEF from, new
    <3>2. QED
      BY <2>4, <2>5, <2>7, <2>10, <2>11, <2>12, <3>1
  <2> HIDE DEF new, from
  <2>14. QED
    BY <2>3, <2>9, <2>10, <2>13, MeteringEndPreserves
<1>6. ASSUME NEW c \in Editors, M!Lose(c) PROVE MeteringInv'
  <2>1. M!End(c) /\ UNCHANGED <<record, billed>>
    BY <1>6 DEF M!Lose
  <2>2. M!Rows' = M!Rows /\ \A r \in M!Rows : record[r] # None
    BY <2>1 DEF M!Rows
  <2>3. M!Rows' \ M!Rows = {}
    BY <2>2
  <2>4. QED
    BY <2>1, <2>2, <2>3, MeteringEndPreserves DEF MeteringInv, M!TypeOK
<1>7. CASE UNCHANGED M!vars
  BY <1>7 DEF M!vars, MeteringInv, M!TypeOK, BatchesHold, SourcesClaimed, CarriedOnce, Carried,
              M!RetriedOnce, M!ReceiptOnce, M!Rows, M!UsageOf
<1>8. QED
  BY <1>1, <1>2, <1>3, <1>4, <1>5, <1>6, <1>7 DEF M!Next

LEMMA MeteringInvariance == ASSUME M!ConstantsOK PROVE M!Spec => []MeteringInv
  BY MeteringInit, MeteringStep, PTL DEF M!Spec

-----------------------------------------------------------------------------
(* Listings: what AWS settled stays settled, a draft is published with a price *)

\* A change set that a row or a request names is known to AWS.
SetsTaken ==
    /\ \A c \in S!Recorded : change[c].set # None => decided[change[c].set] # None
    /\ \A k \in Editors :
          listingCall[k].kind = "change" /\ listingCall[k].set # None => decided[listingCall[k].set] # None

\* What a call in flight has read: its row is there, and AWS's word, once it
\* is a decision, stands.
CallSound(k) ==
    /\ listingCall[k].kind = "change" => listingCall[k].listing \in S!Rows
    /\ listingCall[k].kind = "refresh" =>
          /\ listingCall[k].change \in S!Recorded
          /\ ~listingCall[k].asked => listingCall[k].status \in S!Settled
          /\ listingCall[k].asked => change[listingCall[k].change].set # None
          /\ listingCall[k].asked /\ listingCall[k].status \in S!Settled =>
                decided[change[listingCall[k].change].set] = listingCall[k].status
          /\ /\ listingCall[k].change \notin overlapped
             /\ change[listingCall[k].change].asked
             /\ change[listingCall[k].change].set # None
             /\ change[listingCall[k].change].status \in S!Settled
             => listingCall[k].status \in S!Settled

\* Two refreshes of a row in flight overlap.
RefreshesNoted ==
    \A j, k \in Editors :
        /\ j # k /\ listingCall[j].kind = "refresh" /\ listingCall[k].kind = "refresh"
        /\ listingCall[j].change = listingCall[k].change
        => listingCall[k].change \in overlapped

\* Whatever was asked for has an id at AWS.
AskedHasSet == \A c \in S!Recorded : change[c].asked => change[c].set # None

ListingsInv ==
    /\ S!TypeOK
    /\ S!VerdictIsAws
    /\ SetsTaken
    /\ AskedHasSet
    /\ \A k \in Editors : CallSound(k)
    /\ RefreshesNoted

LEMMA CallFields ==
    ASSUME S!TypeOK, NEW k \in Editors
    PROVE  /\ listingCall[k].kind = "change" =>
                 /\ listingCall[k].listing \in Two
                 /\ listingCall[k].intent \in S!Intents
                 /\ listingCall[k].set \in One \cup {None}
           /\ listingCall[k].kind = "refresh" =>
                 /\ listingCall[k].change \in One
                 /\ listingCall[k].status \in S!Statuses
                 /\ listingCall[k].asked \in BOOLEAN
           /\ listingCall[k].kind = "sync" => listingCall[k].live \in [One -> BOOLEAN]
           /\ listingCall[k] \in S!Call
           /\ listingCall[k] # S!Idle => listingCall[k].kind \in {"change", "refresh", "sync"}
  BY DEF S!TypeOK, S!Call, S!Idle

LEMMA ListingsInit == ASSUME S!ConstantsOK, S!Init PROVE ListingsInv
<1>1. S!Idle \in S!Call /\ S!Idle.kind = "idle"
  BY DEF S!Call, S!Idle
<1>2. \A k \in Editors : listingCall[k].kind = "idle"
  BY <1>1 DEF S!Init
<1>3. S!TypeOK
  BY <1>1 DEF S!Init, S!TypeOK
<1>4. S!Rows = {} /\ S!Recorded = {}
  BY DEF S!Init, S!Rows, S!Recorded
<1>5. QED
  BY <1>2, <1>3, <1>4 DEF ListingsInv, S!VerdictIsAws, SetsTaken,
     CallSound, RefreshesNoted, AskedHasSet

\* The rows of the mirror change, and none is lost.
LEMMA MirrorPreserves ==
    ASSUME S!ConstantsOK, ListingsInv,
           listing' \in [Two -> S!Row \cup {None}], S!Rows \subseteq S!Rows',
           UNCHANGED <<change, decided, overlapped>>, connected' \in BOOLEAN,
           listingCall' \in [Editors -> S!Call],
           \A k \in Editors : listingCall'[k] = listingCall[k] \/ listingCall'[k] = S!Idle
                              \/ (listingCall'[k].kind = "sync")
    PROVE  ListingsInv'
<1>0. S!Idle.kind = "idle"
  BY DEF S!Idle
<1>1. S!Recorded' = S!Recorded
  BY DEF S!Recorded
<1>2. S!TypeOK'
  BY DEF ListingsInv, S!TypeOK
<1>3. \A k \in Editors : listingCall'[k].kind \in {"change", "refresh"} => listingCall'[k] = listingCall[k]
  BY <1>0
<1>4. S!VerdictIsAws' /\ AskedHasSet'
  BY <1>1 DEF ListingsInv, S!VerdictIsAws, AskedHasSet
<1>5. SetsTaken'
  BY <1>1, <1>3 DEF ListingsInv, SetsTaken
<1>6. \A k \in Editors : CallSound(k)'
  BY <1>1, <1>3 DEF ListingsInv, CallSound
<1>7. RefreshesNoted'
  BY <1>3 DEF ListingsInv, RefreshesNoted
<1>8. QED
  BY <1>2, <1>4, <1>5, <1>6, <1>7 DEF ListingsInv

\* A sync writes to mirrors of products, never to a local draft.
LEMMA WriteSyncPreserves ==
    ASSUME S!ConstantsOK, ListingsInv, NEW k \in Editors, NEW row \in [One -> Two], S!WriteSync(k, row)
    PROVE  ListingsInv'
<1> DEFINE Id(e) == IF S!Mirror(e) # {} THEN CHOOSE l \in S!Mirror(e) : TRUE ELSE row[e]
           live == listingCall[k].live
           hit(l) == CHOOSE f \in One : Id(f) = l
           made(l) == IF l \in S!Rows THEN listing[l]
                      ELSE [entity |-> hit(l), published |-> FALSE, priced |-> FALSE]
<1>1. /\ listingCall[k].kind = "sync"
      /\ \A e \in One : S!Mirror(e) = {} => row[e] \notin S!Rows
      /\ listing' = [l \in Two |-> IF \E e \in One : Id(e) = l
                                   THEN [made(l) EXCEPT !.published = live[hit(l)]]
                                   ELSE listing[l]]
      /\ listingCall' = [listingCall EXCEPT ![k] = S!Idle]
      /\ UNCHANGED <<change, connected, decided, overlapped>>
  BY DEF S!WriteSync, S!End, S!Synced
<1>2. S!TypeOK
  BY DEF ListingsInv
<1>3. live \in [One -> BOOLEAN]
  BY <1>1, <1>2, CallFields
<1>4. ASSUME NEW l \in Two, \E e \in One : Id(e) = l
      PROVE  /\ listing'[l] = [made(l) EXCEPT !.published = live[hit(l)]]
             /\ hit(l) \in One /\ made(l) \in S!Row /\ made(l).entity = hit(l)
             /\ live[hit(l)] \in BOOLEAN
  <2>1. listing'[l] = [made(l) EXCEPT !.published = live[hit(l)]]
    BY <1>1, <1>4
  <2>2. hit(l) \in One /\ Id(hit(l)) = l
    <3> HIDE DEF Id
    <3>1. QED
      BY <1>4
  <2>3. l \in S!Rows => l \in S!Mirror(hit(l))
    BY <1>1, <2>2 DEF S!Mirror
  <2>4. made(l) \in S!Row /\ made(l).entity = hit(l)
    <3>1. CASE l \in S!Rows
      BY <1>2, <2>3, <3>1 DEF S!Mirror, S!Rows, S!TypeOK
    <3>2. CASE l \notin S!Rows
      BY <2>2, <3>2 DEF S!Row
    <3>3. QED
      BY <3>1, <3>2
  <2>5. QED
    BY <1>3, <2>1, <2>2, <2>4
<1>5. ASSUME NEW l \in Two, ~\E e \in One : Id(e) = l PROVE listing'[l] = listing[l]
  BY <1>1, <1>5
<1> HIDE DEF Id, live, hit, made
<1>6. ASSUME NEW l \in Two, \E e \in One : Id(e) = l
      PROVE  listing'[l] \in S!Row /\ listing'[l].entity # None
  <2> DEFINE m == made(l)
             b == live[hit(l)]
  <2>1. listing'[l] = [m EXCEPT !.published = b] /\ m \in S!Row /\ m.entity \in One /\ b \in BOOLEAN
    BY <1>4, <1>6
  <2> HIDE DEF m, b
  <2>2. listing'[l] \in S!Row /\ listing'[l].entity = m.entity
    BY <2>1 DEF S!Row
  <2>3. QED
    BY <2>1, <2>2 DEF S!ConstantsOK
<1>7. listing' \in [Two -> S!Row \cup {None}]
  <2>1. \A l \in Two : listing'[l] \in S!Row \cup {None}
    BY <1>2, <1>5, <1>6 DEF S!TypeOK
  <2>2. DOMAIN listing' = Two /\ listing' = [l \in Two |-> listing'[l]]
    BY <1>1
  <2>3. QED
    BY <2>1, <2>2
<1>8. S!Rows \subseteq S!Rows'
  BY <1>5, <1>6 DEF S!Rows, S!ConstantsOK
<1>9. listingCall' \in [Editors -> S!Call] /\ \A j \in Editors : listingCall'[j] \in {listingCall[j], S!Idle}
  BY <1>1, <1>2 DEF S!TypeOK, S!Call
<1>10. connected' \in BOOLEAN
  BY <1>1, <1>2 DEF S!TypeOK
<1>11. QED
  BY <1>1, <1>7, <1>8, <1>9, <1>10, MirrorPreserves

\* A change is begun at AWS, when connected.
LEMMA StartChangePreserves ==
    ASSUME S!ConstantsOK, ListingsInv, NEW k \in Editors, NEW l \in Two, NEW intent \in S!Intents,
           S!StartChange(k, l, intent)
    PROVE  ListingsInv'
<1>1. PICK set \in One \cup {None} :
          /\ l \in S!Rows /\ (set # None => decided[set] = None)
          /\ decided' = IF set = None THEN decided ELSE [decided EXCEPT ![set] = "applying"]
          /\ listingCall[k] = S!Idle
          /\ listingCall' = [listingCall EXCEPT ![k] =
                [kind |-> "change", listing |-> l, intent |-> intent, set |-> set]]
          /\ UNCHANGED <<listing, change, connected, overlapped>>
  BY DEF S!StartChange, S!Begin
<1> DEFINE what == [kind |-> "change", listing |-> l, intent |-> intent, set |-> set]
<1>2. what \in S!Call /\ what.kind = "change" /\ what.listing = l /\ what.set = set
  BY DEF S!Call
<1> HIDE DEF what
<1>3. S!TypeOK /\ None \notin One /\ None \notin S!Statuses
  BY DEF ListingsInv, S!ConstantsOK
<1>4. listingCall' = [listingCall EXCEPT ![k] = what]
  BY <1>1 DEF what
<1>5. S!TypeOK'
  BY <1>1, <1>2, <1>3, <1>4 DEF S!TypeOK, S!Statuses
<1>6. \A s \in One : /\ decided[s] # None => decided'[s] = decided[s]
                     /\ decided[s] # None \/ s = set => decided'[s] # None
  BY <1>1, <1>3 DEF S!TypeOK, S!Statuses
<1>7. S!Recorded' = S!Recorded /\ S!Rows' = S!Rows
  BY <1>1 DEF S!Recorded, S!Rows
<1>8. \A c \in S!Recorded : change[c].set \in One \cup {None}
  BY <1>3 DEF S!TypeOK, S!Recorded, S!Change
<1>9. AskedHasSet'
  BY <1>1, <1>7 DEF ListingsInv, AskedHasSet
<1>10. S!VerdictIsAws'
  BY <1>1, <1>6, <1>7, <1>8 DEF ListingsInv, S!VerdictIsAws, SetsTaken
<1>11. SetsTaken'
  <2>1. \A c \in S!Recorded : change[c].set # None => decided'[change[c].set] # None
    BY <1>6, <1>8 DEF ListingsInv, SetsTaken
  <2>2. ASSUME NEW j \in Editors, listingCall'[j].kind = "change", listingCall'[j].set # None
        PROVE  decided'[listingCall'[j].set] # None
    <3>1. CASE j = k
      BY <1>1, <1>2, <1>3, <1>4, <1>6, <2>2, <3>1 DEF S!TypeOK
    <3>2. CASE j # k
      BY <1>3, <1>4, <1>6, <2>2, <3>2, CallFields DEF S!TypeOK, ListingsInv, SetsTaken
    <3>3. QED
      BY <3>1, <3>2
  <2>3. QED
    BY <1>1, <1>7, <2>1, <2>2 DEF SetsTaken
<1>12. ASSUME NEW j \in Editors PROVE CallSound(j)'
  <2>1. CASE j = k
    BY <1>1, <1>2, <1>3, <1>4, <1>7, <2>1 DEF S!TypeOK, CallSound
  <2>2. CASE j # k
    <3>1. listingCall'[j] = listingCall[j] /\ CallSound(j)
      BY <1>3, <1>4, <2>2 DEF S!TypeOK, ListingsInv
    <3>2. QED
      BY <1>1, <1>6, <1>7, <1>8, <3>1 DEF CallSound, ListingsInv, SetsTaken
  <2>3. QED
    BY <2>1, <2>2
<1>13. RefreshesNoted'
  BY <1>1, <1>2, <1>3, <1>4 DEF S!TypeOK, ListingsInv, RefreshesNoted
<1>14. QED
  BY <1>5, <1>9, <1>10, <1>11, <1>12, <1>13 DEF ListingsInv

\* The mirror and the record of a change set are written, with the prices that
\* are there by then.
LEMMA WriteChangePreserves ==
    ASSUME S!ConstantsOK, ListingsInv, NEW k \in Editors, NEW c \in One, S!WriteChange(k, c)
    PROVE  ListingsInv'
<1> DEFINE op2 == listingCall[k]
           l == op2.listing
           asked == op2.set # None
           status == IF op2.set = None THEN "succeeded" ELSE "applying"
           row == [set |-> op2.set, status |-> status, asked |-> asked]
           made == S!Applied(listing[l], op2.intent)
<1>1. /\ op2.kind = "change" /\ c \notin S!Recorded
      /\ op2.intent = "publish" => S!Ready(listing[l])
      /\ listing' = [listing EXCEPT ![l] = made]
      /\ change' = [change EXCEPT ![c] = row]
      /\ listingCall' = [listingCall EXCEPT ![k] = S!Idle]
      /\ UNCHANGED <<connected, decided, overlapped>>
  BY DEF S!WriteChange, S!End
<1>2. S!TypeOK /\ S!Idle.kind = "idle" /\ S!Idle \in S!Call
  BY DEF ListingsInv, S!Idle, S!Call
<1>3. /\ l \in Two /\ l \in S!Rows /\ op2.intent \in S!Intents /\ op2.set \in One \cup {None}
      /\ op2.set # None => decided[op2.set] # None
  BY <1>1, <1>2, CallFields DEF ListingsInv, CallSound, SetsTaken
<1>4. listing[l] \in S!Row
  BY <1>2, <1>3 DEF S!TypeOK, S!Rows
<1>5. made \in S!Row
  <2> DEFINE r == listing[l]
             intent == op2.intent
  <2>1. r \in S!Row /\ intent \in S!Intents
    BY <1>3, <1>4
  <2> HIDE DEF r, intent
  <2>2. S!Applied(r, intent) \in S!Row
    <3>1. CASE intent = "update"
      BY <2>1, <3>1 DEF S!Applied
    <3>2. CASE intent = "publish"
      BY <2>1, <3>2 DEF S!Applied, S!Row
    <3>3. CASE intent = "add_dimension"
      BY <2>1, <3>3 DEF S!Applied, S!Row
    <3>4. QED
      BY <2>1, <3>1, <3>2, <3>3 DEF S!Intents
  <2>3. QED
    BY <2>2 DEF r, intent
<1>6. /\ row \in S!Change /\ row # None /\ row.set = op2.set
      /\ row.set # None => row.status = "applying"
      /\ row.asked => row.set # None
  <2>1. asked \in BOOLEAN /\ status \in S!Statuses /\ (asked => status = "applying" /\ op2.set # None)
    BY DEF S!Statuses, S!Settled
  <2>2. ~asked => op2.set = None
    OBVIOUS
  <2> HIDE DEF asked, status
  <2>3. row \in S!Change
    BY <1>3, <2>1 DEF S!Change
  <2>4. QED
    BY <2>1, <2>2, <2>3 DEF S!ConstantsOK
<1> HIDE DEF made, row
<1>7. /\ \A l2 \in Two : listing'[l2] = IF l2 = l THEN made ELSE listing[l2]
      /\ \A c2 \in One : change'[c2] = IF c2 = c THEN row ELSE change[c2]
      /\ \A j \in Editors : listingCall'[j] = IF j = k THEN S!Idle ELSE listingCall[j]
      /\ made # None
  BY <1>1, <1>2, <1>3, <1>5 DEF S!TypeOK, S!ConstantsOK
<1>8. S!TypeOK'
  BY <1>1, <1>2, <1>3, <1>5, <1>6 DEF S!TypeOK
<1>9. S!Rows' = S!Rows /\ S!Recorded' = S!Recorded \cup {c}
  BY <1>3, <1>6, <1>7 DEF S!Rows, S!Recorded
<1>10. \A c2 \in S!Recorded : c2 # c /\ c2 \in One /\ change'[c2] = change[c2]
  BY <1>1, <1>7 DEF S!Recorded
<1>11. S!VerdictIsAws'
  BY <1>1, <1>6, <1>7, <1>9, <1>10 DEF ListingsInv, S!VerdictIsAws, S!Settled
<1>12. AskedHasSet'
  BY <1>6, <1>7, <1>9, <1>10 DEF ListingsInv, AskedHasSet
<1>13. SetsTaken'
  BY <1>1, <1>2, <1>3, <1>6, <1>7, <1>9, <1>10 DEF ListingsInv, SetsTaken
<1>14. ASSUME NEW j \in Editors PROVE CallSound(j)'
  <2>1. CASE j = k
    BY <1>2, <1>7, <2>1 DEF CallSound
  <2>2. CASE j # k
    <3>1. listingCall'[j] = listingCall[j] /\ CallSound(j)
      BY <1>7, <2>2 DEF ListingsInv
    <3>2. QED
      BY <1>1, <1>9, <1>10, <3>1 DEF CallSound
  <2>3. QED
    BY <2>1, <2>2
<1>15. RefreshesNoted'
  BY <1>1, <1>2, <1>7 DEF ListingsInv, RefreshesNoted
<1>16. QED
  BY <1>8, <1>11, <1>12, <1>13, <1>14, <1>15 DEF ListingsInv

\* AWS decides what was applying: nobody holds a decision on it yet.
LEMMA DecidePreserves ==
    ASSUME S!ConstantsOK, ListingsInv, NEW set \in One, NEW status \in S!Settled,
           decided[set] = "applying", decided' = [decided EXCEPT ![set] = status],
           UNCHANGED <<listing, change, connected, listingCall, overlapped>>
    PROVE  ListingsInv'
<1>1. S!TypeOK /\ None \notin S!Statuses /\ status \in S!Statuses /\ "applying" \notin S!Settled
  BY DEF ListingsInv, S!ConstantsOK, S!Statuses, S!Settled
<1>2. S!TypeOK'
  BY <1>1 DEF S!TypeOK, S!Statuses, S!Settled
<1>3. /\ \A s \in One : decided'[s] = IF s = set THEN status ELSE decided[s]
      /\ S!Rows' = S!Rows /\ S!Recorded' = S!Recorded
  BY <1>1 DEF S!TypeOK, S!Rows, S!Recorded
<1>4. \A c \in S!Recorded : change[c].set \in One \cup {None}
  BY <1>1 DEF S!TypeOK, S!Recorded, S!Change
<1>5. AskedHasSet' /\ RefreshesNoted'
  BY <1>3 DEF ListingsInv, AskedHasSet, RefreshesNoted
<1>6. S!VerdictIsAws'
  BY <1>1, <1>3, <1>4 DEF ListingsInv, S!VerdictIsAws
<1>7. SetsTaken'
  BY <1>1, <1>3, <1>4, CallFields DEF ListingsInv, SetsTaken
<1>8. ASSUME NEW j \in Editors PROVE CallSound(j)'
  <2>1. CallSound(j)
    BY DEF ListingsInv
  <2>2. QED
    BY <1>1, <1>3, <1>4, <2>1 DEF CallSound
<1>9. QED
  BY <1>2, <1>5, <1>6, <1>7, <1>8 DEF ListingsInv

\* A refresh asks AWS, or takes the change set to have succeeded.
LEMMA DescribePreserves ==
    ASSUME S!ConstantsOK, ListingsInv, NEW k \in Editors, NEW c \in One, S!Describe(k, c)
    PROVE  ListingsInv'
<1> DEFINE set == change[c].set
           asked == connected /\ set # None
           status == IF asked THEN decided[set] ELSE "succeeded"
           what == [kind |-> "refresh", change |-> c, asked |-> asked, status |-> status]
<1>1. /\ c \in S!Recorded /\ listingCall[k] = S!Idle
      /\ listingCall' = [listingCall EXCEPT ![k] = what]
      /\ overlapped' = IF \E j \in Editors : listingCall[j].kind = "refresh" /\ listingCall[j].change = c
                       THEN overlapped \cup {c} ELSE overlapped
      /\ UNCHANGED <<listing, change, connected, decided>>
  BY DEF S!Describe, S!Begin
<1>2. S!TypeOK /\ S!Idle.kind = "idle"
  BY DEF ListingsInv, S!Idle
<1>3. set \in One \cup {None} /\ (set # None => decided[set] \in S!Statuses)
  BY <1>1, <1>2 DEF ListingsInv, SetsTaken, S!TypeOK, S!Recorded, S!Change
<1>4. /\ what \in S!Call /\ what.kind = "refresh" /\ what.change = c /\ what.status = status
      /\ ~what.asked => status = "succeeded"
      /\ what.asked => set # None /\ status = decided[set]
  <2>1. asked \in BOOLEAN /\ status \in S!Statuses
    BY <1>2, <1>3 DEF S!Statuses, S!Settled, S!TypeOK
  <2>2. (~asked => status = "succeeded") /\ (asked => set # None /\ status = decided[set])
    OBVIOUS
  <2> HIDE DEF asked, status, set
  <2>3. what \in S!Call
    BY <2>1 DEF S!Call
  <2>4. QED
    BY <2>1, <2>2, <2>3
<1> HIDE DEF what, status, asked
<1>5. /\ S!Rows' = S!Rows /\ S!Recorded' = S!Recorded
      /\ \A j \in Editors : listingCall'[j] = IF j = k THEN what ELSE listingCall[j]
      /\ overlapped \subseteq overlapped'
  BY <1>1, <1>2 DEF S!TypeOK, S!Rows, S!Recorded
<1>6. S!TypeOK'
  BY <1>1, <1>2, <1>4 DEF S!TypeOK
<1>7. AskedHasSet' /\ S!VerdictIsAws'
  BY <1>1, <1>5 DEF ListingsInv, AskedHasSet, S!VerdictIsAws
<1>8. SetsTaken'
  BY <1>1, <1>4, <1>5 DEF ListingsInv, SetsTaken
<1>9. ASSUME NEW j \in Editors PROVE CallSound(j)'
  <2>1. CASE j = k
    <3>1. change[c].asked /\ change[c].set # None /\ change[c].status \in S!Settled
          => decided[change[c].set] \in S!Settled
      BY <1>1 DEF ListingsInv, S!VerdictIsAws
    <3>2. status \in S!Settled \/ ~(change[c].asked /\ change[c].set # None /\ change[c].status \in S!Settled)
      BY <1>4, <3>1 DEF S!Settled
    <3>3. "succeeded" \in S!Settled
      BY DEF S!Settled
    <3>4. QED
      BY <1>1, <1>4, <1>5, <2>1, <3>2, <3>3 DEF CallSound
  <2>2. CASE j # k
    <3>1. listingCall'[j] = listingCall[j] /\ CallSound(j)
      BY <1>5, <2>2 DEF ListingsInv
    <3>2. QED
      BY <1>1, <1>5, <3>1 DEF CallSound
  <2>3. QED
    BY <2>1, <2>2
<1>10. RefreshesNoted'
  <2> SUFFICES ASSUME NEW i \in Editors, NEW j \in Editors, i # j,
                      listingCall'[i].kind = "refresh", listingCall'[j].kind = "refresh",
                      listingCall'[i].change = listingCall'[j].change
               PROVE  listingCall'[j].change \in overlapped'
    BY DEF RefreshesNoted
  <2>1. CASE i # k /\ j # k
    BY <1>5, <2>1 DEF ListingsInv, RefreshesNoted
  <2>2. CASE i = k \/ j = k
    <3>1. \E e \in Editors : listingCall[e].kind = "refresh" /\ listingCall[e].change = c
      BY <1>4, <1>5, <2>2
    <3>2. c \in overlapped' /\ listingCall'[j].change = c
      BY <1>1, <1>4, <1>5, <2>2, <3>1
    <3>3. QED
      BY <3>2
  <2>3. QED
    BY <2>1, <2>2
<1>11. QED
  BY <1>6, <1>7, <1>8, <1>9, <1>10 DEF ListingsInv

\* What a refresh writes of its row.
LEMMA RefreshWrites ==
    ASSUME S!ConstantsOK, ListingsInv, NEW k \in Editors, S!WriteRefresh(k)
    PROVE  LET op2 == listingCall[k]
           IN  /\ op2.kind = "refresh" /\ op2.change \in S!Recorded
               /\ op2.status \in S!Statuses /\ op2.asked \in BOOLEAN
               /\ change'[op2.change] \in S!Change
               /\ change'[op2.change].set = change[op2.change].set
               /\ change'[op2.change].status = op2.status
               /\ change'[op2.change].asked = op2.asked
               /\ \A c \in One : c # op2.change => change'[c] = change[c]
               /\ change' \in [One -> S!Change \cup {None}]
               /\ S!Recorded' = S!Recorded
               /\ \A j \in Editors : listingCall'[j] = IF j = k THEN S!Idle ELSE listingCall[j]
               /\ listingCall' \in [Editors -> S!Call]
               /\ UNCHANGED <<listing, connected, decided, overlapped>>
<1> DEFINE op2 == listingCall[k]
           c == op2.change
           old == change[c]
           row == [old EXCEPT !.status = op2.status, !.asked = op2.asked]
<1>1. /\ op2.kind = "refresh" /\ change' = [change EXCEPT ![c] = row]
      /\ listingCall' = [listingCall EXCEPT ![k] = S!Idle]
      /\ UNCHANGED <<listing, connected, decided, overlapped>>
  BY DEF S!WriteRefresh, S!End
<1>2. S!TypeOK /\ S!Idle \in S!Call
  BY DEF ListingsInv, S!Call
<1>3. c \in S!Recorded /\ c \in One /\ op2.status \in S!Statuses /\ op2.asked \in BOOLEAN
  BY <1>1, <1>2, CallFields DEF ListingsInv, CallSound
<1>4. old \in S!Change
  BY <1>2, <1>3 DEF S!TypeOK, S!Recorded
<1>5. row \in S!Change /\ row.set = old.set /\ row.status = op2.status /\ row.asked = op2.asked
  <2> DEFINE st == op2.status
             as == op2.asked
  <2>1. row = [old EXCEPT !.status = st, !.asked = as] /\ st \in S!Statuses /\ as \in BOOLEAN
    BY <1>3
  <2> HIDE DEF st, as, old, row
  <2>2. row \in S!Change /\ row.set = old.set /\ row.status = st /\ row.asked = as
    BY <1>4, <2>1 DEF S!Change
  <2>3. QED
    BY <2>2 DEF st, as
<1> HIDE DEF row
<1>6. /\ \A c2 \in One : change'[c2] = IF c2 = c THEN row ELSE change[c2]
      /\ \A j \in Editors : listingCall'[j] = IF j = k THEN S!Idle ELSE listingCall[j]
      /\ change' \in [One -> S!Change \cup {None}]
      /\ listingCall' \in [Editors -> S!Call]
  BY <1>1, <1>2, <1>3, <1>5 DEF S!TypeOK
<1>7. S!Recorded' = S!Recorded
  BY <1>3, <1>5, <1>6 DEF S!Recorded, S!ConstantsOK
<1>8. QED
  BY <1>1, <1>3, <1>5, <1>6, <1>7

LEMMA WriteRefreshPreserves ==
    ASSUME S!ConstantsOK, ListingsInv, NEW k \in Editors, S!WriteRefresh(k)
    PROVE  ListingsInv'
<1> DEFINE op2 == listingCall[k]
           c == op2.change
<1>1. /\ op2.kind = "refresh" /\ c \in S!Recorded /\ c \in One
      /\ op2.status \in S!Statuses /\ op2.asked \in BOOLEAN
      /\ change'[c].set = change[c].set /\ change'[c].status = op2.status /\ change'[c].asked = op2.asked
      /\ \A c2 \in One : c2 # c => change'[c2] = change[c2]
      /\ change' \in [One -> S!Change \cup {None}]
      /\ S!Recorded' = S!Recorded /\ S!Rows' = S!Rows
      /\ \A j \in Editors : listingCall'[j] = IF j = k THEN S!Idle ELSE listingCall[j]
      /\ listingCall' \in [Editors -> S!Call]
      /\ UNCHANGED <<listing, connected, decided, overlapped>>
  BY RefreshWrites DEF S!Recorded, S!Rows
<1>2. CallSound(k) /\ S!TypeOK /\ S!Idle.kind = "idle"
  BY DEF ListingsInv, S!Idle
<1>3. \A c2 \in S!Recorded : c2 \in One
  BY DEF S!Recorded
<1>4. op2.asked => change[c].set # None
  BY <1>1, <1>2 DEF CallSound
<1>5. S!TypeOK'
  BY <1>1, <1>2 DEF S!TypeOK
<1>6. AskedHasSet'
  BY <1>1, <1>3, <1>4 DEF ListingsInv, AskedHasSet
<1>7. S!VerdictIsAws'
  <2>1. ASSUME NEW c2 \in S!Recorded,
               change'[c2].set # None, change'[c2].asked, change'[c2].status \in S!Settled
        PROVE  decided[change'[c2].set] = change'[c2].status
    <3>1. CASE c2 = c
      BY <1>1, <1>2, <2>1, <3>1 DEF CallSound
    <3>2. CASE c2 # c
      BY <1>1, <1>3, <2>1, <3>2 DEF ListingsInv, S!VerdictIsAws
    <3>3. QED
      BY <3>1, <3>2
  <2>2. QED
    BY <1>1, <2>1 DEF S!VerdictIsAws
<1>8. SetsTaken'
  <2>1. \A c2 \in S!Recorded : change'[c2].set = change[c2].set
    BY <1>1, <1>3
  <2>2. QED
    BY <1>1, <1>2, <2>1 DEF ListingsInv, SetsTaken
<1>9. ASSUME NEW j \in Editors PROVE CallSound(j)'
  <2>1. CASE j = k
    BY <1>1, <1>2, <2>1 DEF CallSound
  <2>2. CASE j # k
    <3>1. listingCall'[j] = listingCall[j] /\ CallSound(j)
      BY <1>1, <2>2 DEF ListingsInv
    <3>2. CASE listingCall[j].kind = "refresh" /\ listingCall[j].change = c
      <4>1. c \in overlapped
        BY <1>1, <2>2, <3>2 DEF ListingsInv, RefreshesNoted
      <4>2. QED
        BY <1>1, <3>1, <3>2, <4>1 DEF CallSound
    <3>3. CASE ~(listingCall[j].kind = "refresh" /\ listingCall[j].change = c)
      <4>1. listingCall[j].kind = "refresh" => change'[listingCall[j].change] = change[listingCall[j].change]
        BY <1>1, <1>3, <3>1, <3>3 DEF CallSound
      <4>2. QED
        BY <1>1, <3>1, <4>1 DEF CallSound
    <3>4. QED
      BY <3>2, <3>3
  <2>3. QED
    BY <2>1, <2>2
<1>10. RefreshesNoted'
  BY <1>1, <1>2 DEF ListingsInv, RefreshesNoted
<1>11. QED
  BY <1>5, <1>6, <1>7, <1>8, <1>9, <1>10 DEF ListingsInv

LEMMA ListingsStep == ASSUME S!ConstantsOK, ListingsInv, [S!Next]_S!vars PROVE ListingsInv'
<1>0. S!TypeOK /\ S!Idle \in S!Call /\ connected \in BOOLEAN
  BY DEF ListingsInv, S!TypeOK, S!Call
<1>1. CASE \E on \in BOOLEAN : S!Connect(on)
  <2>1. UNCHANGED <<listing, change, decided, listingCall, overlapped>> /\ connected' \in BOOLEAN
    BY <1>1 DEF S!Connect
  <2>2. S!Rows' = S!Rows /\ listing' \in [Two -> S!Row \cup {None}]
        /\ listingCall' \in [Editors -> S!Call]
    BY <1>0, <2>1 DEF ListingsInv, S!Rows, S!TypeOK
  <2>3. QED
    BY <2>1, <2>2, MirrorPreserves
<1>2. ASSUME NEW l \in Two, S!CreateDraft(l) PROVE ListingsInv'
  <2> DEFINE row == [entity |-> None, published |-> FALSE, priced |-> FALSE]
  <2>1. /\ l \notin S!Rows /\ listing' = [listing EXCEPT ![l] = row]
        /\ UNCHANGED <<change, connected, decided, listingCall, overlapped>>
    BY <1>2 DEF S!CreateDraft
  <2>2. row \in S!Row /\ ~row.published
    BY DEF S!Row
  <2> HIDE DEF row
  <2>3. \A l2 \in Two : listing'[l2] = IF l2 = l THEN row ELSE listing[l2]
    BY <1>0, <2>1 DEF S!TypeOK
  <2>4. listing' \in [Two -> S!Row \cup {None}] /\ S!Rows \subseteq S!Rows'
    BY <1>0, <2>1, <2>2, <2>3 DEF S!TypeOK, S!Rows, S!ConstantsOK
  <2>5. QED
    BY <1>0, <2>1, <2>4, MirrorPreserves DEF S!TypeOK
<1>3. ASSUME NEW k \in Editors, NEW live \in [One -> BOOLEAN], S!ReadEntities(k, live) PROVE ListingsInv'
  <2> DEFINE what == [kind |-> "sync", live |-> live]
  <2>1. listingCall' = [listingCall EXCEPT ![k] = what]
        /\ UNCHANGED <<listing, change, connected, decided, overlapped>>
    BY <1>3 DEF S!ReadEntities, S!Begin
  <2>2. what \in S!Call /\ what.kind = "sync"
    BY DEF S!Call
  <2> HIDE DEF what
  <2>3. listingCall' \in [Editors -> S!Call] /\ \A j \in Editors : listingCall'[j] = IF j = k THEN what ELSE listingCall[j]
    BY <1>0, <2>1, <2>2 DEF S!TypeOK
  <2>4. S!Rows' = S!Rows /\ listing' \in [Two -> S!Row \cup {None}]
    BY <1>0, <2>1 DEF ListingsInv, S!Rows, S!TypeOK
  <2>5. QED
    BY <1>0, <2>1, <2>2, <2>3, <2>4, MirrorPreserves
<1>4. ASSUME NEW k \in Editors, S!Fail(k) PROVE ListingsInv'
  <2>1. listingCall' = [listingCall EXCEPT ![k] = S!Idle]
        /\ UNCHANGED <<listing, change, connected, decided, overlapped>>
    BY <1>4 DEF S!Fail, S!End
  <2>2. listingCall' \in [Editors -> S!Call] /\ \A j \in Editors : listingCall'[j] = IF j = k THEN S!Idle ELSE listingCall[j]
    BY <1>0, <2>1 DEF S!TypeOK
  <2>3. S!Rows' = S!Rows /\ listing' \in [Two -> S!Row \cup {None}]
    BY <1>0, <2>1 DEF ListingsInv, S!Rows, S!TypeOK
  <2>4. QED
    BY <1>0, <2>1, <2>2, <2>3, MirrorPreserves
<1>5. CASE UNCHANGED S!vars
  <2>1. UNCHANGED <<listing, change, connected, decided, listingCall, overlapped>>
    BY <1>5 DEF S!vars
  <2>2. S!Rows' = S!Rows /\ listing' \in [Two -> S!Row \cup {None}]
        /\ listingCall' \in [Editors -> S!Call]
    BY <1>0, <2>1 DEF ListingsInv, S!Rows, S!TypeOK
  <2>3. QED
    BY <1>0, <2>1, <2>2, MirrorPreserves
<1>6. ASSUME NEW set \in One, NEW status \in S!Statuses, S!Decide(set, status) PROVE ListingsInv'
  BY <1>6, DecidePreserves DEF S!Decide
<1>7. QED
  BY <1>1, <1>2, <1>3, <1>4, <1>5, <1>6, StartChangePreserves, WriteChangePreserves,
     DescribePreserves, WriteRefreshPreserves, WriteSyncPreserves DEF S!Next

LEMMA ListingsInvariance == ASSUME S!ConstantsOK PROVE S!Spec => []ListingsInv
  BY ListingsInit, ListingsStep, PTL DEF S!Spec

\* Only a refresh writes to a change set that is there.
LEMMA ListingsSettled ==
    ASSUME S!ConstantsOK, ListingsInv, [S!Next]_S!vars, NEW c \in S!Recorded, c \notin overlapped',
           change[c].asked, change[c].status \in S!Settled
    PROVE  change'[c].status \in S!Settled
<1>1. c \in One /\ S!TypeOK
  BY DEF S!Recorded, ListingsInv
<1>2. CASE \E k \in Editors : S!WriteRefresh(k)
  <2>1. PICK k \in Editors : S!WriteRefresh(k)
    BY <1>2
  <2>2. /\ listingCall[k].kind = "refresh" /\ overlapped' = overlapped
        /\ change'[listingCall[k].change].status = listingCall[k].status
        /\ c # listingCall[k].change => change'[c] = change[c]
    BY <1>1, <2>1, RefreshWrites
  <2>3. listingCall[k].change = c => listingCall[k].status \in S!Settled
    BY <2>2 DEF ListingsInv, CallSound, AskedHasSet
  <2>4. QED
    BY <2>2, <2>3
<1>3. CASE \E k \in Editors, c2 \in One : S!WriteChange(k, c2)
  <2>1. PICK c2 \in One : c2 \notin S!Recorded /\ \E row : change' = [change EXCEPT ![c2] = row]
    BY <1>3 DEF S!WriteChange
  <2>2. change'[c] = change[c]
    BY <1>1, <2>1 DEF S!TypeOK
  <2>3. QED
    BY <2>2
<1>4. CASE change' = change
  BY <1>4
<1>5. QED
  BY <1>2, <1>3, <1>4 DEF S!Next, S!vars, S!Connect, S!CreateDraft, S!Decide, S!StartChange, S!Describe,
     S!ReadEntities, S!WriteSync, S!Fail

LEMMA ListingsFollow == ASSUME S!ConstantsOK PROVE S!Spec => S!SettledStaysAlone
<1>1. ListingsInv /\ [S!Next]_S!vars =>
          [\A c \in S!Recorded \ overlapped' :
              change[c].asked /\ change[c].status \in S!Settled => change'[c].status \in S!Settled]_S!vars
  BY ListingsSettled
<1>2. QED
  BY <1>1, ListingsInvariance, PTL DEF S!Spec, S!SettledStaysAlone

-----------------------------------------------------------------------------
(* ACE opportunities: an approved routing has its task *)

\* The only edit or approval in flight on an opportunity; one that is to route
\* it has found it without a task.
OppAlone(e, o) ==
    /\ \A d \in Editors : C!Busy(d, o) => d = e
    /\ oppOp[e].kind = "update" /\ oppOp[e].set.route => o \notin tasked

\* A task is of an opportunity that was approved, and is approved still unless
\* operations on it have overlapped.
AceInv ==
    /\ C!TypeOK
    /\ C!ApprovedHasTaskAlone
    /\ tasked \subseteq C!Rows
    /\ \A o \in tasked \ oppContended : opp[o].routing = "approved"
    /\ \A e \in Editors : oppOp[e].kind \in {"update", "approve"} => oppOp[e].opp \in C!Rows
    /\ \A e \in Editors, o \in Two \ oppContended : C!Busy(e, o) => OppAlone(e, o)

LEMMA AceInit == ASSUME C!ConstantsOK, C!Init PROVE AceInv
<1>1. C!Idle \in C!Op /\ C!Idle.kind = "idle"
  BY DEF C!Op, C!Idle
<1>2. QED
  BY <1>1 DEF C!Init, AceInv, C!TypeOK, C!ApprovedHasTaskAlone, C!Rows, C!Busy, C!Mirror

LEMMA OppFields ==
    ASSUME C!TypeOK
    PROVE  /\ \A o \in C!Rows : o \in Two /\ opp[o] \in C!Row
           /\ \A e \in Editors :
                 /\ oppOp[e].kind \in {"update", "approve", "mirror", "team"} => oppOp[e] # C!Idle
                 /\ oppOp[e] # C!Idle => oppOp[e].kind \in {"update", "approve", "mirror", "team"}
                 /\ oppOp[e].kind \in {"update", "approve"} => oppOp[e].opp \in Two
                 /\ oppOp[e].kind = "update" => oppOp[e].set \in C!Change
                 /\ oppOp[e].kind \in {"mirror", "team"} =>
                       /\ oppOp[e].aws \in C!Mirror
                       /\ oppOp[e] = [kind |-> oppOp[e].kind, aws |-> oppOp[e].aws]
           /\ C!Idle \in C!Op /\ C!Idle.kind = "idle"
  BY DEF C!TypeOK, C!Rows, C!Op, C!Idle

\* Only what concerns the routing of rows and their tasks is left to be shown
\* of steps on the tables.
LEMMA OppTablePreserves ==
    ASSUME C!ConstantsOK, AceInv,
           opp' \in [Two -> C!Row \cup {None}],
           mirror' \in C!Mirror,
           \A o \in C!Rows : /\ opp'[o] # None
                             /\ \/ opp'[o].routing = opp[o].routing
                                \/ opp[o].routing = "unrouted" /\ opp'[o].routing = "routed"
                             /\ opp'[o].task = opp[o].task,
           \A o \in Two \ C!Rows : opp'[o] # None => opp'[o].routing = "unrouted",
           UNCHANGED <<tasked, oppContended>>,
           oppOp' \in [Editors -> C!Op],
           \A e \in Editors : \/ oppOp'[e] = oppOp[e]
                              \/ oppOp'[e].kind \notin {"update", "approve"}
    PROVE  AceInv'
<1>1. C!Rows \subseteq C!Rows' /\ C!TypeOK'
  BY DEF C!Rows, AceInv, C!TypeOK
<1>2. C!ApprovedHasTaskAlone'
  BY OppFields DEF AceInv, C!ApprovedHasTaskAlone, C!Rows, C!TypeOK
<1>3. \A o \in tasked \ oppContended : opp'[o].routing = "approved"
  BY <1>1 DEF AceInv
<1>4. \A e \in Editors, o \in Two : C!Busy(e, o)' => C!Busy(e, o) /\ oppOp'[e] = oppOp[e]
  BY DEF C!Busy
<1>5. ASSUME NEW e \in Editors, NEW o \in Two \ oppContended, C!Busy(e, o)'
      PROVE  OppAlone(e, o)'
  BY <1>4, <1>5 DEF AceInv, OppAlone
<1>6. QED
  BY <1>1, <1>2, <1>3, <1>5 DEF AceInv

\* An operation on one opportunity begins.
LEMMA OppReadPreserves ==
    ASSUME AceInv, NEW e \in Editors, NEW o \in C!Rows, NEW what \in C!Op,
           what.kind \in {"update", "approve"}, what.opp = o,
           what.kind = "update" => what.set.route = FALSE \/ opp[o].routing = "unrouted",
           C!Begin(e, o, what)
    PROVE  AceInv'
<1>1. /\ oppOp[e] = C!Idle /\ oppOp' = [oppOp EXCEPT ![e] = what] /\ o \in Two
      /\ UNCHANGED <<opp, mirror, tasked>>
      /\ oppContended \subseteq oppContended' /\ oppContended' \subseteq Two
      /\ \A d \in Editors : C!Busy(d, o) => o \in oppContended'
  BY OppFields DEF C!Begin, AceInv, C!TypeOK
<1>2. /\ C!TypeOK' /\ C!Rows' = C!Rows
      /\ \A d \in Editors : oppOp'[d] = IF d = e THEN what ELSE oppOp[d]
  BY <1>1 DEF AceInv, C!TypeOK, C!Rows
<1>3. \A d \in Editors, p \in Two :
          C!Busy(d, p)' => (d = e /\ p = o) \/ (d # e /\ C!Busy(d, p))
  BY <1>2 DEF C!Busy
<1>4. ASSUME NEW d \in Editors, NEW p \in Two \ oppContended', C!Busy(d, p)'
      PROVE  OppAlone(d, p)'
  <2>1. CASE d = e
    <3>1. p = o /\ \A c \in Editors : ~C!Busy(c, o)
      BY <1>1, <1>3, <1>4, <2>1
    <3>2. what.kind = "update" /\ what.set.route => o \notin tasked
      BY <1>1, <1>4, <3>1 DEF AceInv
    <3>3. QED
      BY <1>1, <1>2, <1>3, <2>1, <3>1, <3>2 DEF OppAlone
  <2>2. CASE d # e
    <3>1. C!Busy(d, p) /\ p # o
      BY <1>1, <1>3, <1>4, <2>2
    <3>2. OppAlone(d, p)
      BY <1>1, <1>4, <3>1 DEF AceInv
    <3>3. QED
      BY <1>1, <1>2, <1>3, <2>2, <3>1, <3>2 DEF OppAlone
  <2>3. QED
    BY <2>1, <2>2
<1>5. QED
  BY <1>1, <1>2, <1>4 DEF AceInv, C!ApprovedHasTaskAlone

\* What an update makes of a row.
LEMMA ChangedOpportunity ==
    ASSUME C!ConstantsOK, NEW row \in C!Row, NEW set \in C!Change
    PROVE  /\ C!Changed(row, set) \in C!Row
           /\ C!Changed(row, set).routing = IF set.route THEN "routed" ELSE row.routing
           /\ C!Changed(row, set).task = row.task
<1>1. /\ row.status \in C!Statuses /\ row.closed \in BOOLEAN
      /\ row.routing \in C!Routing /\ row.task \in BOOLEAN
      /\ set.status \in C!Statuses \cup {"same"} /\ set.capture \in BOOLEAN
      /\ set.route \in BOOLEAN /\ "routed" \in C!Routing
  BY DEF C!Row, C!Change, C!Routing
<1> DEFINE status == IF set.status = "same" THEN row.status ELSE set.status
           closed == IF set.capture THEN set.status \in C!Closed ELSE row.closed
           routing == IF set.route THEN "routed" ELSE row.routing
<1>2. status \in C!Statuses /\ routing \in C!Routing
  BY <1>1
<1>3. closed \in BOOLEAN
  <2>1. CASE set.capture
    <3>1. closed = (set.status \in C!Closed)
      BY <2>1
    <3> HIDE DEF closed
    <3>2. CASE set.status \in C!Closed
      BY <3>1, <3>2
    <3>3. CASE set.status \notin C!Closed
      BY <3>1, <3>3
    <3>4. QED
      BY <3>2, <3>3
  <2>2. CASE ~set.capture
    BY <1>1, <2>2
  <2>3. QED
    BY <2>1, <2>2
<1>4. C!Changed(row, set)
          = [status |-> status, closed |-> closed, routing |-> routing, task |-> row.task]
  BY DEF C!Changed
<1> HIDE DEF status, closed
<1>5. QED
  BY <1>1, <1>2, <1>3, <1>4 DEF C!Row

\* An edit or approval writes its opportunity and ends, or only ends.
LEMMA OppWritePreserves ==
    ASSUME C!ConstantsOK, AceInv, NEW e \in Editors,
           oppOp[e].kind \in {"update", "approve"}, C!End(e),
           NEW row \in C!Row, opp' = [opp EXCEPT ![oppOp[e].opp] = row],
           mirror' = mirror,
           tasked' = tasked \/ tasked' = tasked \cup {oppOp[e].opp},
           oppOp[e].opp \notin oppContended =>
              /\ row.routing = "approved" => row.task
              /\ oppOp[e].opp \in tasked' => row.routing = "approved"
    PROVE  AceInv'
<1> DEFINE o == oppOp[e].opp
<1>1. o \in C!Rows /\ o \in Two /\ row # None
  BY OppFields DEF AceInv, C!ConstantsOK
<1>2. /\ opp'[o] = row /\ \A p \in Two \ {o} : opp'[p] = opp[p]
      /\ opp' \in [Two -> C!Row \cup {None}]
  BY <1>1 DEF AceInv, C!TypeOK
<1>3. C!Rows' = C!Rows
  BY <1>1, <1>2 DEF C!Rows
<1>4. /\ oppOp' \in [Editors -> C!Op] /\ oppContended' = oppContended
      /\ \A d \in Editors : oppOp'[d] = IF d = e THEN C!Idle ELSE oppOp[d]
  BY OppFields DEF C!End, AceInv, C!TypeOK
<1>5. ASSUME NEW d \in Editors, NEW p \in Two \ oppContended', C!Busy(d, p)'
      PROVE  OppAlone(d, p)'
  <2>1. \A c \in Editors : C!Busy(c, p)' => c # e /\ C!Busy(c, p)
    BY <1>4, OppFields DEF C!Busy, AceInv
  <2>2. OppAlone(d, p) /\ d # e /\ oppOp'[d] = oppOp[d]
    BY <1>4, <1>5, <2>1 DEF AceInv
  <2>3. p # o
    BY <2>2 DEF OppAlone, C!Busy
  <2>4. QED
    BY <2>1, <2>2, <2>3 DEF OppAlone
<1>6. C!ApprovedHasTaskAlone'
  BY <1>1, <1>2, <1>3, <1>4, OppFields DEF AceInv, C!ApprovedHasTaskAlone
<1>7. tasked' \subseteq C!Rows /\ \A p \in tasked' \ oppContended : opp'[p].routing = "approved"
  BY <1>1, <1>2, OppFields DEF AceInv
<1>8. C!TypeOK'
  BY <1>1, <1>2, <1>4 DEF AceInv, C!TypeOK
<1>9. \A d \in Editors : oppOp'[d].kind \in {"update", "approve"} => oppOp'[d].opp \in C!Rows
  BY <1>4, OppFields DEF AceInv
<1>10. QED
  BY <1>3, <1>4, <1>5, <1>6, <1>7, <1>8, <1>9 DEF AceInv

LEMMA AceStep == ASSUME C!ConstantsOK, AceInv, [C!Next]_C!vars PROVE AceInv'
<1>1. \A s \in C!Statuses : /\ C!New(s) \in C!Row /\ C!New(s) # None
                            /\ C!New(s).routing = "unrouted"
  <2>1. \A s \in C!Statuses : C!New(s) \in C!Row /\ C!New(s).routing = "unrouted"
    BY DEF C!New, C!Row, C!Routing
  <2>2. QED
    BY <2>1 DEF C!ConstantsOK
<1>2. ASSUME NEW o \in Two, C!Create(o) PROVE AceInv'
  <2>1. /\ o \notin C!Rows /\ opp' = [opp EXCEPT ![o] = C!New("open")] /\ "open" \in C!Statuses
        /\ UNCHANGED <<mirror, tasked, oppOp, oppContended>>
    BY <1>2 DEF C!Create, C!Statuses
  <2>2. /\ opp' \in [Two -> C!Row \cup {None}]
        /\ \A p \in Two : p # o => opp'[p] = opp[p]
        /\ opp'[o].routing = "unrouted"
    BY <1>1, <2>1 DEF AceInv, C!TypeOK
  <2>3. QED
    BY <2>1, <2>2, OppTablePreserves DEF AceInv, C!TypeOK, C!Rows
<1>3. ASSUME NEW I \in SUBSET Two, C!BulkOwner(I) PROVE AceInv'
  <2> DEFINE set(o) == C!ChangeFor(opp[o], "same", TRUE)
  <2>1. /\ I \subseteq C!Rows
        /\ opp' = [o \in Two |-> IF o \in I THEN C!Changed(opp[o], set(o)) ELSE opp[o]]
        /\ UNCHANGED <<mirror, tasked, oppOp, oppContended>>
    BY <1>3 DEF C!BulkOwner
  <2>2. \A o \in C!Rows : set(o) \in C!Change /\ (set(o).route <=> opp[o].routing = "unrouted")
    BY OppFields DEF AceInv, C!ChangeFor, C!Change, C!Row
  <2> HIDE DEF set
  <2>3. \A o \in I : /\ opp'[o] \in C!Row /\ opp'[o] # None
                     /\ opp'[o].task = opp[o].task
                     /\ \/ opp'[o].routing = opp[o].routing
                        \/ opp[o].routing = "unrouted" /\ opp'[o].routing = "routed"
    BY <2>1, <2>2, ChangedOpportunity, OppFields DEF AceInv, C!ConstantsOK
  <2>4. opp' \in [Two -> C!Row \cup {None}] /\ \A o \in Two \ I : opp'[o] = opp[o]
    BY <2>1, <2>3 DEF AceInv, C!TypeOK
  <2>5. QED
    BY <2>1, <2>3, <2>4, OppTablePreserves DEF AceInv, C!TypeOK, C!Rows
<1>4. ASSUME NEW told, NEW I \in SUBSET C!Rows,
             opp' = [o \in Two |-> IF o \in I THEN [opp[o] EXCEPT !.status = told[o]]
                                   ELSE IF o \in C!Rows \/ told[o] = None THEN opp[o]
                                   ELSE C!New(told[o])],
             \A o \in Two : told[o] \in C!Statuses \cup {None},
             \A o \in I : told[o] # None,
             UNCHANGED <<mirror, tasked, oppContended>>,
             oppOp' \in [Editors -> C!Op],
             \A e \in Editors : \/ oppOp'[e] = oppOp[e]
                                \/ oppOp'[e].kind \notin {"update", "approve"}
      PROVE  AceInv'
  <2>1. \A o \in I : /\ opp'[o] \in C!Row /\ opp'[o] # None
                     /\ opp'[o].task = opp[o].task /\ opp'[o].routing = opp[o].routing
    <3> SUFFICES ASSUME NEW o \in I
                 PROVE  /\ opp'[o] \in C!Row /\ opp'[o] # None
                        /\ opp'[o].task = opp[o].task /\ opp'[o].routing = opp[o].routing
      OBVIOUS
    <3>1. /\ opp[o] \in C!Row /\ told[o] \in C!Statuses /\ o \in Two
          /\ opp'[o] = [opp[o] EXCEPT !.status = told[o]]
      BY <1>4, OppFields DEF AceInv
    <3>2. [opp[o] EXCEPT !.status = told[o]] \in C!Row
      BY <3>1 DEF C!Row
    <3>3. QED
      BY <3>1, <3>2 DEF C!Row, C!ConstantsOK
  <2>2. \A o \in C!Rows \ I : opp'[o] = opp[o]
    BY <1>4 DEF C!Rows
  <2>3. \A o \in Two \ C!Rows : \/ opp'[o] = None
                                \/ opp'[o] \in C!Row /\ opp'[o].routing = "unrouted"
    BY <1>1, <1>4 DEF C!Rows
  <2>4. opp' \in [Two -> C!Row \cup {None}]
    BY <1>4, <2>1, <2>2, <2>3 DEF AceInv, C!TypeOK
  <2>5. QED
    BY <1>4, <2>1, <2>2, <2>3, <2>4, OppTablePreserves DEF AceInv, C!TypeOK, C!Rows
<1>5. ASSUME NEW I \in SUBSET Two, C!AcceptTruth(I) PROVE AceInv'
  <2> DEFINE hit == {o \in I \cap C!Rows \cap One : mirror[o] # None}
             told == [o \in Two |-> IF o \in hit THEN mirror[o] ELSE None]
  <2>1. /\ opp' = [o \in Two |-> IF o \in hit THEN [opp[o] EXCEPT !.status = mirror[o]]
                                 ELSE opp[o]]
        /\ UNCHANGED <<mirror, tasked, oppOp, oppContended>>
    BY <1>5 DEF C!AcceptTruth
  <2>2. hit \in SUBSET C!Rows /\ \A o \in hit : mirror[o] \in C!Statuses
    BY DEF AceInv, C!TypeOK, C!Mirror
  <2> HIDE DEF hit
  <2>3. opp' = [o \in Two |-> IF o \in hit THEN [opp[o] EXCEPT !.status = told[o]]
                              ELSE IF o \in C!Rows \/ told[o] = None THEN opp[o]
                              ELSE C!New(told[o])]
    BY <2>1, <2>2
  <2>4. /\ \A o \in Two : told[o] \in C!Statuses \cup {None}
        /\ \A o \in hit : told[o] # None
    BY <2>2 DEF C!ConstantsOK, C!Rows
  <2> HIDE DEF told
  <2>5. QED
    BY <1>4, <2>1, <2>2, <2>3, <2>4 DEF AceInv, C!TypeOK
<1>6. ASSUME NEW e \in Editors, NEW o \in Two, NEW s \in C!Statuses \cup {"same"},
             NEW owner \in BOOLEAN, C!ReadUpdate(e, o, s, owner)
      PROVE  AceInv'
  <2> DEFINE set == C!ChangeFor(opp[o], s, owner)
             what == [kind |-> "update", opp |-> o, set |-> set]
  <2>1. o \in C!Rows /\ C!Begin(e, o, what)
    BY <1>6 DEF C!ReadUpdate
  <2>2. set \in C!Change /\ (set.route => opp[o].routing = "unrouted") /\ set.route \in BOOLEAN
    BY <2>1, OppFields DEF AceInv, C!ChangeFor, C!Change, C!Row
  <2> HIDE DEF set
  <2>3. what \in C!Op /\ what.kind = "update" /\ what.opp = o /\ what.set = set
    BY <2>2 DEF C!Op
  <2> HIDE DEF what
  <2>4. QED
    BY <2>1, <2>2, <2>3, OppReadPreserves
<1>7. ASSUME NEW e \in Editors, NEW o \in Two, C!ReadApprove(e, o) PROVE AceInv'
  <2> DEFINE what == [kind |-> "approve", opp |-> o]
  <2>1. o \in C!Rows /\ C!Begin(e, o, what)
    BY <1>7 DEF C!ReadApprove
  <2>2. what \in C!Op /\ what.kind = "approve" /\ what.opp = o
    BY DEF C!Op
  <2> HIDE DEF what
  <2>3. QED
    BY <2>1, <2>2, OppReadPreserves
<1>8. ASSUME NEW e \in Editors, C!WriteUpdate(e) PROVE AceInv'
  <2> DEFINE o == oppOp[e].opp
             set == oppOp[e].set
             row == C!Changed(opp[o], set)
  <2>1. /\ oppOp[e].kind = "update" /\ opp' = [opp EXCEPT ![o] = row] /\ C!End(e)
        /\ UNCHANGED <<mirror, tasked>>
    BY <1>8 DEF C!WriteUpdate
  <2>2. o \in C!Rows /\ o \in Two /\ opp[o] \in C!Row /\ set \in C!Change
    BY <2>1, OppFields DEF AceInv
  <2>3. /\ row \in C!Row /\ row.task = opp[o].task
        /\ row.routing = IF set.route THEN "routed" ELSE opp[o].routing
    BY <2>2, ChangedOpportunity
  <2>4. o \notin oppContended => (set.route => o \notin tasked)
    BY <2>1, <2>2 DEF AceInv, OppAlone, C!Busy
  <2> HIDE DEF row
  <2>5. o \notin oppContended =>
            /\ row.routing = "approved" => row.task
            /\ o \in tasked => row.routing = "approved"
    BY <2>2, <2>3, <2>4 DEF AceInv, C!ApprovedHasTaskAlone
  <2>6. QED
    BY <2>1, <2>3, <2>5, OppWritePreserves
<1>9. ASSUME NEW e \in Editors, C!WriteApprove(e) PROVE AceInv'
  <2> DEFINE o == oppOp[e].opp
             row == [opp[o] EXCEPT !.routing = "approved", !.task = o \notin tasked]
  <2>1. /\ oppOp[e].kind = "approve" /\ opp[o].routing = "routed"
        /\ opp' = [opp EXCEPT ![o].routing = "approved", ![o].task = o \notin tasked]
        /\ C!End(e) /\ tasked' = tasked \cup {o} /\ mirror' = mirror
    BY <1>9 DEF C!WriteApprove
  <2>2. o \in C!Rows /\ o \in Two /\ opp[o] \in C!Row
    BY <2>1, OppFields DEF AceInv
  <2>3. opp' = [opp EXCEPT ![o] = row]
    BY <2>1
  <2>4. row \in C!Row /\ row.routing = "approved" /\ (row.task <=> o \notin tasked)
    BY <2>2 DEF C!Row, C!Routing
  <2>5. o \notin oppContended => o \notin tasked
    BY <2>1 DEF AceInv
  <2> HIDE DEF row
  <2>6. QED
    BY <2>1, <2>3, <2>4, <2>5, OppWritePreserves
<1>10. ASSUME NEW e \in Editors, NEW aws \in C!Mirror, C!FetchFromAws(e, aws) PROVE AceInv'
  <2>1. /\ [kind |-> "mirror", aws |-> aws] \in C!Op
        /\ oppOp' = [oppOp EXCEPT ![e] = [kind |-> "mirror", aws |-> aws]]
        /\ UNCHANGED <<opp, mirror, tasked, oppContended>>
    BY <1>10 DEF C!FetchFromAws, C!Op
  <2>2. QED
    BY <2>1, OppTablePreserves DEF AceInv, C!TypeOK, C!Rows
<1>11. ASSUME NEW e \in Editors, C!SyncMirror(e) PROVE AceInv'
  <2> DEFINE what == [kind |-> "team", aws |-> oppOp[e].aws]
  <2>1. oppOp[e].aws \in C!Mirror /\ oppOp[e] = [kind |-> "mirror", aws |-> oppOp[e].aws]
    BY <1>11, OppFields DEF C!SyncMirror, AceInv
  <2>2. [oppOp[e] EXCEPT !.kind = "team"] = what
    BY <2>1
  <2>3. /\ what \in C!Op /\ what.kind = "team" /\ oppOp' = [oppOp EXCEPT ![e] = what]
        /\ UNCHANGED <<opp, tasked, oppContended>>
    BY <1>11, <2>1, <2>2 DEF C!SyncMirror, C!Op
  <2>4. mirror' \in C!Mirror
    BY <1>11, <2>1 DEF C!SyncMirror, C!Mirror, AceInv, C!TypeOK
  <2> HIDE DEF what
  <2>5. QED
    BY <2>3, <2>4, OppTablePreserves DEF AceInv, C!TypeOK, C!Rows
<1>12. ASSUME NEW e \in Editors, NEW teamed \in SUBSET One, C!SyncSalesOrg(e, teamed)
       PROVE  AceInv'
  <2> DEFINE aws == oppOp[e].aws
             told == [o \in Two |-> IF o \in teamed THEN aws[o] ELSE None]
             I == teamed \cap C!Rows
  <2>1. /\ \A o \in teamed : aws[o] # None
        /\ opp' = [o \in Two |-> IF o \notin teamed THEN opp[o]
                                 ELSE IF o \in C!Rows THEN [opp[o] EXCEPT !.status = aws[o]]
                                 ELSE C!New(aws[o])]
        /\ oppOp' = [oppOp EXCEPT ![e] = C!Idle]
        /\ UNCHANGED <<mirror, tasked, oppContended>>
        /\ aws \in C!Mirror
    BY <1>12, OppFields DEF C!SyncSalesOrg, C!End, AceInv
  <2> HIDE DEF aws
  <2>2. \A o \in teamed : aws[o] \in C!Statuses
    BY <2>1 DEF C!Mirror
  <2>3. opp' = [o \in Two |-> IF o \in I THEN [opp[o] EXCEPT !.status = told[o]]
                              ELSE IF o \in C!Rows \/ told[o] = None THEN opp[o]
                              ELSE C!New(told[o])]
    BY <2>1
  <2>4. /\ \A o \in Two : told[o] \in C!Statuses \cup {None}
        /\ \A o \in I : told[o] # None
        /\ I \in SUBSET C!Rows
    BY <2>1, <2>2 DEF C!Rows
  <2>5. oppOp' \in [Editors -> C!Op]
        /\ \A d \in Editors : oppOp'[d] = oppOp[d] \/ oppOp'[d].kind \notin {"update", "approve"}
    BY <2>1, OppFields DEF AceInv, C!TypeOK
  <2> HIDE DEF told, I
  <2>6. QED
    BY <1>4, <2>1, <2>3, <2>4, <2>5
<1>13. ASSUME NEW e \in Editors, C!Fail(e) PROVE AceInv'
  <2>1. /\ oppOp' \in [Editors -> C!Op]
        /\ \A d \in Editors : oppOp'[d] = oppOp[d] \/ oppOp'[d].kind \notin {"update", "approve"}
    BY <1>13, OppFields DEF C!Fail, C!End, AceInv, C!TypeOK
  <2>2. UNCHANGED <<opp, mirror, tasked, oppContended>>
    BY <1>13 DEF C!Fail, C!End
  <2>3. QED
    BY <2>1, <2>2, OppTablePreserves DEF AceInv, C!TypeOK, C!Rows
<1>14. CASE UNCHANGED C!vars
  BY <1>14, OppTablePreserves DEF C!vars, AceInv, C!TypeOK, C!Rows
<1>15. QED
  BY <1>2, <1>3, <1>5, <1>6, <1>7, <1>8, <1>9, <1>10, <1>11, <1>12, <1>13, <1>14 DEF C!Next

LEMMA AceInvariance == ASSUME C!ConstantsOK PROVE C!Spec => []AceInv
  BY AceInit, AceStep, PTL DEF C!Spec
=============================================================================
