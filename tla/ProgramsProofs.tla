--------------------------- MODULE ProgramsProofs ---------------------------
(***************************************************************************)
(* What holds of programs, tiers, assessments, applications and roadmaps,  *)
(* of their schedules, forecasts and simulated completions, for all sets   *)
(* of ids, numbers of editors and milestones, and bounds.                  *)
(*                                                                         *)
(* A part that overlaps are harmless to is proved for any interleaving.    *)
(* The others have a ghost that remembers where two operations overlapped: *)
(* their invariants say that what the only operation in flight on a record *)
(* has read is still so.  Of a roadmap most of the work is on the chain of *)
(* its milestones, which a step adds to, removes from or renumbers.        *)
(***************************************************************************)
EXTENDS MCRecords, FiniteSetTheorems, NaturalsInduction, Integers, Sequences, TLAPS

LEMMA LeastNat ==
    ASSUME NEW S2 \in SUBSET Nat, S2 # {}
    PROVE  \E m \in S2 : \A n \in S2 : m <= n
<1> DEFINE less == {xy \in Nat \X Nat : xy[1] < xy[2]}
<1>1. IsWellFoundedOn(less, Nat)
  BY NatLessThanWellFounded DEF OpToRel
<1>2. PICK m \in S2 : \A n \in S2 : <<n, m>> \notin less
  <2> HIDE DEF less
  <2>1. QED
    BY <1>1, WFMin
<1>3. ASSUME NEW n \in S2 PROVE m <= n
  <2>1. n \in Nat /\ m \in Nat
    OBVIOUS
  <2>2. <<n, m>> \notin less
    BY <1>2
  <2>3. ~(n < m)
    BY <2>1, <2>2
  <2>4. QED
    BY <2>1, <2>3
<1>4. QED
  BY <1>3

LEMMA GreatestNat ==
    ASSUME NEW N1 \in Nat, NEW S2 \in SUBSET (0..N1), S2 # {}
    PROVE  \E m \in S2 : \A n \in S2 : n <= m
<1> DEFINE T2 == {N1 - n : n \in S2}
<1>1. T2 \in SUBSET Nat
  OBVIOUS
<1>2. T2 # {}
  <2>1. PICK n \in S2 : TRUE
    OBVIOUS
  <2>2. N1 - n \in T2
    OBVIOUS
  <2> QED BY <2>2
<1>3. PICK k \in T2 : \A n \in T2 : k <= n
  <2> HIDE DEF T2
  <2> QED BY <1>1, <1>2, LeastNat
<1>4. PICK m \in S2 : k = N1 - m
  OBVIOUS
<1>5. \A n \in S2 : N1 - m <= N1 - n
  BY <1>3, <1>4
<1>6. QED
  BY <1>5

-----------------------------------------------------------------------------
(* Programs: readiness is checked before it is submitted on *)

\* A submission in flight has read an adopted program, whose readiness stands
\* or is known to have been overtaken.
ProgramsInv ==
    /\ Q!TypeOK
    /\ Q!ActiveIsStamped
    /\ \A e \in Editors : programOp[e] # None =>
          /\ programOp[e] \in Q!Rows
          /\ programOp[e] \in overtaken \/ Q!Ready(programOp[e])

LEMMA ProgramsInit == ASSUME Q!ConstantsOK, Q!Init PROVE ProgramsInv
  BY DEF Q!Init, ProgramsInv, Q!TypeOK, Q!ActiveIsStamped, Q!Rows, Q!Requirement, Q!New

\* Requirements and documents change under the eyes of the submissions.
LEMMA ReadinessPreserves ==
    ASSUME Q!ConstantsOK, ProgramsInv, Q!Note,
           UNCHANGED <<program, programOp>>,
           requirement' \in [One \X Two -> Q!Requirement],
           document' \in [One -> {"absent", "unapproved", "approved"}],
           staged' \subseteq One \X Two
    PROVE  ProgramsInv'
<1>1. Q!Rows' = Q!Rows
  BY DEF Q!Rows
<1>2. overtaken' \subseteq One /\ overtaken \subseteq overtaken'
  BY DEF Q!Note, ProgramsInv, Q!TypeOK
<1>3. \A e \in Editors : programOp[e] # None =>
          programOp[e] \in overtaken' \/ Q!Ready(programOp[e])'
  BY DEF Q!Note, ProgramsInv, Q!Rows
<1>4. QED
  BY <1>1, <1>2, <1>3 DEF ProgramsInv, Q!TypeOK, Q!ActiveIsStamped

\* A submission reads a program that is ready, writes or ends.
LEMMA SubmissionPreserves ==
    ASSUME Q!ConstantsOK, ProgramsInv, NEW e \in Editors, NEW p \in One \cup {None},
           programOp' = [programOp EXCEPT ![e] = p],
           p # None => p \in Q!Rows /\ Q!Ready(p),
           program' \in [One -> Q!Row \cup {None}],
           \A r \in One :
              /\ program'[r] = None <=> program[r] = None
              /\ program[r] # None =>
                    program'[r].stamped = program[r].stamped
              /\ program[r] # None /\ program'[r].status = "active" =>
                    program[r].status = "active",
           UNCHANGED <<requirement, document, staged, overtaken>>
    PROVE  ProgramsInv'
<1>1. Q!Rows' = Q!Rows
  BY DEF Q!Rows
<1>2. \A r \in One : Q!Ready(r)' = Q!Ready(r)
  BY DEF Q!Ready
<1>3. \A d \in Editors : programOp'[d] = programOp[d] \/ programOp'[d] = p
  BY DEF ProgramsInv, Q!TypeOK
<1>4. QED
  BY <1>1, <1>2, <1>3 DEF ProgramsInv, Q!TypeOK, Q!ActiveIsStamped, Q!Rows

LEMMA ProgramsStep == ASSUME Q!ConstantsOK, ProgramsInv, [Q!Next]_Q!vars PROVE ProgramsInv'
<1>1. ASSUME NEW p \in One, NEW pursue \in BOOLEAN, Q!Adopt(p, pursue) PROVE ProgramsInv'
  <2> DEFINE row == [status |-> "pending", stamped |-> FALSE]
             approved == {d \in One : document[d] = "approved"}
  <2>1. PICK keys \in SUBSET Two : \E link \in Q!Injection(keys, approved) :
            requirement' = [q \in One \X Two |->
                IF q[1] = p
                THEN [Q!New EXCEPT !.evidence = IF q[2] \in keys THEN link[q[2]] ELSE None]
                ELSE requirement[q]]
    BY <1>1 DEF Q!Adopt
  <2>2. PICK link \in Q!Injection(keys, approved) :
            requirement' = [q \in One \X Two |->
                IF q[1] = p
                THEN [Q!New EXCEPT !.evidence = IF q[2] \in keys THEN link[q[2]] ELSE None]
                ELSE requirement[q]]
    BY <2>1
  <2>3. link \in [keys -> One]
    BY DEF Q!Injection
  <2>4. \A d \in One \cup {None} : [Q!New EXCEPT !.evidence = d] \in Q!Requirement
    BY DEF Q!New, Q!Requirement
  <2>5. requirement' \in [One \X Two -> Q!Requirement]
    BY <2>2, <2>3, <2>4 DEF ProgramsInv, Q!TypeOK
  <2>6. /\ p \notin Q!Rows
        /\ program' = [program EXCEPT ![p] = row]
        /\ UNCHANGED <<document, staged, programOp, overtaken>>
    BY <1>1 DEF Q!Adopt
  <2>7. row \in Q!Row /\ row # None
    <3>1. row \in Q!Row
      BY DEF Q!Row
    <3>2. QED
      BY <3>1 DEF Q!ConstantsOK
  <2>8. \A r \in One : r # p => (Q!Ready(r) <=> Q!Ready(r)')
    <3>1. \A r \in One, k \in Two : r # p => requirement'[<<r, k>>] = requirement[<<r, k>>]
      BY <2>2
    <3>2. QED
      BY <2>6, <3>1 DEF Q!Ready
  <2>9. Q!Rows' = Q!Rows \cup {p}
    BY <2>6, <2>7 DEF Q!Rows, ProgramsInv, Q!TypeOK
  <2>10. Q!ActiveIsStamped'
    BY <2>6, <2>9 DEF ProgramsInv, Q!ActiveIsStamped, Q!TypeOK, Q!Rows
  <2>11. Q!TypeOK'
    BY <2>5, <2>6, <2>7 DEF ProgramsInv, Q!TypeOK
  <2>12. QED
    BY <2>6, <2>8, <2>9, <2>10, <2>11 DEF ProgramsInv, Q!Rows
<1>2. ASSUME NEW I \in SUBSET One, NEW s \in {"pending", "active", "expired"}, Q!Update(I, s)
      PROVE  ProgramsInv'
  <2>1. /\ I \subseteq Q!Rows
        /\ program' = [p \in One |-> IF p \in I THEN Q!WithStatus(program[p], s) ELSE program[p]]
        /\ UNCHANGED <<requirement, document, staged, programOp, overtaken>>
    BY <1>2 DEF Q!Update
  <2>2. \A p \in Q!Rows : /\ Q!WithStatus(program[p], s) \in Q!Row
                          /\ Q!WithStatus(program[p], s).status = s
                          /\ s = "active" => Q!WithStatus(program[p], s).stamped
    BY DEF Q!WithStatus, Q!Rows, Q!Row, ProgramsInv, Q!TypeOK
  <2>3. Q!Rows' = Q!Rows
    BY <2>1, <2>2 DEF Q!Rows, Q!ConstantsOK
  <2>4. Q!TypeOK'
    BY <2>1, <2>2 DEF ProgramsInv, Q!TypeOK
  <2>5. Q!ActiveIsStamped'
    BY <2>1, <2>2, <2>3 DEF ProgramsInv, Q!ActiveIsStamped, Q!Rows
  <2>6. \A p \in One : Q!Ready(p)' = Q!Ready(p)
    BY <2>1 DEF Q!Ready
  <2>7. QED
    BY <2>1, <2>3, <2>4, <2>5, <2>6 DEF ProgramsInv, Q!Rows
<1>3. ASSUME NEW q \in One \X Two, NEW s \in {"open", "met", "blocked"}, Q!UpdateRequirement(q, s)
      PROVE  ProgramsInv'
  <2>1. [requirement[q] EXCEPT !.status = s] \in Q!Requirement
    BY DEF ProgramsInv, Q!TypeOK, Q!Requirement
  <2>2. requirement' \in [One \X Two -> Q!Requirement]
    BY <1>3, <2>1 DEF Q!UpdateRequirement, ProgramsInv, Q!TypeOK
  <2>3. QED
    BY <1>3, <2>2, ReadinessPreserves DEF Q!UpdateRequirement, ProgramsInv, Q!TypeOK
<1>4. ASSUME NEW q \in One \X Two, NEW d \in One, Q!Stage(q, d) PROVE ProgramsInv'
  <2>1. [requirement[q] EXCEPT !.evidence = d] \in Q!Requirement
    BY DEF ProgramsInv, Q!TypeOK, Q!Requirement
  <2>2. requirement' \in [One \X Two -> Q!Requirement]
    BY <1>4, <2>1 DEF Q!Stage, ProgramsInv, Q!TypeOK
  <2>3. QED
    BY <1>4, <2>2, ReadinessPreserves DEF Q!Stage, ProgramsInv, Q!TypeOK
<1>5. ASSUME NEW q \in One \X Two, NEW d \in One \cup {None}, Q!Link(q, d) PROVE ProgramsInv'
  <2>1. [requirement[q] EXCEPT !.evidence = d] \in Q!Requirement
    BY DEF ProgramsInv, Q!TypeOK, Q!Requirement
  <2>2. requirement' \in [One \X Two -> Q!Requirement]
    BY <1>5, <2>1 DEF Q!Link, ProgramsInv, Q!TypeOK
  <2>3. QED
    BY <1>5, <2>2, ReadinessPreserves DEF Q!Link, ProgramsInv, Q!TypeOK
<1>6. ASSUME NEW d \in One, NEW s \in {"unapproved", "approved"}, Q!ChangeEvidence(d, s)
      PROVE  ProgramsInv'
  BY <1>6, ReadinessPreserves DEF Q!ChangeEvidence, ProgramsInv, Q!TypeOK
<1>7. ASSUME NEW e \in Editors, NEW p \in One, Q!ReadReady(e, p) PROVE ProgramsInv'
  BY <1>7, SubmissionPreserves DEF Q!ReadReady, ProgramsInv, Q!TypeOK
<1>8. ASSUME NEW e \in Editors, Q!WriteSubmit(e) PROVE ProgramsInv'
  <2> DEFINE p == programOp[e]
  <2>1. p \in Q!Rows /\ p # None
    BY <1>8 DEF Q!WriteSubmit, ProgramsInv
  <2>2. program[p] \in Q!Row
    BY <2>1 DEF ProgramsInv, Q!TypeOK, Q!Rows
  <2>3. /\ [program[p] EXCEPT !.status = "submitted"] \in Q!Row
        /\ [program[p] EXCEPT !.status = "submitted"].stamped = program[p].stamped
        /\ [program[p] EXCEPT !.status = "submitted"].status = "submitted"
    BY <2>2 DEF Q!Row
  <2>4. \/ program' = program
        \/ program' = [program EXCEPT ![p] = [program[p] EXCEPT !.status = "submitted"]]
    BY <1>8 DEF Q!WriteSubmit
  <2>5. /\ program' \in [One -> Q!Row \cup {None}]
        /\ \A r \in One :
              /\ program'[r] = None <=> program[r] = None
              /\ program[r] # None => program'[r].stamped = program[r].stamped
              /\ program[r] # None /\ program'[r].status = "active" => program[r].status = "active"
    BY <2>1, <2>2, <2>3, <2>4, ZenonT(40) DEF ProgramsInv, Q!TypeOK, Q!ConstantsOK, Q!Rows
  <2>6. QED
    BY <1>8, <2>5, SubmissionPreserves DEF Q!WriteSubmit
<1>9. ASSUME NEW e \in Editors, Q!Fail(e) PROVE ProgramsInv'
  BY <1>9, SubmissionPreserves DEF Q!Fail, ProgramsInv, Q!TypeOK
<1>10. CASE UNCHANGED Q!vars
  BY <1>10 DEF Q!vars, ProgramsInv, Q!TypeOK, Q!ActiveIsStamped, Q!Rows, Q!Ready
<1>11. QED
  BY <1>1, <1>2, <1>3, <1>4, <1>5, <1>6, <1>7, <1>8, <1>9, <1>10 DEF Q!Next

LEMMA ProgramsInvariance == ASSUME Q!ConstantsOK PROVE Q!Spec => []ProgramsInv
  BY ProgramsInit, ProgramsStep, PTL DEF Q!Spec

\* Only the write of a submission makes a program submitted.
LEMMA SubmittedReady ==
    ASSUME Q!ConstantsOK, ProgramsInv, Q!Next, NEW p \in Q!Rows \ overtaken,
           program[p].status # "submitted", program'[p].status = "submitted"
    PROVE  Q!Ready(p)
<1>0. p \in One /\ program[p] # None
  BY DEF Q!Rows
<1>1. ASSUME NEW o \in One, NEW pursue \in BOOLEAN, Q!Adopt(o, pursue) PROVE FALSE
  BY <1>0, <1>1 DEF Q!Adopt, ProgramsInv, Q!TypeOK
<1>2. ASSUME NEW I \in SUBSET One, NEW s \in {"pending", "active", "expired"}, Q!Update(I, s)
      PROVE  FALSE
  <2>1. \A o \in Q!Rows : Q!WithStatus(program[o], s).status = s
    BY DEF Q!WithStatus, Q!Rows, Q!Row, ProgramsInv, Q!TypeOK
  <2>2. QED
    BY <1>0, <1>2, <2>1 DEF Q!Update
<1>3. CASE \E e \in Editors : Q!WriteSubmit(e)
  <2>1. PICK e \in Editors : Q!WriteSubmit(e)
    BY <1>3
  <2>2. programOp[e] = p
    BY <1>0, <2>1 DEF Q!WriteSubmit, ProgramsInv, Q!TypeOK
  <2>3. QED
    BY <1>0, <2>1, <2>2 DEF ProgramsInv, Q!WriteSubmit
<1>4. CASE UNCHANGED program
  BY <1>4
<1>5. QED
  BY <1>1, <1>2, <1>3, <1>4
  DEF Q!Next, Q!UpdateRequirement, Q!Stage, Q!Link, Q!ChangeEvidence, Q!ReadReady, Q!Fail

LEMMA ProgramsFollow == ASSUME Q!ConstantsOK PROVE Q!Spec => Q!SubmittedReadyAlone
<1>1. ASSUME ProgramsInv, [Q!Next]_Q!vars
      PROVE  [\A p \in Q!Rows \ overtaken :
                program[p].status # "submitted" /\ program'[p].status = "submitted"
                    => Q!Ready(p)]_Q!vars
  BY <1>1, SubmittedReady
<1>2. QED
  BY <1>1, ProgramsInvariance, PTL DEF Q!Spec, Q!SubmittedReadyAlone

-----------------------------------------------------------------------------
(* Tiers: the plan's tier is not overwritten, the hand-over happens once *)

\* A plan leads above tier 0, where the estimate would overwrite it; an advance
\* in flight knows the plan's target, a completion the onboarding.
TiersInv ==
    /\ T!TypeOK
    /\ T!AchievedIsTheTier
    /\ T!HandsOverOnce
    /\ tierPlan # None => tierPlan.target > 0
    /\ wizard # None => (wizard.status = "completed" <=> wizard.step = "done")
    /\ \A e \in Editors :
          /\ tierOp[e].kind = "create" => tierOp[e].tier > 0
          /\ tierOp[e].kind = "advance" => tierPlan # None /\ tierOp[e].tier = tierPlan.target
          /\ tierOp[e].kind = "complete" => wizard # None

LEMMA TiersInit == ASSUME T!ConstantsOK, T!Init PROVE TiersInv
<1>1. T!Idle \in T!Op /\ T!Idle.kind = "idle"
  BY DEF T!Idle, T!Op
<1>2. QED
  BY <1>1 DEF T!Init, T!ConstantsOK, TiersInv, T!TypeOK, T!AchievedIsTheTier, T!HandsOverOnce,
              T!TierIds

\* What is known of an operation in flight.
LEMMA TierOpFields ==
    ASSUME T!TypeOK, NEW e \in Editors
    PROVE  /\ tierOp[e].kind \in {"create", "advance", "complete"} => tierOp[e].tier \in T!TierIds
           /\ T!Idle \in T!Op /\ T!Idle.kind = "idle"
  BY DEF T!TypeOK, T!Op, T!Idle

\* An operation begins with what it has read.
LEMMA TierReadPreserves ==
    ASSUME TiersInv, NEW e \in Editors, NEW kind \in {"create", "advance", "complete"},
           NEW t \in T!TierIds, T!Begin(e, kind, t),
           kind = "create" => t > 0,
           kind = "advance" => tierPlan # None /\ t = tierPlan.target,
           kind = "complete" => wizard # None
    PROVE  TiersInv'
<1>1. [kind |-> kind, tier |-> t] \in T!Op
  BY DEF T!Op
<1>2. QED
  BY <1>1 DEF TiersInv, T!Begin, T!TypeOK, T!AchievedIsTheTier, T!HandsOverOnce

\* The steps of the wizard before it is completed.
LEMMA WizardPreserves ==
    ASSUME T!ConstantsOK, TiersInv, NEW next \in T!Wizard, T!Advance(next),
           next.status = wizard.status, next.step # "done"
    PROVE  TiersInv'
<1>1. wizard # None /\ wizard.status = "in_progress" /\ wizard.step # "done"
  BY DEF T!Advance, TiersInv
<1>2. next # None /\ wizard' = next /\ UNCHANGED <<tier, tierPlan, met, tierOp, kickoffs>>
  BY DEF T!Advance, T!ConstantsOK
<1>3. QED
  BY <1>1, <1>2 DEF TiersInv, T!TypeOK, T!AchievedIsTheTier, T!HandsOverOnce

LEMMA TiersStep == ASSUME T!ConstantsOK, TiersInv, [T!Next]_T!vars PROVE TiersInv'
<1> USE DEF T!TierIds
<1>1. ASSUME NEW I \in SUBSET Two, NEW K2 \in SUBSET Two, T!SetMet(I, K2) PROVE TiersInv'
  BY <1>1 DEF T!SetMet, TiersInv, T!TypeOK, T!AchievedIsTheTier, T!HandsOverOnce
<1>2. CASE T!Start
  <2> DEFINE row == [status |-> "in_progress", step |-> "context", path |-> FALSE, stage |-> 0]
  <2>1. row \in T!Wizard /\ row # None
    <3>1. 0 \in T!TierIds
      BY DEF T!ConstantsOK
    <3>2. row \in T!Wizard
      BY <3>1 DEF T!Wizard, T!Steps
    <3>3. QED
      BY <3>2 DEF T!ConstantsOK
  <2>2. wizard = None /\ wizard' = row /\ UNCHANGED <<tier, tierPlan, met, tierOp, kickoffs>>
    BY <1>2 DEF T!Start
  <2>3. QED
    BY <2>1, <2>2 DEF TiersInv, T!TypeOK, T!AchievedIsTheTier, T!HandsOverOnce
<1>3. CASE \/ \E s \in T!TierIds : T!SaveContext(s)
           \/ T!SaveObjectives \/ T!ChoosePath
           \/ \E s \in T!Steps : T!SetStep(s)
  <2>1. PICK next : /\ T!Advance(next)
                    /\ \/ \E s \in T!TierIds :
                             next = [wizard EXCEPT !.stage = s, !.step = "objectives"]
                       \/ next = [wizard EXCEPT !.step = "path"]
                       \/ next = [wizard EXCEPT !.path = TRUE, !.step = "review"]
                       \/ \E s \in T!Steps : next = [wizard EXCEPT !.step = s]
    BY <1>3 DEF T!SaveContext, T!SaveObjectives, T!ChoosePath, T!SetStep
  <2>2. wizard \in T!Wizard
    BY <2>1 DEF T!Advance, TiersInv, T!TypeOK
  <2>3. next \in T!Wizard /\ next.status = wizard.status /\ next.step # "done"
    BY <2>1, <2>2 DEF T!Wizard, T!Steps
  <2>4. QED
    BY <2>1, <2>3, WizardPreserves
<1>4. ASSUME NEW e \in Editors, NEW t \in T!TierIds, T!ReadCreate(e, t) PROVE TiersInv'
  <2>1. t > 0 /\ T!Begin(e, "create", t)
    BY <1>4 DEF T!ReadCreate, TiersInv, T!TypeOK
  <2>2. QED
    BY <2>1, TierReadPreserves
<1>5. ASSUME NEW e \in Editors, T!WriteCreate(e) PROVE TiersInv'
  <2> DEFINE row == [status |-> "active", target |-> tierOp[e].tier]
  <2>1. /\ tierPlan = None /\ tierPlan' = row /\ tierOp' = [tierOp EXCEPT ![e] = T!Idle]
        /\ UNCHANGED <<tier, met, wizard, kickoffs>>
    BY <1>5 DEF T!WriteCreate, T!End
  <2>2. row \in T!Plan /\ row # None /\ row.target > 0 /\ row.status # "achieved"
    BY <1>5, TierOpFields DEF T!WriteCreate, TiersInv, T!Plan, T!ConstantsOK
  <2>3. QED
    BY <2>1, <2>2, TierOpFields DEF TiersInv, T!TypeOK, T!AchievedIsTheTier, T!HandsOverOnce
<1>6. ASSUME NEW e \in Editors, T!ReadAdvance(e) PROVE TiersInv'
  BY <1>6, TierReadPreserves DEF T!ReadAdvance, TiersInv, T!TypeOK, T!Plan
<1>7. ASSUME NEW e \in Editors, T!WriteAdvance(e) PROVE TiersInv'
  <2> DEFINE row == [tierPlan EXCEPT !.status = "achieved"]
  <2>1. /\ tierPlan # None /\ tierOp[e].tier = tierPlan.target
        /\ tierPlan' = row /\ tier' = tierOp[e].tier /\ tierOp' = [tierOp EXCEPT ![e] = T!Idle]
        /\ UNCHANGED <<met, wizard, kickoffs>>
    BY <1>7 DEF T!WriteAdvance, T!End, TiersInv
  <2>2. row \in T!Plan /\ row # None /\ row.target = tierPlan.target
    BY <2>1 DEF TiersInv, T!TypeOK, T!Plan, T!ConstantsOK
  <2>3. tierPlan.target \in T!TierIds
    BY <2>1 DEF TiersInv, T!TypeOK, T!Plan
  <2>4. QED
    BY <2>1, <2>2, <2>3, TierOpFields DEF TiersInv, T!TypeOK, T!AchievedIsTheTier, T!HandsOverOnce
<1>8. ASSUME NEW e \in Editors, T!ReadComplete(e) PROVE TiersInv'
  BY <1>8, TierReadPreserves DEF T!ReadComplete, TiersInv, T!TypeOK, T!Wizard
<1>9. ASSUME NEW e \in Editors, T!WriteComplete(e) PROVE TiersInv'
  <2> DEFINE row == [wizard EXCEPT !.status = "completed", !.step = "done"]
  <2>1. /\ wizard # None /\ wizard.status = "in_progress"
        /\ tier' = T!Estimate(tierOp[e].tier) /\ wizard' = row /\ kickoffs' = kickoffs + 1
        /\ tierOp' = [tierOp EXCEPT ![e] = T!Idle]
        /\ UNCHANGED <<tierPlan, met>>
    BY <1>9 DEF T!WriteComplete, T!End, TiersInv
  <2>2. row \in T!Wizard /\ row # None /\ row.status = "completed" /\ row.step = "done"
    BY <2>1 DEF TiersInv, T!TypeOK, T!Wizard, T!ConstantsOK
  <2>3. kickoffs = 0
    BY <2>1 DEF TiersInv, T!HandsOverOnce, T!TypeOK
  <2>4. tier' \in T!TierIds /\ (tierPlan # None /\ tierPlan.status = "achieved" => tier' = tier)
    BY <1>9, <2>1, TierOpFields DEF T!WriteComplete, T!Estimate, TiersInv, T!TypeOK, T!AchievedIsTheTier
  <2>5. QED
    BY <2>1, <2>2, <2>3, <2>4, TierOpFields
    DEF TiersInv, T!TypeOK, T!AchievedIsTheTier, T!HandsOverOnce
<1>10. ASSUME NEW e \in Editors, T!Fail(e) PROVE TiersInv'
  BY <1>10, TierOpFields DEF T!Fail, T!End, TiersInv, T!TypeOK, T!AchievedIsTheTier, T!HandsOverOnce
<1>11. CASE UNCHANGED T!vars
  BY <1>11 DEF T!vars, TiersInv, T!TypeOK, T!AchievedIsTheTier, T!HandsOverOnce
<1>12. QED
  <2>1. One \subseteq Two
    BY SetsAssumption
  <2>2. \A q \in Two : {q} \in SUBSET Two /\ {} \in SUBSET Two
    OBVIOUS
  <2>3. CASE \/ \E q \in Two : T!SetMet({q}, {}) \/ T!SetMet({q}, {q})
             \/ \E I \in SUBSET One : T!SetMet(One, I)
    BY <1>1, <2>1, <2>2, <2>3
  <2>4. QED
    BY <1>2, <1>3, <1>4, <1>5, <1>6, <1>7, <1>8, <1>9, <1>10, <1>11, <2>3 DEF T!Next

LEMMA TiersInvariance == ASSUME T!ConstantsOK PROVE T!Spec => []TiersInv
  BY TiersInit, TiersStep, PTL DEF T!Spec

-----------------------------------------------------------------------------
(* Assessments: one scoring, one task for each approval *)

\* Where operations on an assessment have not overlapped, the one in flight
\* is the only one; what a submission has read is on file, and a save has
\* seen a draft that is one still.
AloneInFlight(e, a) ==
    /\ \A d \in Editors : G!Busy(d, a) => d = e
    /\ a \in G!Rows =>
          /\ formOp[e].kind = "submit" => formOp[e].answers = assessment[a].answers
          /\ formOp[e].kind = "save" => a \in G!Drafts

AllAlone ==
    \A e \in Editors : \A a \in One \ formContended : G!Busy(e, a) => AloneInFlight(e, a)

AssessmentsInv ==
    /\ G!TypeOK
    /\ G!OneScoring
    /\ G!TaskedIffApproved
    /\ G!ScoreIsOfAnswersAlone
    /\ AllAlone

LEMMA AssessmentsInit == ASSUME G!ConstantsOK, G!Init PROVE AssessmentsInv
<1>1. G!Idle \in G!Op
  BY DEF G!Op
<1>2. QED
  BY <1>1 DEF G!Init, AssessmentsInv, G!TypeOK, G!OneScoring, G!TaskedIffApproved,
              G!ScoreIsOfAnswersAlone, AllAlone, G!Busy, G!Rows, G!Recs

\* What is known of an operation in flight.
LEMMA FormOpFields ==
    ASSUME G!TypeOK, NEW e \in Editors
    PROVE  /\ formOp[e].kind \in {"save", "submit", "approveAll"} => formOp[e] # G!Idle
           /\ formOp[e] # G!Idle =>
                 /\ formOp[e].assessment \in One
                 /\ formOp[e].kind \in {"save", "submit"} => formOp[e].answers \in G!Reply
                 /\ formOp[e].kind = "approveAll" => formOp[e].pending \in SUBSET Two
           /\ G!Idle \in G!Op /\ G!Idle.kind = "idle"
  BY DEF G!TypeOK, G!Op, G!Idle

\* The rows, and the recommendations by their status.
LEMMA AssessmentFields ==
    ASSUME G!TypeOK
    PROVE  /\ \A a \in G!Rows : a \in One /\ assessment[a] \in G!Row
           /\ \A r \in G!Recs : r \in Two /\ recommendation[r] \in G!Rec
  BY DEF G!TypeOK, G!Rows, G!Recs

\* An operation begins with what it reads.
LEMMA FormReadPreserves ==
    ASSUME AssessmentsInv, NEW e \in Editors, NEW what \in G!Op, what # G!Idle,
           what.assessment \in One, G!Begin(e, what),
           what.kind = "submit" => what.answers = assessment[what.assessment].answers,
           what.kind = "save" => what.assessment \in G!Drafts
    PROVE  AssessmentsInv'
<1>1. /\ formOp' = [formOp EXCEPT ![e] = what] /\ formOp[e] = G!Idle
      /\ UNCHANGED <<assessment, recommendation, recTasked>>
      /\ formContended \subseteq formContended' /\ formContended' \subseteq One
      /\ \A d \in Editors : G!Busy(d, what.assessment) => what.assessment \in formContended'
  BY DEF G!Begin, AssessmentsInv, G!TypeOK
<1>2. /\ G!Rows' = G!Rows /\ G!Drafts' = G!Drafts /\ G!Recs' = G!Recs
      /\ \A d \in Editors, a \in One : G!Busy(d, a)' =>
            G!Busy(d, a) \/ (d = e /\ a = what.assessment)
      /\ \A d \in Editors : formOp'[d] = IF d = e THEN what ELSE formOp[d]
  BY <1>1 DEF G!Rows, G!Drafts, G!Recs, G!Busy, AssessmentsInv, G!TypeOK
<1>3. AllAlone'
  <2> SUFFICES ASSUME NEW d \in Editors, NEW a \in One \ formContended', G!Busy(d, a)'
               PROVE  AloneInFlight(d, a)'
    BY DEF AllAlone
  <2>1. CASE d = e
    <3>1. a = what.assessment
      BY <1>2, <2>1 DEF G!Busy
    <3>2. \A c \in Editors : G!Busy(c, a)' => c = e
      BY <1>1, <1>2, <3>1
    <3>3. QED
      BY <1>1, <1>2, <2>1, <3>1, <3>2 DEF AloneInFlight
  <2>2. CASE d # e
    <3>1. G!Busy(d, a)
      BY <1>2, <2>2
    <3>2. a # what.assessment
      BY <1>1, <2>2, <3>1
    <3>3. AloneInFlight(d, a)
      BY <1>1, <3>1 DEF AssessmentsInv, AllAlone
    <3>4. QED
      BY <1>1, <1>2, <2>2, <3>2, <3>3 DEF AloneInFlight
  <2>3. QED
    BY <2>1, <2>2
<1>4. QED
  BY <1>1, <1>2, <1>3
  DEF AssessmentsInv, G!TypeOK, G!OneScoring, G!TaskedIffApproved, G!ScoreIsOfAnswersAlone

\* An operation ends and has changed no assessment that others work on.
LEMMA FormEndPreserves ==
    ASSUME AssessmentsInv, NEW e \in Editors, G!End(e),
           assessment' \in [One -> G!Row \cup {None}],
           formOp[e] # G!Idle,
           \A a \in One : a # formOp[e].assessment => assessment'[a] = assessment[a]
    PROVE  AllAlone' /\ formOp' \in [Editors -> G!Op]
<1>1. /\ formOp' = [formOp EXCEPT ![e] = G!Idle]
      /\ formContended' = formContended
  BY DEF G!End
<1>2. /\ formOp' \in [Editors -> G!Op]
      /\ \A d \in Editors : formOp'[d] = IF d = e THEN G!Idle ELSE formOp[d]
  BY <1>1, FormOpFields DEF AssessmentsInv, G!TypeOK
<1>3. \A d \in Editors, a \in One : G!Busy(d, a)' => d # e /\ G!Busy(d, a)
  BY <1>2 DEF G!Busy, G!Idle
<1>4. ASSUME NEW d \in Editors, NEW a \in One \ formContended', G!Busy(d, a)'
      PROVE  AloneInFlight(d, a)'
  <2>1. d # e /\ G!Busy(d, a) /\ formOp'[d] = formOp[d]
    BY <1>2, <1>3, <1>4
  <2>2. AloneInFlight(d, a)
    BY <1>1, <2>1 DEF AssessmentsInv, AllAlone
  <2>3. ~G!Busy(e, a)
    BY <2>1, <2>2 DEF AloneInFlight
  <2>4. assessment'[a] = assessment[a]
    BY <2>3 DEF G!Busy
  <2>5. (a \in G!Rows' <=> a \in G!Rows) /\ (a \in G!Drafts' <=> a \in G!Drafts)
    BY <2>4 DEF G!Rows, G!Drafts
  <2>6. QED
    BY <1>3, <2>1, <2>2, <2>4, <2>5 DEF AloneInFlight
<1>5. QED
  BY <1>2, <1>4 DEF AllAlone

LEMMA AssessmentsStep ==
    ASSUME G!ConstantsOK, AssessmentsInv, [G!Next]_G!vars
    PROVE  AssessmentsInv'
<1>1. ASSUME NEW a \in One, G!Create(a) PROVE AssessmentsInv'
  <2> DEFINE row == [status |-> "draft", answers |-> None, score |-> None]
  <2>1. row \in G!Row /\ row # None
    <3>1. row \in G!Row
      BY DEF G!Row, G!Reply
    <3>2. QED
      BY <3>1 DEF G!ConstantsOK
  <2>2. /\ assessment' = [assessment EXCEPT ![a] = row] /\ a \notin G!Rows
        /\ \A e \in Editors : ~G!Busy(e, a)
        /\ UNCHANGED <<recommendation, recTasked, formOp, formContended>>
    BY <1>1 DEF G!Create
  <2>3. /\ \A b \in One : b # a => assessment'[b] = assessment[b]
        /\ assessment'[a] = row /\ row.status = "draft"
    BY <2>2 DEF AssessmentsInv, G!TypeOK
  <2>4. G!TypeOK'
    BY <2>1, <2>2 DEF AssessmentsInv, G!TypeOK
  <2>5. G!OneScoring' /\ G!TaskedIffApproved' /\ G!ScoreIsOfAnswersAlone'
    BY <2>1, <2>2, <2>3, AssessmentFields
    DEF AssessmentsInv, G!OneScoring, G!TaskedIffApproved, G!ScoreIsOfAnswersAlone, G!Rows,
        G!Recs, G!Rec
  <2>6. AllAlone'
    BY <2>1, <2>2, <2>3, FormOpFields DEF AssessmentsInv, AllAlone, AloneInFlight, G!Rows, G!Drafts, G!Busy
  <2>7. QED
    BY <2>4, <2>5, <2>6 DEF AssessmentsInv
<1>2. ASSUME NEW I \in SUBSET One, G!BulkDelete(I) PROVE AssessmentsInv'
  <2>1. /\ assessment' = [a \in One |-> IF a \in I \cap G!Drafts THEN None ELSE assessment[a]]
        /\ UNCHANGED <<recommendation, recTasked, formOp, formContended>>
    BY <1>2 DEF G!BulkDelete
  <2>2. G!TypeOK'
    BY <2>1 DEF AssessmentsInv, G!TypeOK
  <2>3. \A a \in G!Rows' : a \in G!Rows /\ assessment'[a] = assessment[a]
    BY <2>1 DEF G!Rows
  <2>4. \A a \in G!Rows : assessment[a].status = "scored" =>
            a \in G!Rows' /\ assessment'[a] = assessment[a]
    BY <2>1 DEF G!Rows, G!Drafts
  <2>5. G!Recs' = G!Recs
    BY <2>1 DEF G!Recs
  <2>6. G!OneScoring' /\ G!TaskedIffApproved' /\ G!ScoreIsOfAnswersAlone'
    BY <2>1, <2>3, <2>4, <2>5
    DEF AssessmentsInv, G!OneScoring, G!TaskedIffApproved, G!ScoreIsOfAnswersAlone
  <2>7. AllAlone'
    BY <2>1, <2>3 DEF AssessmentsInv, AllAlone, AloneInFlight, G!Drafts, G!Busy, G!Idle
  <2>8. QED
    BY <2>2, <2>6, <2>7 DEF AssessmentsInv
<1>3. ASSUME NEW I \in SUBSET Two, NEW decision \in {"approved", "rejected"},
             G!Decide(I, decision), formOp' \in [Editors -> G!Op],
             formContended' = formContended, AllAlone'
      PROVE  AssessmentsInv'
  <2>1. /\ \A r \in I : r \in G!Recs /\ recommendation[r].status = "pending"
        /\ recommendation' = [r \in Two |-> IF r \in I
              THEN [recommendation[r] EXCEPT !.status = decision] ELSE recommendation[r]]
        /\ recTasked' = IF decision = "approved" THEN recTasked \cup I ELSE recTasked
        /\ assessment' = assessment
    BY <1>3 DEF G!Decide
  <2>2. \A r \in I : /\ [recommendation[r] EXCEPT !.status = decision] \in G!Rec
                     /\ recommendation'[r].status = decision
                     /\ recommendation'[r].assessment = recommendation[r].assessment
                     /\ recommendation'[r].from = recommendation[r].from
    BY <2>1, AssessmentFields DEF G!Rec, AssessmentsInv
  <2>3. G!TypeOK'
    BY <1>3, <2>1, <2>2 DEF AssessmentsInv, G!TypeOK
  <2>4. G!Recs' = G!Recs /\ G!Rows' = G!Rows
    BY <2>1, <2>2 DEF G!Recs, G!Rows, G!ConstantsOK
  <2>5. \A r \in G!Recs : r \in I \/ recommendation'[r] = recommendation[r]
    BY <2>1 DEF G!Recs
  <2>6. \A r \in G!Recs : /\ recommendation'[r].assessment = recommendation[r].assessment
                          /\ recommendation'[r].from = recommendation[r].from
    BY <2>2, <2>5
  <2>7. G!OneScoring' /\ G!ScoreIsOfAnswersAlone'
    BY <1>3, <2>1, <2>4, <2>6 DEF AssessmentsInv, G!OneScoring, G!ScoreIsOfAnswersAlone
  <2>8. G!TaskedIffApproved'
    BY <2>1, <2>2, <2>4, <2>5 DEF AssessmentsInv, G!TaskedIffApproved
  <2>9. QED
    BY <1>3, <2>3, <2>7, <2>8 DEF AssessmentsInv
<1>4. ASSUME NEW r \in Two, NEW decision \in {"approved", "rejected"}, G!Review(r, decision)
      PROVE  AssessmentsInv'
  <2>1. G!Decide({r}, decision) /\ UNCHANGED <<assessment, formOp, formContended>>
    BY <1>4 DEF G!Review, G!Decide
  <2>2. AllAlone'
    BY <2>1 DEF AssessmentsInv, AllAlone, AloneInFlight, G!Busy, G!Rows, G!Drafts
  <2>3. QED
    BY <1>3, <2>1, <2>2 DEF AssessmentsInv, G!TypeOK
<1>5. ASSUME NEW e \in Editors, NEW a \in One, NEW answers \in Two, G!ReadSave(e, a, answers)
      PROVE  AssessmentsInv'
  <2> DEFINE what == [kind |-> "save", assessment |-> a, answers |-> answers]
  <2>1. what \in G!Op /\ what # G!Idle
    BY DEF G!Op, G!Idle, G!Reply
  <2>2. QED
    BY <1>5, <2>1, FormReadPreserves DEF G!ReadSave
<1>6. ASSUME NEW e \in Editors, NEW a \in One, G!ReadSubmit(e, a) PROVE AssessmentsInv'
  <2> DEFINE what == [kind |-> "submit", assessment |-> a, answers |-> assessment[a].answers]
  <2>1. assessment[a].answers \in G!Reply
    BY <1>6, AssessmentFields DEF G!ReadSubmit, AssessmentsInv, G!Row
  <2>2. what \in G!Op /\ what # G!Idle
    BY <2>1 DEF G!Op, G!Idle
  <2>3. QED
    BY <1>6, <2>2, FormReadPreserves DEF G!ReadSubmit
<1>7. ASSUME NEW e \in Editors, NEW a \in One, G!ReadPending(e, a) PROVE AssessmentsInv'
  <2> DEFINE what == [kind |-> "approveAll", assessment |-> a, pending |-> G!PendingOf(a)]
  <2>1. what \in G!Op /\ what # G!Idle
    BY DEF G!Op, G!Idle, G!PendingOf, G!Recs
  <2>2. QED
    BY <1>7, <2>1, FormReadPreserves DEF G!ReadPending
<1>8. ASSUME NEW e \in Editors, G!WriteSave(e) PROVE AssessmentsInv'
  <2> DEFINE a == formOp[e].assessment
             row == [assessment[a] EXCEPT !.answers = formOp[e].answers]
  <2>1. /\ formOp[e].kind = "save" /\ a \in G!Rows /\ assessment' = [assessment EXCEPT ![a] = row]
        /\ G!End(e) /\ UNCHANGED <<recommendation, recTasked, formContended>>
    BY <1>8 DEF G!WriteSave, G!End
  <2>2. formOp[e] # G!Idle /\ a \in One /\ formOp[e].answers \in G!Reply
    BY <2>1, FormOpFields DEF AssessmentsInv
  <2>3. /\ row \in G!Row /\ row # None
        /\ row.status = assessment[a].status /\ row.score = assessment[a].score
    <3>1. assessment[a] \in G!Row
      BY <2>1, AssessmentFields DEF AssessmentsInv
    <3>2. row \in G!Row
      BY <2>2, <3>1 DEF G!Row
    <3>3. QED
      BY <2>2, <3>1, <3>2 DEF G!Row, G!ConstantsOK
  <2> HIDE DEF row
  <2>4. /\ assessment' \in [One -> G!Row \cup {None}]
        /\ assessment'[a] = row /\ \A b \in One : b # a => assessment'[b] = assessment[b]
    BY <2>1, <2>2, <2>3 DEF AssessmentsInv, G!TypeOK
  <2>5. AllAlone' /\ formOp' \in [Editors -> G!Op]
    BY <2>1, <2>2, <2>4, FormEndPreserves
  <2>6. G!Rows' = G!Rows /\ G!Recs' = G!Recs
    BY <2>1, <2>3, <2>4 DEF G!Rows, G!Recs
  <2>7. G!OneScoring' /\ G!TaskedIffApproved'
    BY <2>1, <2>3, <2>4, <2>6, AssessmentFields
    DEF AssessmentsInv, G!OneScoring, G!TaskedIffApproved, G!Rec
  <2>8. a \notin formContended => assessment[a].status = "draft"
    BY <2>1, <2>2 DEF AssessmentsInv, AllAlone, AloneInFlight, G!Drafts, G!Busy
  <2>9. G!ScoreIsOfAnswersAlone'
    BY <2>1, <2>3, <2>4, <2>6, <2>8, AssessmentFields DEF AssessmentsInv, G!ScoreIsOfAnswersAlone
  <2>10. QED
    BY <2>1, <2>4, <2>5, <2>7, <2>9 DEF AssessmentsInv, G!TypeOK
<1>9. ASSUME NEW e \in Editors, NEW I \in SUBSET Two, G!WriteSubmit(e, I) PROVE AssessmentsInv'
  <2> DEFINE a == formOp[e].assessment
             answers == formOp[e].answers
             row == [assessment[a] EXCEPT !.status = "scored", !.score = answers]
             rec == [assessment |-> a, from |-> answers, status |-> "pending"]
  <2>1. /\ formOp[e].kind = "submit" /\ a \in G!Rows /\ assessment[a].status = "draft"
        /\ assessment' = [assessment EXCEPT ![a].status = "scored", ![a].score = answers]
        /\ \A r \in I : r \notin G!Recs /\ r \notin recTasked
        /\ recommendation' = [r \in Two |-> IF r \in I THEN rec ELSE recommendation[r]]
        /\ G!End(e) /\ UNCHANGED <<recTasked, formContended>>
    BY <1>9 DEF G!WriteSubmit, G!Scored, G!End, G!Drafts
  <2>2. formOp[e] # G!Idle /\ a \in One /\ answers \in G!Reply
    BY <2>1, FormOpFields DEF AssessmentsInv
  <2>3. assessment[a] \in G!Row
    BY <2>1, AssessmentFields DEF AssessmentsInv
  <2>4. /\ row \in G!Row /\ row # None
        /\ row.status = "scored" /\ row.score = answers /\ row.answers = assessment[a].answers
    <3>1. row \in G!Row
      BY <2>2, <2>3 DEF G!Row
    <3>2. QED
      BY <2>2, <2>3, <3>1 DEF G!Row, G!ConstantsOK
  <2>5. rec \in G!Rec /\ rec # None /\ rec.assessment = a /\ rec.from = answers
        /\ rec.status # "approved"
    <3>1. rec \in G!Rec
      BY <2>2 DEF G!Rec
    <3>2. QED
      BY <3>1 DEF G!ConstantsOK
  <2>6. assessment' = [assessment EXCEPT ![a] = row]
    BY <2>1, <2>2, <2>3 DEF AssessmentsInv, G!TypeOK, G!Row
  <2> HIDE DEF row, rec
  <2>7. /\ assessment' \in [One -> G!Row \cup {None}]
        /\ assessment'[a] = row /\ \A b \in One : b # a => assessment'[b] = assessment[b]
        /\ recommendation' \in [Two -> G!Rec \cup {None}]
        /\ \A r \in Two : recommendation'[r] = IF r \in I THEN rec ELSE recommendation[r]
    BY <2>1, <2>2, <2>4, <2>5, <2>6 DEF AssessmentsInv, G!TypeOK
  <2>8. AllAlone' /\ formOp' \in [Editors -> G!Op]
    BY <2>1, <2>2, <2>7, FormEndPreserves
  <2>9. G!Rows' = G!Rows /\ G!Recs' = G!Recs \cup I
    BY <2>1, <2>4, <2>5, <2>7 DEF G!Rows, G!Recs
  <2>10. \A r \in G!Recs : /\ recommendation'[r] = recommendation[r]
                           /\ recommendation[r].assessment # a
    BY <2>1, <2>7 DEF AssessmentsInv, G!OneScoring, G!Recs
  <2>11. G!OneScoring'
    BY <2>1, <2>4, <2>5, <2>7, <2>9, <2>10, AssessmentFields
    DEF AssessmentsInv, G!OneScoring, G!Rec
  <2>12. G!TaskedIffApproved'
    BY <2>1, <2>5, <2>7, <2>9, <2>10 DEF AssessmentsInv, G!TaskedIffApproved
  <2>13. a \notin formContended => answers = assessment[a].answers
    BY <2>1, <2>2 DEF AssessmentsInv, AllAlone, AloneInFlight, G!Busy
  <2>14. G!ScoreIsOfAnswersAlone'
    BY <2>1, <2>4, <2>7, <2>9, <2>13, AssessmentFields DEF AssessmentsInv, G!ScoreIsOfAnswersAlone
  <2>15. QED
    BY <2>1, <2>7, <2>8, <2>11, <2>12, <2>14 DEF AssessmentsInv, G!TypeOK
<1>10. ASSUME NEW e \in Editors, G!ApproveAll(e) PROVE AssessmentsInv'
  <2>1. /\ formOp[e] # G!Idle /\ formOp[e].pending \in SUBSET Two
        /\ G!Decide(formOp[e].pending, "approved") /\ G!End(e) /\ UNCHANGED <<assessment, formContended>>
    BY <1>10, FormOpFields DEF G!ApproveAll, AssessmentsInv, G!Decide, G!End
  <2>2. AllAlone' /\ formOp' \in [Editors -> G!Op]
    BY <2>1, FormEndPreserves DEF AssessmentsInv, G!TypeOK
  <2>3. QED
    BY <1>3, <2>1, <2>2
<1>11. ASSUME NEW e \in Editors, G!Fail(e) PROVE AssessmentsInv'
  <2>1. /\ formOp[e] # G!Idle
        /\ G!End(e) /\ UNCHANGED <<assessment, recommendation, recTasked, formContended>>
    BY <1>11 DEF G!Fail, G!End
  <2>2. AllAlone' /\ formOp' \in [Editors -> G!Op]
    BY <2>1, FormEndPreserves DEF AssessmentsInv, G!TypeOK
  <2>3. QED
    BY <2>1, <2>2 DEF AssessmentsInv, G!TypeOK, G!OneScoring, G!TaskedIffApproved,
                      G!ScoreIsOfAnswersAlone, G!Rows, G!Recs
<1>12. CASE UNCHANGED G!vars
  BY <1>12 DEF G!vars, AssessmentsInv, G!TypeOK, G!OneScoring, G!TaskedIffApproved,
               G!ScoreIsOfAnswersAlone, AllAlone, AloneInFlight, G!Rows, G!Recs, G!Drafts, G!Busy
<1>13. QED
  BY <1>1, <1>2, <1>4, <1>5, <1>6, <1>7, <1>8, <1>9, <1>10, <1>11, <1>12 DEF G!Next

LEMMA AssessmentsInvariance == ASSUME G!ConstantsOK PROVE G!Spec => []AssessmentsInv
  BY AssessmentsInit, AssessmentsStep, PTL DEF G!Spec

-----------------------------------------------------------------------------
(* Applications: the roll-up is of the table *)

\* An edit in flight is of rows and leaves the others of its table as they are
\* on file, and it knows the status, as long as no two operations overlap.
ApplicationsInv ==
    /\ A!TypeOK
    /\ controlOp = [e \in Editors |-> controlOp[e]]
    /\ A!RollupAlone
    /\ A!ExportStaysAlone
    /\ application = None => A!Rows = {} /\ A!InFlight = {} /\ redrafted = {}
    /\ redrafted \subseteq A!Rows
    /\ application # None => application.count = Cardinality(A!Rows)
    /\ application # None => (application.status = "exported" => application.stamped)
    /\ \A e \in A!InFlight :
          /\ controlOp[e].controls \subseteq A!Rows
          /\ \A c \in controlOp[e].controls : controlOp[e].table[c] # None
    /\ ~controlContended =>
          \A e \in A!InFlight :
             /\ A!InFlight = {e}
             /\ controlOp[e].seen = application.status
             /\ \A c \in Three \ controlOp[e].controls : controlOp[e].table[c] = control[c]

\* The instance counts as FiniteSets does.
LEMMA ApplicationsCardinality == ASSUME NEW I PROVE A!Cardinality(I) = Cardinality(I)
  BY DEF A!Cardinality, Cardinality

LEMMA ControlsFinite ==
    ASSUME A!ConstantsOK, NEW I \in SUBSET Three
    PROVE  /\ IsFiniteSet(I) /\ Cardinality(I) \in Nat
           /\ \A J0 \in SUBSET I :
                 /\ Cardinality(J0) \in Nat /\ Cardinality(J0) <= Cardinality(I)
<1>1. IsFiniteSet(Three)
  BY DEF A!ConstantsOK, A!IsFiniteSet, IsFiniteSet
<1>2. IsFiniteSet(I)
  BY <1>1, FS_Subset
<1>3. QED
  BY <1>2, FS_Subset, FS_CardinalityType

LEMMA ApplicationsInit == ASSUME A!ConstantsOK, A!Init PROVE ApplicationsInv
<1>1. A!Idle \in A!Op
  BY DEF A!Op
<1>2. A!Rows = {} /\ A!InFlight = {}
  BY DEF A!Init, A!Rows, A!InFlight
<1>3. A!TypeOK /\ controlOp = [e \in Editors |-> controlOp[e]]
  BY <1>1 DEF A!Init, A!TypeOK
<1>4. QED
  BY <1>2, <1>3 DEF A!Init, ApplicationsInv, A!RollupAlone, A!ExportStaysAlone

LEMMA ApplicationFields ==
    ASSUME ApplicationsInv
    PROVE  /\ \A e \in A!InFlight :
                 /\ e \in Editors /\ controlOp[e] # A!Idle
                 /\ controlOp[e].controls \in SUBSET Three
                 /\ controlOp[e].table \in [Three -> A!ControlStatus \cup {None}]
                 /\ controlOp[e].seen \in {"draft", "ready", "exported"}
           /\ A!Idle \in A!Op
           /\ application # None => application \in A!Row
  BY DEF ApplicationsInv, A!TypeOK, A!Op, A!Idle, A!InFlight

\* An edit that has updated its rows and read the application
LEMMA EditReadPreserves ==
    ASSUME A!ConstantsOK, ApplicationsInv, NEW e \in Editors, NEW I \in SUBSET Three,
           NEW s \in A!ControlStatus \cup {"same"}, A!UpdateAndRead(e, I, s)
    PROVE  ApplicationsInv'
<1> DEFINE table == A!Edited(I, s)
           what == [kind |-> "edit", controls |-> I, table |-> table, seen |-> application.status]
<1>1. /\ controlOp[e] = A!Idle /\ controlOp' = [controlOp EXCEPT ![e] = what]
      /\ I # {} /\ I \subseteq A!Rows
      /\ controlContended' = (controlContended \/ A!InFlight # {})
      /\ UNCHANGED <<application, control, redrafted>>
  BY DEF A!UpdateAndRead
<1>2. application # None /\ application \in A!Row
  BY <1>1, ApplicationFields DEF ApplicationsInv
<1>3. /\ table \in [Three -> A!ControlStatus \cup {None}]
      /\ \A c \in I : table[c] # None
      /\ \A c \in Three \ I : table[c] = control[c]
  BY <1>1 DEF A!Edited, ApplicationsInv, A!TypeOK, A!Rows, A!ConstantsOK
<1> HIDE DEF table
<1>4. /\ what \in A!Op /\ what # A!Idle /\ what.controls = I /\ what.table = table
      /\ what.seen = application.status
  BY <1>2, <1>3 DEF A!Op, A!Idle, A!Row
<1> HIDE DEF what
<1>5. /\ A!Rows' = A!Rows /\ A!InFlight' = A!InFlight \cup {e}
      /\ \A d \in Editors : controlOp'[d] = IF d = e THEN what ELSE controlOp[d]
      /\ controlOp' = [d \in Editors |-> controlOp'[d]]
      /\ e \notin A!InFlight
  BY <1>1, <1>4 DEF A!Rows, A!InFlight, ApplicationsInv
<1>6. controlContended \in BOOLEAN /\ controlContended' \in BOOLEAN
  BY <1>1 DEF ApplicationsInv, A!TypeOK
<1>7. A!TypeOK'
  BY <1>1, <1>4, <1>5, <1>6 DEF ApplicationsInv, A!TypeOK
<1>8. ~controlContended' => ~controlContended /\ A!InFlight = {}
  BY <1>1, <1>6
<1>9. A!RollupAlone' /\ A!ExportStaysAlone'
  BY <1>1, <1>8 DEF ApplicationsInv, A!RollupAlone, A!ExportStaysAlone, A!Accepted
<1>10. \A d \in A!InFlight' :
          /\ controlOp'[d].controls \subseteq A!Rows
          /\ \A c \in controlOp'[d].controls : controlOp'[d].table[c] # None
  BY <1>1, <1>3, <1>4, <1>5, ApplicationFields DEF ApplicationsInv
<1>11. ~controlContended' => \A d \in A!InFlight' :
          /\ A!InFlight' = {d}
          /\ controlOp'[d].seen = application.status
          /\ \A c \in Three \ controlOp'[d].controls : controlOp'[d].table[c] = control[c]
  BY <1>1, <1>3, <1>4, <1>5, <1>8
<1>12. QED
  BY <1>1, <1>2, <1>5, <1>7, <1>9, <1>10, <1>11 DEF ApplicationsInv

\* The commit of an edit: what it counted is on file, if it was alone.
LEMMA EditCommitPreserves ==
    ASSUME A!ConstantsOK, ApplicationsInv, NEW e \in Editors, A!WriteAndCommit(e)
    PROVE  ApplicationsInv'
<1> DEFINE o == controlOp[e]
           n == Cardinality(A!Accepted(o.table))
           status == A!StatusFor(o.seen, n, application.count)
           row == [application EXCEPT !.accepted = n, !.status = status]
<1>1. /\ e \in A!InFlight
      /\ control' = [c \in Three |-> IF c \in o.controls THEN o.table[c] ELSE control[c]]
      /\ application' = row
      /\ controlOp' = [controlOp EXCEPT ![e] = A!Idle] /\ controlContended' = controlContended
      /\ redrafted' = {}
  BY ApplicationsCardinality DEF A!WriteAndCommit, A!InFlight
<1>2. /\ o.controls \in SUBSET Three /\ o.controls \subseteq A!Rows
      /\ o.table \in [Three -> A!ControlStatus \cup {None}]
      /\ \A c \in o.controls : o.table[c] # None
      /\ o.seen \in {"draft", "ready", "exported"}
      /\ application # None /\ application \in A!Row
  BY <1>1, ApplicationFields DEF ApplicationsInv
<1>3. A!Rows' = A!Rows
  BY <1>1, <1>2 DEF A!Rows
<1>4. A!Accepted(o.table) \in SUBSET Three /\ n \in Nat
  BY ControlsFinite DEF A!Accepted
<1> HIDE DEF n
<1>5. /\ application.count = Cardinality(A!Rows) /\ application.count \in Nat
      /\ application.status \in {"draft", "ready", "exported"} /\ application.stamped \in BOOLEAN
  BY <1>2 DEF ApplicationsInv, A!Row
<1>6. /\ status \in {"draft", "ready", "exported"}
      /\ o.seen = "exported" => status = application.status
      /\ o.seen # "exported" /\ status = "ready" => n >= application.count
      /\ o.seen # "exported" /\ status = "draft" => ~(n >= application.count) \/ application.count = 0
      /\ o.seen # "exported" => status # "exported"
  BY <1>2, <1>4, <1>5 DEF A!StatusFor
<1> HIDE DEF status
<1>7. /\ row \in A!Row /\ row # None /\ row.accepted = n /\ row.status = status
      /\ row.count = application.count /\ row.stamped = application.stamped
  <2>1. row \in A!Row
    BY <1>2, <1>4, <1>6 DEF A!Row
  <2>2. /\ row.accepted = n /\ row.status = status
        /\ row.count = application.count /\ row.stamped = application.stamped
    BY <1>2 DEF A!Row
  <2> HIDE DEF row
  <2>3. QED
    BY <2>1, <2>2 DEF A!ConstantsOK
<1> HIDE DEF row
<1>8. /\ A!InFlight' = A!InFlight \ {e}
      /\ \A d \in Editors : controlOp'[d] = IF d = e THEN A!Idle ELSE controlOp[d]
      /\ controlOp' = [d \in Editors |-> controlOp'[d]]
  BY <1>1 DEF A!InFlight, ApplicationsInv
<1>9. A!TypeOK'
  BY <1>1, <1>2, <1>7, <1>8, ApplicationFields DEF ApplicationsInv, A!TypeOK
<1>10. ~controlContended =>
          /\ A!InFlight' = {} /\ o.seen = application.status
          /\ control' = o.table
  BY <1>1, <1>2, <1>8, SMTT(30) DEF ApplicationsInv
<1>11. A!Accepted(o.table) \subseteq A!Rows' \/ controlContended
  BY <1>10 DEF A!Accepted, A!Rows, A!ConstantsOK, A!ControlStatus
<1>12. ~controlContended => n <= application.count
  <2>1. A!Rows \in SUBSET Three
    BY DEF A!Rows
  <2>2. QED
    BY <1>3, <1>5, <1>11, <2>1, ControlsFinite DEF n
<1>13. ~controlContended => A!Accepted(control') = A!Accepted(o.table)
  BY <1>10
<1>14. A!RollupAlone'
  <2> SUFFICES ASSUME ~controlContended
               PROVE  /\ row.accepted = A!Cardinality(A!Accepted(control'))
                      /\ row.status = "ready" => A!Cardinality(A!Accepted(control')) = row.count
                      /\ row.status = "draft" =>
                            \/ A!Cardinality(A!Accepted(control')) < row.count
                            \/ row.count = 0
    <3>1. A!Accepted(control') \cup redrafted' = A!Accepted(control')
      BY <1>1
    <3>2. QED
      BY <1>1, <3>1 DEF A!RollupAlone, A!Accepted, A!Cardinality
  <2>1. A!Cardinality(A!Accepted(control')) = n
    BY <1>13, ApplicationsCardinality DEF n
  <2>2. CASE o.seen = "exported"
    <3>1. row.status = "exported"
      BY <1>6, <1>7, <1>10, <2>2
    <3>2. QED
      BY <1>7, <2>1, <3>1
  <2>3. CASE o.seen # "exported"
    BY <1>4, <1>5, <1>6, <1>7, <1>12, <2>1, <2>3
  <2>4. QED
    BY <2>2, <2>3, ZenonT(40)
<1>15. A!ExportStaysAlone'
  BY <1>1, <1>2, <1>6, <1>7, <1>10 DEF ApplicationsInv, A!ExportStaysAlone
<1>16. application'.status = "exported" => application'.stamped
  BY <1>1, <1>2, <1>6, <1>7 DEF ApplicationsInv
<1>17. \A d \in A!InFlight' :
          /\ controlOp'[d].controls \subseteq A!Rows
          /\ \A c \in controlOp'[d].controls : controlOp'[d].table[c] # None
  BY <1>8, ApplicationFields DEF ApplicationsInv
<1>18. QED
  BY <1>1, <1>3, <1>5, <1>7, <1>8, <1>9, <1>10, <1>14, <1>15, <1>16, <1>17 DEF ApplicationsInv

\* A draft takes an acceptance back without a count.
LEMMA DraftPreserves ==
    ASSUME A!ConstantsOK, ApplicationsInv, NEW c \in Three, A!Draft(c)
    PROVE  ApplicationsInv'
<1>1. /\ c \in A!Rows /\ \A d \in A!InFlight : c \notin controlOp[d].controls
      /\ control' = [control EXCEPT ![c] = "open"]
      /\ redrafted' = redrafted \cup ({c} \cap A!Accepted(control))
      /\ controlContended' = (controlContended \/ A!InFlight # {})
      /\ UNCHANGED <<application, controlOp>>
  BY DEF A!Draft
<1>2. control \in [Three -> A!ControlStatus \cup {None}] /\ application # None
  BY <1>1 DEF ApplicationsInv, A!TypeOK
<1>3. "open" # None /\ "open" \in A!ControlStatus
  BY DEF A!ConstantsOK, A!ControlStatus
<1>4. /\ A!Rows' = A!Rows /\ A!InFlight' = A!InFlight
      /\ A!Accepted(control') = A!Accepted(control) \ {c}
  BY <1>1, <1>2, <1>3 DEF A!Rows, A!InFlight, A!Accepted
<1>5. A!Accepted(control') \cup redrafted' = A!Accepted(control) \cup redrafted
  BY <1>1, <1>4
<1>6. redrafted' \subseteq A!Rows
  BY <1>1 DEF ApplicationsInv
<1>7. controlContended \in BOOLEAN /\ controlContended' \in BOOLEAN
  BY <1>1 DEF ApplicationsInv, A!TypeOK
<1>8. ~controlContended' => ~controlContended /\ A!InFlight = {}
  BY <1>1, <1>7
<1>9. A!TypeOK'
  BY <1>1, <1>2, <1>3, <1>6, <1>7 DEF ApplicationsInv, A!TypeOK, A!Rows
<1>10. A!RollupAlone' /\ A!ExportStaysAlone'
  BY <1>1, <1>5, <1>8 DEF ApplicationsInv, A!RollupAlone, A!ExportStaysAlone
<1>11. QED
  BY <1>1, <1>2, <1>4, <1>6, <1>8, <1>9, <1>10 DEF ApplicationsInv

LEMMA ApplicationsStep ==
    ASSUME A!ConstantsOK, ApplicationsInv, [A!Next]_A!vars
    PROVE  ApplicationsInv'
<1>1. ASSUME NEW I \in SUBSET Three, A!Upload(I) PROVE ApplicationsInv'
  <2> DEFINE row == [status |-> "draft", count |-> Cardinality(I), accepted |-> 0,
                     stamped |-> FALSE]
  <2>1. /\ application = None /\ application' = row
        /\ control' = [c \in Three |-> IF c \in I THEN "open" ELSE None]
        /\ UNCHANGED <<controlOp, controlContended, redrafted>>
    BY <1>1, ApplicationsCardinality DEF A!Upload
  <2>2. Cardinality(I) \in Nat
    BY ControlsFinite
  <2>3. row \in A!Row /\ row # None
    <3>1. row \in A!Row
      BY <2>2 DEF A!Row
    <3>2. QED
      BY <3>1 DEF A!ConstantsOK
  <2>4. /\ A!Rows' = I /\ A!Accepted(control') = {} /\ A!InFlight' = {} /\ A!InFlight = {}
        /\ redrafted' = {}
    <3>1. "open" # None
      BY DEF A!ConstantsOK, A!ControlStatus
    <3>2. None # "accepted"
      BY DEF A!ConstantsOK, A!ControlStatus
    <3>3. QED
      BY <2>1, <3>1, <3>2 DEF A!Rows, A!Accepted, A!InFlight, ApplicationsInv
  <2>5. A!Cardinality({}) = 0
    BY ApplicationsCardinality, FS_EmptySet
  <2>6. A!TypeOK'
    BY <2>1, <2>3 DEF ApplicationsInv, A!TypeOK, A!ControlStatus
  <2>7. A!RollupAlone'
    <3>1. /\ row.accepted = 0 /\ row.status = "draft" /\ row.count = Cardinality(I)
          /\ (0 < row.count \/ row.count = 0)
      BY <2>2
    <3> HIDE DEF row
    <3>2. A!Cardinality(A!Accepted(control') \cup redrafted') = 0
      BY <2>4, <2>5
    <3>3. QED
      BY <2>1, <3>1, <3>2 DEF A!RollupAlone, A!Accepted, A!Cardinality
  <2>8. A!ExportStaysAlone'
    BY <2>1 DEF A!ExportStaysAlone
  <2>9. QED
    BY <2>1, <2>3, <2>4, <2>6, <2>7, <2>8 DEF ApplicationsInv
<1>2. ASSUME NEW I \in SUBSET Three, NEW e \in Editors, NEW s \in A!ControlStatus \cup {"same"},
             A!UpdateAndRead(e, I, s)
      PROVE  ApplicationsInv'
  BY <1>2, EditReadPreserves
<1>3. CASE A!MarkExported
  <2> DEFINE row == [application EXCEPT !.status = "exported", !.stamped = TRUE]
  <2>1. /\ application # None /\ application' = row
        /\ controlContended' = (controlContended \/ A!InFlight # {})
        /\ UNCHANGED <<control, controlOp, redrafted>>
    BY <1>3 DEF A!MarkExported
  <2>2. /\ row \in A!Row /\ row # None /\ row.status = "exported" /\ row.stamped
        /\ row.accepted = application.accepted /\ row.count = application.count
    <3>1. application \in A!Row
      BY <2>1, ApplicationFields
    <3>2. row \in A!Row
      BY <3>1 DEF A!Row
    <3>3. /\ row.status = "exported" /\ row.stamped
          /\ row.accepted = application.accepted /\ row.count = application.count
      BY <3>1 DEF A!Row
    <3> HIDE DEF row
    <3>4. QED
      BY <3>2, <3>3 DEF A!ConstantsOK
  <2> HIDE DEF row
  <2>3. A!Rows' = A!Rows /\ A!InFlight' = A!InFlight
    BY <2>1 DEF A!Rows, A!InFlight
  <2>4. controlContended \in BOOLEAN /\ controlContended' \in BOOLEAN
    BY <2>1 DEF ApplicationsInv, A!TypeOK
  <2>5. ~controlContended' => ~controlContended /\ A!InFlight = {}
    BY <2>1, <2>4
  <2>6. A!TypeOK'
    BY <2>1, <2>2, <2>4 DEF ApplicationsInv, A!TypeOK
  <2>7. A!RollupAlone' /\ A!ExportStaysAlone'
    BY <2>1, <2>2, <2>5 DEF ApplicationsInv, A!RollupAlone, A!ExportStaysAlone, A!Accepted
  <2>8. QED
    BY <2>1, <2>2, <2>3, <2>5, <2>6, <2>7 DEF ApplicationsInv
<1>4. ASSUME NEW e \in Editors, A!WriteAndCommit(e) PROVE ApplicationsInv'
  BY <1>4, EditCommitPreserves
<1>5. ASSUME NEW e \in Editors, A!Fail(e) PROVE ApplicationsInv'
  <2>1. /\ controlOp' = [controlOp EXCEPT ![e] = A!Idle]
        /\ UNCHANGED <<application, control, controlContended, redrafted>>
    BY <1>5 DEF A!Fail
  <2>2. /\ A!InFlight' = A!InFlight \ {e} /\ A!Rows' = A!Rows
        /\ \A d \in Editors : controlOp'[d] = IF d = e THEN A!Idle ELSE controlOp[d]
        /\ controlOp' = [d \in Editors |-> controlOp'[d]]
    BY <2>1 DEF A!InFlight, A!Rows, ApplicationsInv
  <2>3. A!TypeOK'
    BY <2>1, <2>2, ApplicationFields DEF ApplicationsInv, A!TypeOK
  <2>4. A!RollupAlone' /\ A!ExportStaysAlone'
    BY <2>1 DEF ApplicationsInv, A!RollupAlone, A!ExportStaysAlone, A!Accepted
  <2>5. \A d \in A!InFlight' :
            /\ controlOp'[d].controls \subseteq A!Rows
            /\ \A c \in controlOp'[d].controls : controlOp'[d].table[c] # None
    BY <2>2, ApplicationFields DEF ApplicationsInv
  <2>6. ~controlContended => A!InFlight' = {}
    BY <1>5, <2>2 DEF ApplicationsInv, A!Fail, A!InFlight
  <2>7. QED
    BY <2>1, <2>2, <2>3, <2>4, <2>5, <2>6 DEF ApplicationsInv
<1>6. ASSUME NEW c \in Three, A!Draft(c) PROVE ApplicationsInv'
  BY <1>6, DraftPreserves
<1>7. CASE UNCHANGED A!vars
  <2>1. A!Rows' = A!Rows /\ A!InFlight' = A!InFlight
    BY <1>7 DEF A!vars, A!Rows, A!InFlight
  <2>2. A!TypeOK' /\ A!RollupAlone' /\ A!ExportStaysAlone'
    BY <1>7 DEF A!vars, ApplicationsInv, A!TypeOK, A!RollupAlone, A!ExportStaysAlone, A!Accepted
  <2>3. QED
    BY <1>7, <2>1, <2>2 DEF A!vars, ApplicationsInv
<1>8. QED
  BY <1>1, <1>2, <1>3, <1>4, <1>5, <1>6, <1>7 DEF A!Next

LEMMA ApplicationsInvariance == ASSUME A!ConstantsOK PROVE A!Spec => []ApplicationsInv
  BY ApplicationsInit, ApplicationsStep, PTL DEF A!Spec

-----------------------------------------------------------------------------
(* Roadmaps: a chain without gaps, frozen while finalized *)

\* The milestones of a roadmap in a table of them.
Steps(ms, r) == {m \in Four : ms[m] # None /\ ms[m].roadmap = r}

\* Sequence numbers 1..n, dependencies that lead back, catalog items once.
Chain(ms, r) ==
    /\ \A m \in Steps(ms, r) : ms[m].seq \in 1..Cardinality(Steps(ms, r))
    /\ \A m, x \in Steps(ms, r) : ms[m].seq = ms[x].seq => m = x
    /\ \A m \in Steps(ms, r) : ms[m].dep # None =>
          ms[m].dep \in Steps(ms, r) /\ ms[ms[m].dep].seq < ms[m].seq
    /\ \A m, x \in Steps(ms, r) :
          ms[m].origin = ms[x].origin /\ ms[m].origin # None => m = x

\* What an operation in flight has read is how its roadmap is.
AppendExact(ms, o) ==
    /\ o.tail = Cardinality(Steps(ms, o.roadmap))
    /\ o.last = None \/ o.last \in Steps(ms, o.roadmap)
    /\ \A m \in Steps(ms, o.roadmap) : ms[m].origin \notin o.fresh

ReorderExact(ms, o) ==
    /\ \A m \in Steps(ms, o.roadmap) :
          o.place[m] \in 1..Cardinality(Steps(ms, o.roadmap))
    /\ \A m, x \in Steps(ms, o.roadmap) : o.place[m] = o.place[x] => m = x

RemoveExact(ms, o) ==
    /\ o.target \in Steps(ms, o.roadmap)
    /\ o.heir = ms[o.target].dep
    /\ o.dependents = {x \in Steps(ms, o.roadmap) \ {o.target} : ms[x].dep = o.target}
    /\ \A m \in Steps(ms, o.roadmap) \ {o.target} :
          o.place[m] \in 1..(Cardinality(Steps(ms, o.roadmap)) - 1)
    /\ \A m, x \in Steps(ms, o.roadmap) \ {o.target} :
          ms[m].seq < ms[x].seq => o.place[m] < o.place[x]

DependExact(ms, o) ==
    /\ o.target \in Steps(ms, o.roadmap)
    /\ o.pred # None =>
          o.pred \in Steps(ms, o.roadmap) /\ ms[o.pred].seq < ms[o.target].seq

FinalizeExact(ms, o) == o.listed = Steps(ms, o.roadmap)

Exact(ms, o) ==
    /\ o.kind = "append" => AppendExact(ms, o)
    /\ o.kind = "reorder" => ReorderExact(ms, o)
    /\ o.kind = "remove" => RemoveExact(ms, o)
    /\ o.kind = "depend" => DependExact(ms, o)
    /\ o.kind = "finalize" => FinalizeExact(ms, o)

\* A milestone belongs to a roadmap; with its task spawned it is linked to it;
\* in a finalized roadmap it has one.
Linked(ms, rd, sp, r) ==
    \A m \in Steps(ms, r) :
        /\ rd[r] # "absent"
        /\ m \in sp => ms[m].task
        /\ rd[r] = "finalized" => ms[m].task

\* The milestones that an operation in flight writes by their ids: as long as
\* they exist they are of its roadmap.
Touches(o) == {m \in Four : \/ o.kind \in {"remove", "depend"} /\ m = o.target
                            \/ o.kind = "finalize" /\ m \in o.listed}

Mine(ms, o) == \A m \in Touches(o) : ms[m] # None => ms[m].roadmap = o.roadmap

\* On a roadmap that is not crossed at most one operation is in flight.
Lone(plan, cr) ==
    \A d, e \in Editors :
        /\ plan[d] # R!Idle /\ plan[e] # R!Idle
        /\ plan[d].roadmap = plan[e].roadmap /\ plan[e].roadmap \notin cr
        => d = e

RoadmapsInv ==
    /\ R!TypeOK
    /\ \A r \in Two \ crossed : Chain(milestone, r) /\ Linked(milestone, roadmap, spawned, r)
    /\ \A r \in crossed : roadmap[r] # "absent"
    /\ \A e \in Editors : planning[e] # R!Idle =>
          /\ Mine(milestone, planning[e])
          /\ planning[e].roadmap \notin crossed =>
                Exact(milestone, planning[e]) /\ roadmap[planning[e].roadmap] = "draft"
    /\ Lone(planning, crossed)

-----------------------------------------------------------------------------

LEMMA RoadmapBasics ==
    ASSUME R!ConstantsOK
    PROVE  /\ IsFiniteSet(Four) /\ None \notin Four /\ None \notin One /\ None \notin R!Row
           /\ \A ids \in SUBSET Four : R!Cardinality(ids) = Cardinality(ids)
           /\ \A ids \in SUBSET Four : IsFiniteSet(ids) /\ Cardinality(ids) \in Nat
           /\ R!Idle.kind = "idle" /\ MaxSeeds \in Nat /\ Bump \in Nat
           /\ \A some \in SUBSET One : R!Cardinality(some) \in Nat
<1>1. /\ None \notin Four /\ None \notin One /\ None \notin R!Row
      /\ IsFiniteSet(Four \cup One) /\ MaxSeeds \in Nat /\ Bump \in Nat
  BY DEF R!ConstantsOK, R!IsFiniteSet, IsFiniteSet
<1>a. IsFiniteSet(Four) /\ IsFiniteSet(One)
  BY <1>1, FS_Subset
<1>b. \A some \in SUBSET One : R!Cardinality(some) \in Nat
  <2>1. \A some \in SUBSET One : IsFiniteSet(some)
    BY <1>a, FS_Subset
  <2>2. \A some \in SUBSET One : R!Cardinality(some) = Cardinality(some)
    BY DEF R!Cardinality, Cardinality
  <2>3. QED
    BY <2>1, <2>2, FS_CardinalityType
<1>2. \A ids \in SUBSET Four : R!Cardinality(ids) = Cardinality(ids)
  BY DEF R!Cardinality, Cardinality
<1>3. \A ids \in SUBSET Four : IsFiniteSet(ids) /\ Cardinality(ids) \in Nat
  BY <1>a, FS_Subset, FS_CardinalityType
<1>4. QED
  BY <1>1, <1>a, <1>b, <1>2, <1>3 DEF R!Idle

LEMMA StepsAre ==
    ASSUME NEW r PROVE R!Of(r) = Steps(milestone, r)
  BY DEF R!Of, R!Rows, Steps

LEMMA MilestoneFields ==
    ASSUME R!ConstantsOK, NEW ms \in [Four -> R!Row \cup {None}]
    PROVE  /\ \A m \in Four : ms[m] # None =>
                 /\ ms[m] \in R!Row /\ ms[m].roadmap \in Two /\ ms[m].seq \in Nat
                 /\ ms[m].dep \in Four \cup {None} /\ ms[m].origin \in One \cup {None}
           /\ \A r : \A m \in Steps(ms, r) : m \in Four /\ ms[m] # None /\ ms[m].roadmap = r
           /\ \A r : Steps(ms, r) \subseteq Four
<1>1. \A m \in Four : ms[m] # None => ms[m] \in R!Row
  OBVIOUS
<1>2. \A row \in R!Row : /\ row.roadmap \in Two /\ row.seq \in Nat
                         /\ row.dep \in Four \cup {None} /\ row.origin \in One \cup {None}
  BY DEF R!Row
<1>3. QED
  BY <1>1, <1>2 DEF Steps

LEMMA PlanFields ==
    ASSUME R!TypeOK, NEW e \in Editors, planning[e] # R!Idle
    PROVE  LET o == planning[e] IN
           /\ o \in R!Op
           /\ o.kind \in {"append", "reorder", "remove", "depend", "finalize"}
           /\ o.roadmap \in Two
           /\ o.kind = "append" =>
                 o.last \in Four \cup {None} /\ o.tail \in Nat /\ o.fresh \subseteq One
           /\ o.kind = "reorder" => o.place \in [Four -> Nat]
           /\ o.kind = "remove" =>
                 /\ o.target \in Four /\ o.place \in [Four -> Nat]
                 /\ o.heir \in Four \cup {None} /\ o.dependents \subseteq Four
           /\ o.kind = "depend" => o.target \in Four /\ o.pred \in Four \cup {None}
           /\ o.kind = "finalize" => o.listed \subseteq Four
  BY DEF R!TypeOK, R!Op, R!Idle, R!Places

\* A roadmap whose milestones are as they were is as it was.
LEMMA ChainSame ==
    ASSUME NEW ms, NEW ns, NEW r, Steps(ns, r) = Steps(ms, r),
           \A m \in Steps(ms, r) : ns[m] = ms[m], Chain(ms, r)
    PROVE  Chain(ns, r)
  BY DEF Chain

LEMMA ExactSame ==
    ASSUME NEW ms, NEW ns, NEW o, NEW r, r = o.roadmap,
           Steps(ns, r) = Steps(ms, r), \A m \in Steps(ms, r) : ns[m] = ms[m],
           Exact(ms, o)
    PROVE  Exact(ns, o)
<1>1. o.kind = "append" => AppendExact(ns, o)
  BY DEF Exact, AppendExact
<1>2. o.kind = "reorder" => ReorderExact(ns, o)
  BY DEF Exact, ReorderExact
<1>3. o.kind = "remove" => RemoveExact(ns, o)
  BY DEF Exact, RemoveExact
<1>4. o.kind = "depend" => DependExact(ns, o)
  BY DEF Exact, DependExact
<1>5. o.kind = "finalize" => FinalizeExact(ns, o)
  BY DEF Exact, FinalizeExact
<1>6. QED
  BY <1>1, <1>2, <1>3, <1>4, <1>5 DEF Exact

\* A step that changes milestones of one roadmap changes no other roadmap.
OnlyAt(ms, ns, r) ==
    \A m \in Four : \/ ns[m] = ms[m]
                    \/ /\ ms[m] = None \/ ms[m].roadmap = r
                       /\ ns[m] = None \/ ns[m].roadmap = r

LEMMA ElsewhereSame ==
    ASSUME NEW ms, NEW ns, NEW r, OnlyAt(ms, ns, r), NEW q, q # r
    PROVE  /\ Steps(ns, q) = Steps(ms, q)
           /\ \A m \in Steps(ms, q) : ns[m] = ms[m]
  BY DEF OnlyAt, Steps

\* A step keeps the invariant and leaves alone what is and stays finalized.
RoadmapsKept == RoadmapsInv' /\ \A q \in Two : R!Frozen(q)

LEMMA SameFrozen ==
    ASSUME NEW q, Steps(milestone', q) = Steps(milestone, q),
           \A m \in Steps(milestone, q) : milestone'[m] = milestone[m]
    PROVE  R!Frozen(q)
<1>1. R!Of(q)' = R!Of(q)
  BY DEF R!Of, R!Rows, Steps
<1>2. QED
  BY <1>1, StepsAre DEF R!Frozen

\* A write to one roadmap that leaves it a chain, unless it is crossed, and
\* what is read elsewhere.
LEMMA RoadmapWrite ==
    ASSUME R!ConstantsOK, RoadmapsInv, R!TypeOK', NEW r \in Two,
           OnlyAt(milestone, milestone', r),
           crossed \subseteq crossed', crossed' \subseteq crossed \cup {r},
           r \notin crossed' => Chain(milestone', r) /\ Linked(milestone', roadmap', spawned', r),
           roadmap'[r] # "absent", \A q \in Two \ {r} : roadmap'[q] = roadmap[q],
           \A q \in Two \ {r} : \A m \in Steps(milestone, q) : m \in spawned' => m \in spawned,
           r \in crossed \/ roadmap[r] # "finalized" \/ milestone' = milestone,
           \A e \in Editors : planning'[e] # R!Idle =>
               /\ planning'[e] = planning[e]
               /\ r \in crossed' \/ planning[e].roadmap # r,
           \A e \in Editors : planning'[e] # R!Idle =>
               \A m \in Touches(planning[e]) : milestone[m] = None => milestone'[m] = None
    PROVE  RoadmapsKept
<1>1. ASSUME NEW q \in Two \ crossed'
      PROVE  Chain(milestone', q) /\ Linked(milestone', roadmap', spawned', q)
  <2>1. CASE q = r
    BY <1>1, <2>1
  <2>2. CASE q # r
    <3>1. Chain(milestone, q) /\ Linked(milestone, roadmap, spawned, q)
      BY <1>1 DEF RoadmapsInv
    <3>2. /\ Steps(milestone', q) = Steps(milestone, q)
          /\ \A m \in Steps(milestone, q) : milestone'[m] = milestone[m]
      BY <2>2, ElsewhereSame
    <3>3. Linked(milestone', roadmap', spawned', q)
      BY <2>2, <3>1, <3>2 DEF Linked
    <3>4. QED
      BY <3>1, <3>2, <3>3, ChainSame
  <2>3. QED
    BY <2>1, <2>2
<1>2. ASSUME NEW q \in crossed' PROVE roadmap'[q] # "absent"
  BY <1>2 DEF RoadmapsInv, R!TypeOK
<1>3. ASSUME NEW e \in Editors, planning'[e] # R!Idle
      PROVE  /\ Mine(milestone', planning'[e])
             /\ planning'[e].roadmap \notin crossed' =>
                   /\ Exact(milestone', planning'[e])
                   /\ roadmap'[planning'[e].roadmap] = "draft"
  <2> DEFINE o == planning[e]
             q == o.roadmap
  <2>1. /\ planning'[e] = o /\ o # R!Idle /\ Mine(milestone, o)
        /\ r \in crossed' \/ q # r
        /\ q \notin crossed => Exact(milestone, o) /\ roadmap[q] = "draft"
    BY <1>3 DEF RoadmapsInv
  <2>2. q \in Two
    BY <2>1, PlanFields DEF RoadmapsInv
  <2>3. Mine(milestone', o)
    <3>1. ASSUME NEW m \in Touches(o), milestone'[m] # None
          PROVE  milestone'[m].roadmap = o.roadmap
      <4>1. m \in Four /\ milestone[m] # None /\ milestone[m].roadmap = o.roadmap
        BY <1>3, <2>1, <3>1 DEF Touches, Mine
      <4>2. QED
        BY <3>1, <4>1 DEF OnlyAt
    <3>2. QED
      BY <3>1 DEF Mine
  <2>4. ASSUME q \notin crossed' PROVE Exact(milestone', o) /\ roadmap'[q] = "draft"
    <3>1. q # r /\ Exact(milestone, o) /\ roadmap[q] = "draft"
      BY <2>1, <2>4
    <3>2. /\ Steps(milestone', q) = Steps(milestone, q)
          /\ \A m \in Steps(milestone, q) : milestone'[m] = milestone[m]
      BY <3>1, ElsewhereSame
    <3>3. roadmap'[q] = "draft"
      BY <2>2, <3>1
    <3>4. Exact(milestone', o)
      BY <3>1, <3>2, ExactSame
    <3>5. QED
      BY <3>3, <3>4
  <2>5. QED
    BY <2>1, <2>3, <2>4
<1>4. Lone(planning', crossed')
  BY DEF RoadmapsInv, Lone
<1>5. ASSUME NEW q \in Two PROVE R!Frozen(q)
  <2>1. CASE milestone' = milestone
    BY <2>1, SameFrozen
  <2>2. CASE q # r
    BY <2>2, ElsewhereSame, SameFrozen
  <2>3. CASE q = r /\ (r \in crossed \/ roadmap[r] # "finalized")
    BY <2>3 DEF R!Frozen
  <2>4. QED
    BY <2>1, <2>2, <2>3
<1>6. QED
  BY <1>1, <1>2, <1>3, <1>4, <1>5 DEF RoadmapsInv, RoadmapsKept

LEMMA ImageSize ==
    ASSUME NEW dom, IsFiniteSet(dom), NEW f, DOMAIN f = dom,
           \A x, y \in dom : f[x] = f[y] => x = y
    PROVE  Cardinality({f[x] : x \in dom}) = Cardinality(dom) /\ IsFiniteSet({f[x] : x \in dom})
<1> DEFINE image == {f[x] : x \in dom}
           g == [x \in dom |-> f[x]]
<1>1. g \in [dom -> image]
  OBVIOUS
<1>2. g \in Bijection(dom, image)
  BY <1>1 DEF Bijection, Injection, Surjection, IsInjective
<1>3. ExistsBijection(dom, image)
  BY <1>2 DEF ExistsBijection
<1> HIDE DEF image
<1>4. QED
  BY <1>3, FS_Bijection DEF image

\* New rows behind one that was read.
Grows(r, n, ids, origins, pred, tail) ==
    /\ n \in Nat /\ ids \in [1..n -> Four]
    /\ \A i, j \in 1..n : ids[i] = ids[j] => i = j
    /\ \A i \in 1..n : milestone[ids[i]] = None /\ ids[i] \notin spawned
    /\ origins \in [1..n -> One \cup {None}]
    /\ pred \in Four \cup {None} /\ tail \in Nat
    /\ milestone' = R!Chained(r, ids, origins, pred, tail)

\* What was read is the end of the chain, and catalog items are new to it.
Continues(r, n, origins, pred, tail) ==
    /\ tail = Cardinality(Steps(milestone, r))
    /\ \A i, j \in 1..n : origins[i] = origins[j] /\ origins[i] # None => i = j
    /\ \A i \in 1..n : origins[i] # None =>
          \A m \in Steps(milestone, r) : milestone[m].origin # origins[i]
    /\ pred = None \/ pred \in Steps(milestone, r)

LEMMA RowsGrow ==
    ASSUME R!ConstantsOK, RoadmapsInv, NEW r \in Two,
           NEW n, NEW ids, NEW origins, NEW pred, NEW size, Grows(r, n, ids, origins, pred, size)
    PROVE  /\ milestone' \in [Four -> R!Row \cup {None}]
           /\ OnlyAt(milestone, milestone', r)
           /\ \A m \in Four : (\A i \in 1..n : ids[i] # m) => milestone'[m] = milestone[m]
           /\ \A i \in 1..n : /\ milestone'[ids[i]] # None /\ milestone'[ids[i]].roadmap = r
                               /\ milestone'[ids[i]].seq = size + i
                               /\ milestone'[ids[i]].origin = origins[i]
                               /\ milestone'[ids[i]].dep = IF i = 1 THEN pred ELSE ids[i - 1]
<1> USE DEF Grows
<1>1. milestone \in [Four -> R!Row \cup {None}]
  BY DEF RoadmapsInv, R!TypeOK
<1>2. size \in Nat
  OBVIOUS
<1>3. /\ \A i \in 1..n : milestone'[ids[i]] =
            [roadmap |-> r, seq |-> size + i, origin |-> origins[i], task |-> FALSE,
             dep |-> IF i = 1 THEN pred ELSE ids[i - 1]]
      /\ \A m \in Four : (\A i \in 1..n : ids[i] # m) => milestone'[m] = milestone[m]
  <2>0. milestone' = R!Chained(r, ids, origins, pred, size)
    OBVIOUS
  <2>1. \A m \in Four : milestone'[m] =
          IF \E i \in DOMAIN ids : ids[i] = m
          THEN LET i == CHOOSE j \in DOMAIN ids : ids[j] = m
               IN  [roadmap |-> r, seq |-> size + i, origin |-> origins[i], task |-> FALSE,
                    dep |-> IF i = 1 THEN pred ELSE ids[i - 1]]
          ELSE milestone[m]
    BY <2>0, Zenon DEF R!Chained
  <2>2. DOMAIN ids = 1..n
    OBVIOUS
  <2>3. ASSUME NEW i \in 1..n PROVE (CHOOSE j \in DOMAIN ids : ids[j] = ids[i]) = i
    <3>1. \E j \in DOMAIN ids : ids[j] = ids[i]
      BY <2>2
    <3>2. (CHOOSE j \in DOMAIN ids : ids[j] = ids[i]) \in DOMAIN ids
          /\ ids[CHOOSE j \in DOMAIN ids : ids[j] = ids[i]] = ids[i]
      BY <3>1, Zenon
    <3>3. QED
      BY <2>2, <3>2
  <2>4. ASSUME NEW i \in 1..n
        PROVE  milestone'[ids[i]] =
                  [roadmap |-> r, seq |-> size + i, origin |-> origins[i], task |-> FALSE,
                   dep |-> IF i = 1 THEN pred ELSE ids[i - 1]]
    <3>1. ids[i] \in Four /\ \E j \in DOMAIN ids : ids[j] = ids[i]
      BY <2>2
    <3>2. milestone'[ids[i]] =
            LET k == CHOOSE j \in DOMAIN ids : ids[j] = ids[i]
            IN  [roadmap |-> r, seq |-> size + k, origin |-> origins[k], task |-> FALSE,
                 dep |-> IF k = 1 THEN pred ELSE ids[k - 1]]
      BY <2>1, <3>1, Zenon
    <3>3. QED
      BY <2>3, <3>2, Zenon
  <2>5. \A m \in Four : (\A i \in 1..n : ids[i] # m) => milestone'[m] = milestone[m]
    BY <2>1, <2>2
  <2>6. QED
    BY <2>4, <2>5
<1>4. \A i \in 1..n : (IF i = 1 THEN pred ELSE ids[i - 1]) \in Four \cup {None}
  <2>1. ASSUME NEW i \in 1..n, i # 1 PROVE ids[i - 1] \in Four
    <3>1. i - 1 \in 1..n
      BY <2>1
    <3>2. QED
      BY <3>1
  <2>2. QED
    BY <1>2, <2>1
<1>5. \A i \in 1..n : milestone'[ids[i]] \in R!Row
  <2>1. ASSUME NEW i \in 1..n PROVE milestone'[ids[i]] \in R!Row
    <3> DEFINE seq == size + i
               origin == origins[i]
               dep == IF i = 1 THEN pred ELSE ids[i - 1]
    <3>1. seq \in Nat /\ origin \in One \cup {None} /\ dep \in Four \cup {None}
      BY <1>2, <1>4
    <3>2. milestone'[ids[i]] = [roadmap |-> r, seq |-> seq, origin |-> origin,
                                task |-> FALSE, dep |-> dep]
      BY <1>3
    <3> HIDE DEF seq, origin, dep
    <3>3. QED
      BY <3>1, <3>2 DEF R!Row
  <2>2. QED
    BY <2>1
<1>6. \A i \in 1..n : /\ milestone'[ids[i]] # None /\ milestone'[ids[i]].roadmap = r
                      /\ milestone'[ids[i]].seq = size + i
                      /\ milestone'[ids[i]].origin = origins[i]
                      /\ milestone'[ids[i]].dep = IF i = 1 THEN pred ELSE ids[i - 1]
  <2>1. ASSUME NEW i \in 1..n PROVE milestone'[ids[i]] # None
    BY <1>5, <2>1, RoadmapBasics
  <2>2. ASSUME NEW i \in 1..n
        PROVE  /\ milestone'[ids[i]].roadmap = r
               /\ milestone'[ids[i]].seq = size + i
               /\ milestone'[ids[i]].origin = origins[i]
               /\ milestone'[ids[i]].dep = IF i = 1 THEN pred ELSE ids[i - 1]
    <3> DEFINE dep == IF i = 1 THEN pred ELSE ids[i - 1]
    <3>1. milestone'[ids[i]] = [roadmap |-> r, seq |-> size + i, origin |-> origins[i],
                                task |-> FALSE, dep |-> dep]
      BY <1>3, <2>2
    <3> HIDE DEF dep
    <3>2. milestone'[ids[i]].dep = dep
      BY <3>1
    <3>3. QED
      BY <3>1, <3>2 DEF dep
  <2>3. QED
    BY <2>1, <2>2
<1>7. milestone' \in [Four -> R!Row \cup {None}]
  <2>2. ASSUME NEW m \in Four PROVE milestone'[m] \in R!Row \cup {None}
    <3>1. CASE \E i \in 1..n : ids[i] = m
      BY <1>5, <3>1
    <3>2. CASE \A i \in 1..n : ids[i] # m
      BY <1>1, <1>3, <3>2
    <3>3. QED
      BY <3>1, <3>2
  <2>3. milestone' = [m \in Four |-> milestone'[m]]
    BY Zenon DEF R!Chained
  <2>4. QED
    BY <2>2, <2>3
<1>8. OnlyAt(milestone, milestone', r)
  BY <1>3, <1>6 DEF OnlyAt
<1>9. QED
  BY <1>3, <1>6, <1>7, <1>8

LEMMA ChainGrows ==
    ASSUME R!ConstantsOK, RoadmapsInv, NEW r \in Two,
           Chain(milestone, r), Linked(milestone, roadmap, spawned, r),
           NEW n, NEW ids, NEW origins, NEW pred, NEW size,
           Grows(r, n, ids, origins, pred, size), Continues(r, n, origins, pred, size),
           roadmap'[r] = "draft", spawned' = spawned
    PROVE  Chain(milestone', r) /\ Linked(milestone', roadmap', spawned', r)
<1>3. \A m \in Four : (\A i \in 1..n : ids[i] # m) => milestone'[m] = milestone[m]
  BY RowsGrow
<1>6. \A i \in 1..n : /\ milestone'[ids[i]] # None /\ milestone'[ids[i]].roadmap = r
                      /\ milestone'[ids[i]].seq = size + i
                      /\ milestone'[ids[i]].origin = origins[i]
                      /\ milestone'[ids[i]].dep = IF i = 1 THEN pred ELSE ids[i - 1]
  BY RowsGrow
<1> USE DEF Grows, Continues
<1> DEFINE old == Steps(milestone, r)
           fresh == {ids[i] : i \in 1..n}
           new == Steps(milestone', r)
<1>1. milestone \in [Four -> R!Row \cup {None}] /\ Chain(milestone, r)
      /\ Linked(milestone, roadmap, spawned, r)
  BY DEF RoadmapsInv, R!TypeOK
<1>2. old \subseteq Four /\ size = Cardinality(old) /\ size \in Nat /\ IsFiniteSet(old)
  BY <1>1, MilestoneFields, RoadmapBasics
<1>9. new = old \cup fresh /\ old \cap fresh = {}
  <2>1. old \cap fresh = {}
    BY DEF Steps
  <2>2. ASSUME NEW m \in Four PROVE m \in new <=> m \in old \cup fresh
    <3>1. CASE \E i \in 1..n : ids[i] = m
      BY <1>6, <3>1 DEF Steps
    <3>2. CASE \A i \in 1..n : ids[i] # m
      BY <1>3, <3>2 DEF Steps
    <3>3. QED
      BY <3>1, <3>2
  <2>3. new \subseteq Four /\ old \cup fresh \subseteq Four
    BY <1>2 DEF Steps
  <2>4. QED
    BY <2>1, <2>2, <2>3
<1>10. Cardinality(new) = size + n
  <2>1. Cardinality(fresh) = Cardinality(1..n) /\ IsFiniteSet(fresh)
    <3>1. IsFiniteSet(1..n) /\ DOMAIN ids = 1..n
      <4>1. 1 \in Int /\ n \in Int
        OBVIOUS
      <4>2. QED
        BY <4>1, FS_Interval
    <3>2. \A i, j \in 1..n : ids[i] = ids[j] => i = j
      OBVIOUS
    <3>3. /\ Cardinality({ids[i] : i \in 1..n}) = Cardinality(1..n)
          /\ IsFiniteSet({ids[i] : i \in 1..n})
      BY <3>1, <3>2, ImageSize
    <3>4. QED
      BY <3>3
  <2>2. Cardinality(1..n) = n
    <3>1. 1 \in Int /\ n \in Int /\ n >= 0
      OBVIOUS
    <3>2. Cardinality(1..n) = IF 1 > n THEN 0 ELSE n - 1 + 1
      BY <3>1, FS_Interval
    <3>3. QED
      BY <3>1, <3>2
  <2> HIDE DEF fresh, old, new
  <2>3. /\ Cardinality(old \cup fresh) =
              Cardinality(old) + Cardinality(fresh) - Cardinality(old \cap fresh)
        /\ Cardinality({}) = 0
    BY <1>2, <2>1, FS_Union, FS_EmptySet
  <2>4. Cardinality(old \cap fresh) = 0 /\ Cardinality(new) = Cardinality(old \cup fresh)
    BY <1>9, <2>3
  <2>5. QED
    BY <1>2, <2>1, <2>2, <2>3, <2>4
<1>11. \A m \in old : milestone'[m] = milestone[m] /\ milestone[m].seq \in 1..size
  BY <1>1, <1>2, <1>3 DEF Chain, Steps
<1>12. /\ \A m \in new : m \in old \/ \E i \in 1..n : m = ids[i]
       /\ \A m \in old : m \in new
       /\ \A i \in 1..n : ids[i] \in new
  BY <1>9
<1>20. \A m \in old : milestone[m].dep # None =>
            milestone[m].dep \in old /\ milestone[milestone[m].dep].seq < milestone[m].seq
  BY <1>1 DEF Chain
<1> DEFINE Back(m) == /\ milestone'[m].dep \in new
                      /\ milestone'[milestone'[m].dep].seq < milestone'[m].seq
<1>13. \A m \in new : milestone'[m].seq \in 1..Cardinality(new)
  <2>1. ASSUME NEW m \in old PROVE milestone'[m].seq \in 1..(size + n)
    BY <1>2, <1>11
  <2>2. ASSUME NEW i \in 1..n PROVE milestone'[ids[i]].seq \in 1..(size + n)
    BY <1>2, <1>6
  <2>3. QED
    BY <1>10, <1>12, <2>1, <2>2
<1>14. ASSUME NEW m \in new, NEW x \in new, milestone'[m].seq = milestone'[x].seq PROVE m = x
  <2>1. CASE m \in old /\ x \in old
    BY <1>1, <1>11, <1>14, <2>1 DEF Chain
  <2>2. ASSUME NEW p \in old, NEW i \in 1..n PROVE milestone'[p].seq # milestone'[ids[i]].seq
    <3> HIDE DEF old, new, fresh
    <3>1. milestone'[p].seq \in 1..size /\ milestone'[ids[i]].seq = size + i
      BY <1>6, <1>11
    <3>2. \A a \in 1..size : a # size + i
      BY <1>2
    <3>3. QED
      BY <3>1, <3>2
  <2>3. ASSUME NEW i \in 1..n, NEW j \in 1..n, milestone'[ids[i]].seq = milestone'[ids[j]].seq
        PROVE  ids[i] = ids[j]
    <3>1. size + i = size + j
      BY <1>6, <2>3
    <3>2. QED
      BY <1>2, <3>1
  <2>4. QED
    BY <1>12, <1>14, <2>1, <2>2, <2>3
<1>15. ASSUME NEW m \in new, milestone'[m].dep # None PROVE Back(m)
  <2> HIDE DEF old, new, fresh
  <2>1. CASE m \in old
    <3>1. milestone'[m] = milestone[m]
      BY <1>11, <2>1
    <3>2. milestone[m].dep \in old /\ milestone[milestone[m].dep].seq < milestone[m].seq
      BY <1>15, <1>20, <2>1, <3>1
    <3>3. QED
      BY <1>11, <1>12, <3>1, <3>2
  <2>2. ASSUME NEW i \in 1..n, m = ids[i] PROVE Back(m)
    <3>1. CASE i = 1
      <4>1. milestone'[m].dep = pred /\ milestone'[m].seq = size + 1
        BY <1>6, <2>2, <3>1
      <4>2. pred \in old
        BY <1>15, <4>1 DEF old
      <4>3. milestone'[pred].seq \in 1..size /\ pred \in new
        BY <1>11, <1>12, <4>2
      <4>4. milestone'[pred].seq < size + 1
        BY <1>2, <4>3
      <4>5. QED
        BY <4>1, <4>3, <4>4
    <3>2. CASE i # 1
      <4>1. i - 1 \in 1..n /\ milestone'[m].dep = ids[i - 1] /\ milestone'[m].seq = size + i
        BY <1>6, <2>2, <3>2
      <4>2. ids[i - 1] \in new /\ milestone'[ids[i - 1]].seq = size + (i - 1)
        BY <1>6, <1>12, <4>1
      <4>3. size + (i - 1) < size + i
        BY <1>2
      <4>4. QED
        BY <4>1, <4>2, <4>3
    <3>3. QED
      BY <3>1, <3>2
  <2>3. QED
    BY <1>12, <2>1, <2>2
<1>16. ASSUME NEW m \in new, NEW x \in new, milestone'[m].origin = milestone'[x].origin,
              milestone'[m].origin # None
       PROVE  m = x
  <2>1. CASE m \in old /\ x \in old
    BY <1>1, <1>11, <1>16, <2>1 DEF Chain
  <2>2. ASSUME NEW p \in old, NEW i \in 1..n, origins[i] # None
        PROVE milestone'[p].origin # milestone'[ids[i]].origin
    <3>1. milestone[p].origin # origins[i]
      BY <2>2
    <3>2. QED
      BY <1>6, <1>11, <2>2, <3>1
  <2>3. ASSUME NEW i \in 1..n, NEW j \in 1..n, origins[i] = origins[j], origins[i] # None
        PROVE  ids[i] = ids[j]
    BY <2>3
  <2>4. QED
    BY <1>6, <1>12, <1>16, <2>1, <2>2, <2>3
<1>17. Chain(milestone', r)
  BY <1>13, <1>14, <1>15, <1>16 DEF Chain
<1>18. Linked(milestone', roadmap', spawned', r)
  <2>1. ASSUME NEW m \in new PROVE m \in spawned' => milestone'[m].task
    BY <1>1, <1>11, <1>12 DEF Linked
  <2>2. QED
    BY <2>1 DEF Linked
<1>19. QED
  BY <1>17, <1>18

\* Ids of the gate's insert are new: no row, task or operation knows them.
LEMMA NewIds ==
    ASSUME R!ConstantsOK, NEW ids, R!Injection(ids, R!Free) # {}
    PROVE  /\ R!New(ids) \in [ids -> Four]
           /\ \A i, j \in ids : R!New(ids)[i] = R!New(ids)[j] => i = j
           /\ \A i \in ids : milestone[R!New(ids)[i]] = None /\ R!New(ids)[i] \notin spawned
           /\ \A e \in Editors : \A m \in Touches(planning[e]) : \A i \in ids : R!New(ids)[i] # m
<1>1. R!New(ids) \in R!Injection(ids, R!Free)
  BY Zenon DEF R!New
<1>2. /\ R!New(ids) \in [ids -> R!Free]
      /\ \A i, j \in ids : R!New(ids)[i] = R!New(ids)[j] => i = j
  BY <1>1 DEF R!Injection, R!IsInjective
<1>3. \A m \in R!Free : m \in Four /\ milestone[m] = None /\ m \notin spawned
  BY DEF R!Free, R!Rows
<1>4. ASSUME NEW e \in Editors, NEW m \in Touches(planning[e]) PROVE m \notin R!Free
  <2> DEFINE o == planning[e]
  <2>1. m \in R!Refs(o)
    <3>1. CASE o.kind = "remove"
      BY <1>4, <3>1 DEF Touches, R!Refs
    <3>2. CASE o.kind = "depend"
      BY <1>4, <3>2 DEF Touches, R!Refs
    <3>3. CASE o.kind = "finalize"
      BY <1>4, <3>3 DEF Touches, R!Refs
    <3>4. QED
      BY <1>4, <3>1, <3>2, <3>3 DEF Touches
  <2>2. m \in UNION {R!Refs(planning[d]) : d \in Editors}
    BY <2>1
  <2>3. QED
    BY <2>2 DEF R!Free
<1> HIDE DEF R!New
<1>5. QED
  BY <1>2, <1>3, <1>4

\* An operation in flight is about a roadmap that exists.
LEMMA PlanExists ==
    ASSUME RoadmapsInv, NEW e \in Editors, planning[e] # R!Idle,
           NEW r, roadmap[r] = "absent"
    PROVE  planning[e].roadmap # r
  BY DEF RoadmapsInv

LEMMA CreatePreserves ==
    ASSUME R!ConstantsOK, RoadmapsInv, NEW r \in Two, NEW n \in 1..MaxSeeds,
           NEW origins \in [1..n -> One \cup {None}],
           R!Create(r, origins)
    PROVE  RoadmapsKept
<1> DEFINE ids == R!New(1..n)
<1>1. DOMAIN origins = 1..n /\ n \in Nat /\ roadmap[r] = "absent" /\ r \notin crossed
  BY RoadmapBasics DEF R!Create, RoadmapsInv
<1>2. /\ ids \in [1..n -> Four]
      /\ \A i, j \in 1..n : ids[i] = ids[j] => i = j
      /\ \A i \in 1..n : milestone[ids[i]] = None /\ ids[i] \notin spawned
      /\ \A e \in Editors : \A m \in Touches(planning[e]) : \A i \in 1..n : ids[i] # m
  BY <1>1, NewIds DEF R!Create
<1>3. /\ Steps(milestone, r) = {} /\ Chain(milestone, r)
      /\ Linked(milestone, roadmap, spawned, r)
  BY <1>1 DEF RoadmapsInv, Linked
<1>4. Cardinality(Steps(milestone, r)) = 0
  BY <1>3, FS_EmptySet
<1>5. milestone' = R!Chained(r, ids, origins, None, 0)
  BY <1>1 DEF R!Create
<1> HIDE DEF ids
<1>6. Grows(r, n, ids, origins, None, 0)
  BY <1>1, <1>2, <1>5 DEF Grows
<1>7. Continues(r, n, origins, None, 0)
  BY <1>1, <1>3, <1>4 DEF Continues, R!Create
<1>8. /\ roadmap' \in [Two -> {"absent", "draft", "finalized"}] /\ roadmap'[r] = "draft"
      /\ \A q \in Two \ {r} : roadmap'[q] = roadmap[q]
      /\ spawned' = spawned /\ planning' = planning /\ crossed' = crossed
  BY DEF R!Create, RoadmapsInv, R!TypeOK
<1>9. /\ milestone' \in [Four -> R!Row \cup {None}]
      /\ OnlyAt(milestone, milestone', r)
      /\ \A m \in Four : (\A i \in 1..n : ids[i] # m) => milestone'[m] = milestone[m]
  BY <1>6, RowsGrow
<1>10. Chain(milestone', r) /\ Linked(milestone', roadmap', spawned', r)
  BY <1>3, <1>6, <1>7, <1>8, ChainGrows
<1>11. R!TypeOK'
  BY <1>8, <1>9 DEF RoadmapsInv, R!TypeOK
<1>12. ASSUME NEW e \in Editors, NEW m \in Touches(planning[e]), milestone[m] = None
       PROVE  milestone'[m] = None
  BY <1>2, <1>9, <1>12 DEF Touches
<1>13. QED
  BY <1>1, <1>8, <1>9, <1>10, <1>11, <1>12, PlanExists, RoadmapWrite

\* When an operation ends, the others in flight are about other roadmaps.
LEMMA PlanEnds ==
    ASSUME RoadmapsInv, NEW e \in Editors, planning[e] # R!Idle, R!End(e)
    PROVE  /\ planning' \in [Editors -> R!Op] /\ crossed' = crossed
           /\ \A d \in Editors : planning'[d] # R!Idle =>
                 /\ planning'[d] = planning[d]
                 /\ \/ planning[e].roadmap \in crossed'
                    \/ planning[d].roadmap # planning[e].roadmap
<1>1. /\ planning \in [Editors -> R!Op] /\ R!Idle \in R!Op /\ crossed' = crossed
      /\ planning' = [planning EXCEPT ![e] = R!Idle]
  BY DEF R!End, RoadmapsInv, R!TypeOK, R!Op
<1>2. /\ planning' \in [Editors -> R!Op] /\ planning'[e] = R!Idle
      /\ \A d \in Editors \ {e} : planning'[d] = planning[d]
  BY <1>1
<1>3. QED
  BY <1>1, <1>2 DEF RoadmapsInv, Lone

LEMMA AppendPreserves ==
    ASSUME R!ConstantsOK, RoadmapsInv, NEW e \in Editors, R!WriteAppend(e)
    PROVE  RoadmapsKept
<1> DEFINE o == planning[e]
           r == o.roadmap
<1>1. /\ o.kind = "append" /\ o # R!Idle
      /\ r \in Two /\ o.fresh \subseteq One
      /\ o.last \in Four \cup {None} /\ o.tail \in Nat
  BY RoadmapBasics, PlanFields DEF R!WriteAppend, RoadmapsInv
<1>2. r \notin crossed => AppendExact(milestone, o) /\ roadmap[r] = "draft"
  BY <1>1 DEF RoadmapsInv, Exact
<1>3. PICK origins \in R!Seeds(o.fresh) :
         /\ R!Injection(DOMAIN origins, R!Free) # {}
         /\ milestone' = R!Chained(r, R!New(DOMAIN origins), origins, o.last, o.tail)
  BY DEF R!WriteAppend
<1>4. \E n \in Nat :
         /\ origins \in [1..n -> One \cup {None}]
         /\ \A i, j \in 1..n : origins[i] = origins[j] /\ origins[i] # None => i = j
         /\ \A i \in 1..n : origins[i] # None => origins[i] \in o.fresh
  <2>1. CASE o.fresh = {}
    <3>1. origins = [i \in {1} |-> None] /\ 1..1 = {1}
      BY <2>1 DEF R!Seeds
    <3>2. /\ origins \in [1..1 -> One \cup {None}]
          /\ \A i \in 1..1 : origins[i] = None
      BY <3>1
    <3>3. QED
      BY <3>2
  <2>2. CASE o.fresh # {}
    <3> DEFINE n == R!Cardinality(o.fresh)
    <3>1. origins \in R!Bijection(1..n, o.fresh)
      BY <2>2 DEF R!Seeds
    <3>2. /\ origins \in [1..n -> o.fresh]
          /\ \A i, j \in 1..n : origins[i] = origins[j] => i = j
      BY <3>1 DEF R!Bijection, R!Injection, R!IsInjective
    <3>3. n \in Nat
      BY <1>1, RoadmapBasics
    <3> HIDE DEF n
    <3>4. QED
      BY <1>1, <3>2, <3>3
  <2>3. QED
    BY <2>1, <2>2
<1>5. PICK n \in Nat :
         /\ origins \in [1..n -> One \cup {None}]
         /\ \A i, j \in 1..n : origins[i] = origins[j] /\ origins[i] # None => i = j
         /\ \A i \in 1..n : origins[i] # None => origins[i] \in o.fresh
  BY <1>4
<1> DEFINE ids == R!New(1..n)
<1>6. DOMAIN origins = 1..n
  BY <1>5
<1>7. /\ ids \in [1..n -> Four]
      /\ \A i, j \in 1..n : ids[i] = ids[j] => i = j
      /\ \A i \in 1..n : milestone[ids[i]] = None /\ ids[i] \notin spawned
      /\ \A d \in Editors : \A m \in Touches(planning[d]) : \A i \in 1..n : ids[i] # m
  BY <1>3, <1>6, NewIds
<1>8. milestone' = R!Chained(r, ids, origins, o.last, o.tail)
  BY <1>3, <1>6
<1>9. /\ roadmap' = roadmap /\ spawned' = spawned
      /\ planning' \in [Editors -> R!Op] /\ crossed' = crossed
      /\ \A d \in Editors : planning'[d] # R!Idle =>
            planning'[d] = planning[d] /\ (r \in crossed' \/ planning[d].roadmap # r)
  BY <1>1, PlanEnds DEF R!WriteAppend
<1> HIDE DEF ids
<1>10. Grows(r, n, ids, origins, o.last, o.tail)
  BY <1>1, <1>5, <1>7, <1>8 DEF Grows
<1>11. r \notin crossed => Continues(r, n, origins, o.last, o.tail)
  BY <1>2, <1>5 DEF AppendExact, Continues
<1> HIDE DEF o, r
<1>12. /\ milestone' \in [Four -> R!Row \cup {None}]
       /\ OnlyAt(milestone, milestone', r)
       /\ \A m \in Four : (\A i \in 1..n : ids[i] # m) => milestone'[m] = milestone[m]
  BY <1>1, <1>10, RowsGrow
<1>13. ASSUME r \notin crossed'
       PROVE  Chain(milestone', r) /\ Linked(milestone', roadmap', spawned', r)
  <2>1. Chain(milestone, r) /\ Linked(milestone, roadmap, spawned, r)
    BY <1>1, <1>9, <1>13 DEF RoadmapsInv
  <2>2. Continues(r, n, origins, o.last, o.tail) /\ roadmap'[r] = "draft"
    BY <1>2, <1>9, <1>11, <1>13
  <2>3. QED
    BY <1>1, <1>9, <1>10, <2>1, <2>2, ChainGrows
<1>14. R!TypeOK'
  BY <1>9, <1>12 DEF RoadmapsInv, R!TypeOK
<1>15. ASSUME NEW d \in Editors, NEW m \in Touches(planning[d]), milestone[m] = None
       PROVE  milestone'[m] = None
  BY <1>7, <1>12, <1>15 DEF Touches
<1>16. roadmap'[r] # "absent" /\ (r \in crossed \/ roadmap[r] # "finalized")
  BY <1>2, <1>9 DEF RoadmapsInv
<1>17. QED
  BY <1>1, <1>9, <1>12, <1>13, <1>14, <1>15, <1>16, RoadmapWrite

LEMMA DuplicatePreserves ==
    ASSUME R!ConstantsOK, RoadmapsInv, NEW s \in Two, NEW r \in Two, R!Duplicate(s, r)
    PROVE  RoadmapsKept
<1> DEFINE old == Steps(milestone, s)
           copy == R!New(old)
           new == Steps(milestone', r)
<1>1. /\ milestone \in [Four -> R!Row \cup {None}] /\ r # s
      /\ roadmap[r] = "absent" /\ r \notin crossed /\ R!Of(s) = old
  BY StepsAre DEF RoadmapsInv, R!TypeOK, R!Duplicate
<1>2. /\ copy \in [old -> Four]
      /\ \A x, y \in old : copy[x] = copy[y] => x = y
      /\ \A x \in old : milestone[copy[x]] = None /\ copy[x] \notin spawned
      /\ \A e \in Editors : \A m \in Touches(planning[e]) : \A x \in old : copy[x] # m
  <2>1. R!Injection(old, R!Free) # {}
    BY <1>1 DEF R!Duplicate
  <2> HIDE DEF old
  <2>2. QED
    BY <2>1, NewIds, SMTT(30)
<1>3. \A m \in Four : milestone'[m] =
        IF \E x \in old : copy[x] = m
        THEN LET x == CHOOSE y \in old : copy[y] = m
                 d == milestone[x].dep
             IN  [milestone[x] EXCEPT !.roadmap = r, !.task = FALSE,
                     !.dep = IF d \in old THEN copy[d] ELSE None]
        ELSE milestone[m]
  <2>1. R!Of(s) = old
    BY <1>1, SMTT(30)
  <2> HIDE DEF old
  <2>2. QED
    BY <2>1, Zenon DEF R!Duplicate
<1> DEFINE link(x) == IF milestone[x].dep \in old THEN copy[milestone[x].dep] ELSE None
           row(x) == [milestone[x] EXCEPT !.roadmap = r, !.task = FALSE, !.dep = link(x)]
<1>4. /\ \A x \in old : milestone'[copy[x]] = row(x)
      /\ \A m \in Four : (\A x \in old : copy[x] # m) => milestone'[m] = milestone[m]
  <2> HIDE DEF old, copy
  <2>1. ASSUME NEW x \in old PROVE (CHOOSE y \in old : copy[y] = copy[x]) = x
    <3>1. /\ (CHOOSE y \in old : copy[y] = copy[x]) \in old
          /\ copy[CHOOSE y \in old : copy[y] = copy[x]] = copy[x]
      BY Zenon
    <3>2. QED
      BY <1>2, <3>1
  <2>2. ASSUME NEW x \in old PROVE milestone'[copy[x]] = row(x)
    BY <1>2, <1>3, <2>1
  <2>3. QED
    BY <1>3, <2>2
<1>5. \A x \in old : x \in Four /\ milestone[x] \in R!Row /\ milestone[x] # None
  BY <1>1, MilestoneFields
<1>6. \A x \in old : link(x) \in Four \cup {None}
  <2> HIDE DEF old, copy
  <2>1. QED
    BY <1>2
<1>7. \A x \in old : /\ row(x) \in R!Row /\ row(x).roadmap = r
                     /\ row(x).seq = milestone[x].seq /\ row(x).origin = milestone[x].origin
                     /\ row(x).dep = link(x)
  <2> HIDE DEF old, copy, link
  <2>1. QED
    BY <1>5, <1>6 DEF R!Row
<1>8. \A x \in old : /\ milestone'[copy[x]] \in R!Row /\ milestone'[copy[x]] # None
                     /\ milestone'[copy[x]].roadmap = r
                     /\ milestone'[copy[x]].seq = milestone[x].seq
                     /\ milestone'[copy[x]].origin = milestone[x].origin
                     /\ milestone'[copy[x]].dep = link(x)
  <2> HIDE DEF row, link, old, copy
  <2>1. QED
    BY <1>4, <1>7, RoadmapBasics
<1>9. milestone' \in [Four -> R!Row \cup {None}]
  <2>1. milestone' = [m \in Four |-> milestone'[m]]
    BY Zenon DEF R!Duplicate
  <2> HIDE DEF old, copy, row, link
  <2>2. ASSUME NEW m \in Four PROVE milestone'[m] \in R!Row \cup {None}
    <3>1. CASE \E x \in old : copy[x] = m
      BY <1>8, <3>1
    <3>2. CASE \A x \in old : copy[x] # m
      BY <1>1, <1>4, <3>2
    <3>3. QED
      BY <3>1, <3>2
  <2>3. QED
    BY <2>1, <2>2
<1>10. OnlyAt(milestone, milestone', r)
  <2> HIDE DEF old, copy, row, link
  <2>1. QED
    BY <1>2, <1>4, <1>8 DEF OnlyAt
<1>11. /\ \A m \in new : \E x \in old : m = copy[x]
       /\ \A x \in old : copy[x] \in new
  <2> HIDE DEF old, copy, row, link
  <2>1. \A m \in Four : milestone[m] = None \/ milestone[m].roadmap # r
    BY <1>1 DEF RoadmapsInv, Linked, Steps
  <2>2. ASSUME NEW m \in new PROVE \E x \in old : m = copy[x]
    <3>1. m \in Four /\ milestone'[m] # None /\ milestone'[m].roadmap = r
      BY DEF Steps
    <3>2. CASE \A x \in old : copy[x] # m
      BY <1>4, <2>1, <3>1, <3>2
    <3>3. QED
      BY <3>2
  <2>3. ASSUME NEW x \in old PROVE copy[x] \in new
    BY <1>2, <1>8 DEF Steps
  <2>4. QED
    BY <2>2, <2>3
<1>12. Cardinality(new) = Cardinality(old)
  <2> HIDE DEF old, copy, row, link, new
  <2>1. new = {copy[x] : x \in old}
    BY <1>11
  <2>2. IsFiniteSet(old)
    BY <1>1, MilestoneFields, RoadmapBasics DEF old
  <2>3. DOMAIN copy = old
    BY <1>2
  <2>4. Cardinality({copy[x] : x \in old}) = Cardinality(old)
    BY <1>2, <2>2, <2>3, ImageSize
  <2>5. QED
    BY <2>1, <2>4
<1>13. ASSUME s \notin crossed
       PROVE  /\ \A x \in old : milestone[x].seq \in 1..Cardinality(old)
              /\ \A x, y \in old : milestone[x].seq = milestone[y].seq => x = y
              /\ \A x \in old : milestone[x].dep # None =>
                    milestone[x].dep \in old /\ milestone[milestone[x].dep].seq < milestone[x].seq
              /\ \A x, y \in old :
                    milestone[x].origin = milestone[y].origin /\ milestone[x].origin # None => x = y
  BY <1>1, <1>13 DEF RoadmapsInv, Chain
<1>14. ASSUME s \notin crossed PROVE Chain(milestone', r)
  <2>0. /\ \A x \in old : milestone[x].seq \in 1..Cardinality(old)
        /\ \A x, y \in old : milestone[x].seq = milestone[y].seq => x = y
        /\ \A x \in old : milestone[x].dep # None =>
              milestone[x].dep \in old /\ milestone[milestone[x].dep].seq < milestone[x].seq
        /\ \A x, y \in old :
              milestone[x].origin = milestone[y].origin /\ milestone[x].origin # None => x = y
    BY <1>13, <1>14
  <2> HIDE DEF old, copy, row
  <2>1. \A m \in new : milestone'[m].seq \in 1..Cardinality(new)
    <3> HIDE DEF new
    <3>1. QED
      BY <1>8, <1>11, <1>12, <2>0
  <2>2. \A m, x \in new : milestone'[m].seq = milestone'[x].seq => m = x
    <3> HIDE DEF new, link
    <3>1. QED
      BY <1>8, <1>11, <2>0
  <2>3. ASSUME NEW m \in new, milestone'[m].dep # None
        PROVE  milestone'[m].dep \in new /\ milestone'[milestone'[m].dep].seq < milestone'[m].seq
    <3> HIDE DEF new
    <3>1. PICK x \in old : m = copy[x]
      BY <1>11
    <3>2. milestone'[m].dep = link(x) /\ milestone'[m].seq = milestone[x].seq
      BY <1>8, <3>1
    <3>3. milestone[x].dep \in old /\ link(x) = copy[milestone[x].dep]
      BY <2>3, <3>2
    <3>4. milestone[x].dep # None
      BY <1>5, <3>3, RoadmapBasics
    <3>5. milestone[milestone[x].dep].seq < milestone[x].seq
      BY <2>0, <3>4
    <3> HIDE DEF link
    <3>6. milestone'[copy[milestone[x].dep]].seq = milestone[milestone[x].dep].seq
          /\ copy[milestone[x].dep] \in new
      BY <1>8, <1>11, <3>3
    <3>7. QED
      BY <3>2, <3>3, <3>5, <3>6
  <2>4. ASSUME NEW m \in new, NEW x \in new, milestone'[m].origin = milestone'[x].origin,
               milestone'[m].origin # None
        PROVE  m = x
    <3> HIDE DEF new, link
    <3>1. QED
      BY <1>8, <1>11, <2>0, <2>4, SMTT(30)
  <2>5. QED
    BY <2>1, <2>2, <2>3, <2>4 DEF Chain
<1>15. /\ roadmap' \in [Two -> {"absent", "draft", "finalized"}] /\ roadmap'[r] = "draft"
       /\ \A q \in Two \ {r} : roadmap'[q] = roadmap[q]
       /\ spawned' = spawned /\ planning' = planning
       /\ crossed' = IF s \in crossed THEN crossed \cup {r} ELSE crossed
  BY <1>1 DEF R!Duplicate, RoadmapsInv, R!TypeOK
<1>16. Linked(milestone', roadmap', spawned', r)
  <2> HIDE DEF old, copy, row, link
  <2>1. \A m \in new : m \notin spawned'
    BY <1>2, <1>11, <1>15
  <2>2. QED
    BY <1>15, <2>1 DEF Linked
<1>17. R!TypeOK'
  BY <1>9, <1>15 DEF RoadmapsInv, R!TypeOK
<1>18. ASSUME NEW e \in Editors, NEW m \in Touches(planning[e]), milestone[m] = None
       PROVE  milestone'[m] = None
  <2> HIDE DEF old, copy, row, link
  <2>1. QED
    BY <1>2, <1>4, <1>18 DEF Touches
<1>19. /\ crossed \subseteq crossed' /\ crossed' \subseteq crossed \cup {r}
       /\ r \notin crossed' => s \notin crossed
  BY <1>15
<1>20. QED
  BY <1>1, <1>10, <1>14, <1>15, <1>16, <1>17, <1>18, <1>19, PlanExists, RoadmapWrite

LEMMA ReopenPreserves ==
    ASSUME R!ConstantsOK, RoadmapsInv, NEW r \in Two, R!Reopen(r)
    PROVE  RoadmapsKept
<1>1. /\ roadmap[r] = "finalized" /\ milestone' = milestone /\ spawned' = spawned
      /\ planning' = planning /\ crossed' = crossed
      /\ roadmap' \in [Two -> {"absent", "draft", "finalized"}]
      /\ \A q \in Two : roadmap'[q] = IF q = r THEN "draft" ELSE roadmap[q]
  BY DEF R!Reopen, RoadmapsInv, R!TypeOK
<1>2. r \notin crossed => Chain(milestone', r) /\ Linked(milestone', roadmap', spawned', r)
  BY <1>1 DEF RoadmapsInv, Linked
<1>3. OnlyAt(milestone, milestone', r)
  BY <1>1 DEF OnlyAt
<1>4. R!TypeOK'
  BY <1>1 DEF RoadmapsInv, R!TypeOK
\* Nothing is in flight on a finalized roadmap unless it is crossed.
<1>5. \A e \in Editors : planning'[e] # R!Idle =>
         planning'[e] = planning[e] /\ (r \in crossed' \/ planning[e].roadmap # r)
  BY <1>1 DEF RoadmapsInv
<1>6. /\ roadmap'[r] # "absent" /\ \A q \in Two \ {r} : roadmap'[q] = roadmap[q]
      /\ \A e \in Editors : planning'[e] # R!Idle =>
            \A m \in Touches(planning[e]) : milestone[m] = None => milestone'[m] = None
  BY <1>1
<1>7. QED
  BY <1>1, <1>2, <1>3, <1>4, <1>5, <1>6, RoadmapWrite

\* An operation begins on a draft with what it reads.
LEMMA PlanRead ==
    ASSUME R!ConstantsOK, RoadmapsInv, NEW e \in Editors, NEW o \in R!Op, R!Begin(e, o),
           o # R!Idle, o.roadmap \in Two, roadmap[o.roadmap] = "draft", Mine(milestone, o),
           o.roadmap \notin crossed => Exact(milestone, o)
    PROVE  RoadmapsKept
<1>1. /\ roadmap' = roadmap /\ milestone' = milestone /\ spawned' = spawned
      /\ planning' \in [Editors -> R!Op] /\ planning[e] = R!Idle
      /\ \A d \in Editors : planning'[d] = IF d = e THEN o ELSE planning[d]
      /\ crossed \subseteq crossed' /\ crossed' \subseteq crossed \cup {o.roadmap}
      /\ o.roadmap \notin crossed' =>
            \A d \in Editors : planning[d] # R!Idle => planning[d].roadmap # o.roadmap
  BY DEF R!Begin, RoadmapsInv, R!TypeOK
<1>2. R!TypeOK'
  BY <1>1 DEF RoadmapsInv, R!TypeOK
<1>3. \A q \in Two : R!Frozen(q)
  BY <1>1, SameFrozen
<1>4. Lone(planning', crossed')
  BY <1>1 DEF RoadmapsInv, Lone
<1>5. \A q \in crossed' : roadmap'[q] # "absent"
  BY <1>1 DEF RoadmapsInv
<1>6. ASSUME NEW d \in Editors, planning'[d] # R!Idle
      PROVE  /\ Mine(milestone', planning'[d])
             /\ planning'[d].roadmap \notin crossed' =>
                   /\ Exact(milestone', planning'[d])
                   /\ roadmap'[planning'[d].roadmap] = "draft"
  BY <1>1, <1>6 DEF RoadmapsInv
<1>7. \A q \in Two \ crossed' : Chain(milestone', q) /\ Linked(milestone', roadmap', spawned', q)
  BY <1>1 DEF RoadmapsInv
<1>8. QED
  BY <1>2, <1>3, <1>4, <1>5, <1>6, <1>7 DEF RoadmapsInv, RoadmapsKept

\* Among some milestones a later one has a greater rank.
LEMMA RanksRise ==
    ASSUME R!ConstantsOK, milestone \in [Four -> R!Row \cup {None}],
           NEW some \in SUBSET Four, \A x \in some : milestone[x] # None
    PROVE  /\ IsFiniteSet(some) /\ Cardinality(some) \in Nat
           /\ \A x \in some : R!Rank(x, some) \in 1..Cardinality(some)
           /\ \A x, y \in some : milestone[x].seq < milestone[y].seq =>
                 R!Rank(x, some) < R!Rank(y, some)
<1> DEFINE upto(x) == {y \in some : milestone[y].seq <= milestone[x].seq}
<1>1. IsFiniteSet(some) /\ Cardinality(some) \in Nat
  BY RoadmapBasics
<1>2. \A x \in some : milestone[x].seq \in Nat
  BY MilestoneFields
<1>3. ASSUME NEW x \in some PROVE R!Rank(x, some) = Cardinality(upto(x))
  <2>1. upto(x) \in SUBSET Four
    OBVIOUS
  <2>2. R!Rank(x, some) = R!Cardinality(upto(x))
    BY DEF R!Rank
  <2> HIDE DEF upto
  <2>3. QED
    BY <2>1, <2>2, RoadmapBasics
<1>4. ASSUME NEW x \in some PROVE Cardinality(upto(x)) \in 1..Cardinality(some)
  <2>1. upto(x) \in SUBSET some /\ x \in upto(x)
    BY <1>2
  <2> HIDE DEF upto
  <2>2. IsFiniteSet(upto(x)) /\ Cardinality(upto(x)) <= Cardinality(some)
    BY <1>1, <2>1, FS_Subset
  <2>3. Cardinality(upto(x)) \in Nat /\ Cardinality(upto(x)) # 0
    BY <2>1, <2>2, FS_CardinalityType, FS_EmptySet
  <2>4. QED
    BY <1>1, <2>2, <2>3
<1>5. ASSUME NEW x \in some, NEW y \in some, milestone[x].seq < milestone[y].seq
      PROVE  Cardinality(upto(x)) < Cardinality(upto(y))
  <2>1. upto(x) \in SUBSET upto(y) /\ y \in upto(y) /\ y \notin upto(x)
        /\ upto(y) \in SUBSET some /\ upto(x) \in SUBSET some
    BY <1>2, <1>5
  <2> HIDE DEF upto
  <2>2. IsFiniteSet(upto(y)) /\ IsFiniteSet(upto(x))
    BY <1>1, <2>1, FS_Subset
  <2>3. Cardinality(upto(x)) <= Cardinality(upto(y)) /\ Cardinality(upto(x)) # Cardinality(upto(y))
    BY <2>1, <2>2, FS_Subset
  <2>4. Cardinality(upto(x)) \in Nat /\ Cardinality(upto(y)) \in Nat
    BY <2>2, FS_CardinalityType
  <2>5. QED
    BY <2>3, <2>4
<1> HIDE DEF upto
<1>6. QED
  BY <1>1, <1>3, <1>4, <1>5

\* A roadmap with milestones has a last one.
LEMMA LastComes ==
    ASSUME R!ConstantsOK, milestone \in [Four -> R!Row \cup {None}], NEW r
    PROVE  /\ Steps(milestone, r) = {} => R!Last(r) = None /\ R!Tail(r) = 0
           /\ Steps(milestone, r) # {} =>
                 /\ R!Last(r) \in Steps(milestone, r) /\ R!Tail(r) = milestone[R!Last(r)].seq
                 /\ R!Tail(r) \in Nat
                 /\ \A x \in Steps(milestone, r) : milestone[x].seq <= R!Tail(r)
<1> DEFINE old == Steps(milestone, r)
<1>1. /\ R!Of(r) = old /\ old \in SUBSET Four
      /\ \A x \in old : milestone[x] # None /\ milestone[x].seq \in Nat
  BY StepsAre, MilestoneFields
<1>2. CASE old = {}
  BY <1>1, <1>2 DEF R!Last, R!Tail
<1>3. CASE old # {}
  <2> DEFINE ranks == {R!Rank(x, old) : x \in old}
             size == Cardinality(old)
  <2> HIDE DEF old
  <2>1. /\ size \in Nat /\ \A x \in old : R!Rank(x, old) \in 1..size
        /\ \A x, y \in old : milestone[x].seq < milestone[y].seq => R!Rank(x, old) < R!Rank(y, old)
    BY <1>1, RanksRise
  <2>2. ranks \in SUBSET (0..size) /\ ranks # {}
    BY <1>3, <2>1
  <2>3. PICK k \in ranks : \A n \in ranks : n <= k
    <3> HIDE DEF ranks, size
    <3>1. QED
      BY <2>1, <2>2, GreatestNat
  <2>4. PICK m \in old : k = R!Rank(m, old)
    OBVIOUS
  <2>5. \A x \in old : R!Rank(x, old) <= R!Rank(m, old)
    BY <2>3, <2>4
  <2>6. \A x \in old : milestone[x].seq <= milestone[m].seq
    <3>1. ASSUME NEW x \in old PROVE ~(milestone[m].seq < milestone[x].seq)
      <4>1. R!Rank(x, old) \in Int /\ R!Rank(m, old) \in Int /\ R!Rank(x, old) <= R!Rank(m, old)
        BY <2>1, <2>5
      <4>2. QED
        BY <2>1, <4>1
    <3>2. QED
      BY <1>1, <3>1
  <2>7. m \in R!Tails(r)
    BY <1>1, <2>6 DEF R!Tails
  <2>8. R!Last(r) = CHOOSE x \in R!Tails(r) : TRUE
    BY <1>1, <1>3 DEF R!Last
  <2>9. R!Last(r) \in R!Tails(r)
    BY <2>7, <2>8, Zenon
  <2>10. R!Tail(r) = milestone[R!Last(r)].seq
    BY <1>1, <1>3 DEF R!Tail
  <2>11. QED
    BY <1>1, <1>3, <2>9, <2>10 DEF R!Tails, old
<1>4. QED
  BY <1>2, <1>3

LEMMA ReadAppendPreserves ==
    ASSUME R!ConstantsOK, RoadmapsInv, NEW e \in Editors, NEW r \in Two,
           NEW some \in SUBSET One, R!ReadAppend(e, r, some)
    PROVE  RoadmapsKept
<1> DEFINE old == Steps(milestone, r)
           size == Cardinality(old)
<1>1. milestone \in [Four -> R!Row \cup {None}] /\ R!Of(r) = old
  BY StepsAre DEF RoadmapsInv, R!TypeOK
<1>2. old \subseteq Four /\ IsFiniteSet(old) /\ size \in Nat
  BY <1>1, MilestoneFields, RoadmapBasics
<1>3. R!Last(r) \in Four \cup {None} /\ R!Tail(r) \in Nat
      /\ (R!Last(r) = None \/ R!Last(r) \in old)
  BY <1>1, <1>2, LastComes
\* The last of a chain has its length as its number.
<1>4. ASSUME r \notin crossed PROVE R!Tail(r) = size
  <2>0. /\ \A m \in old : milestone[m].seq \in 1..size
        /\ \A m, x \in old : milestone[m].seq = milestone[x].seq => m = x
    BY <1>4 DEF RoadmapsInv, Chain
  <2>1. CASE old = {}
    BY <1>1, <2>1, LastComes, FS_EmptySet
  <2>2. CASE old # {}
    <3> DEFINE f == [m \in old |-> milestone[m].seq]
    <3>1. f \in Injection(old, 1..size)
      BY <2>0 DEF Injection, IsInjective
    <3> HIDE DEF f
    <3>2. IsFiniteSet(1..size) /\ Cardinality(1..size) = size
      BY <1>2, FS_Interval
    <3>3. f \in Surjection(old, 1..size)
      BY <3>1, <3>2, FS_Injection
    <3>4. size # 0
      BY <1>2, <2>2, FS_EmptySet
    <3>5. size \in 1..size
      BY <1>2, <3>4
    <3>6. PICK m \in old : f[m] = size
      BY <3>3, <3>5 DEF Surjection
    <3>7. milestone[m].seq = size
      BY <3>6 DEF f
    <3>8. /\ R!Last(r) \in old /\ R!Tail(r) = milestone[R!Last(r)].seq
          /\ milestone[m].seq <= R!Tail(r)
      BY <1>1, <2>2, LastComes
    <3>9. R!Tail(r) \in 1..size
      BY <2>0, <3>8
    <3> HIDE DEF size, old
    <3>10. QED
      BY <1>2, <3>7, <3>8, <3>9
  <2>3. QED
    BY <2>1, <2>2
<1> DEFINE fresh == some \ R!Present(r)
           o == [kind |-> "append", roadmap |-> r, last |-> R!Last(r),
                 tail |-> R!Tail(r), fresh |-> fresh]
<1>5. \A m \in old : milestone[m].origin \notin fresh
  BY <1>1 DEF R!Present
<1>6. fresh \subseteq One
  OBVIOUS
<1>7. R!Begin(e, o) /\ roadmap[r] = "draft"
  BY DEF R!ReadAppend
<1> HIDE DEF fresh
<1>8. /\ o \in R!Op /\ o.kind = "append" /\ o.roadmap = r /\ o.last = R!Last(r)
      /\ o.tail = R!Tail(r) /\ o.fresh = fresh
  BY <1>3, <1>6 DEF R!Op
<1> HIDE DEF o
<1>9. r \notin crossed => Exact(milestone, o)
  BY <1>3, <1>4, <1>5, <1>8 DEF Exact, AppendExact
<1>10. Mine(milestone, o) /\ o # R!Idle
  BY <1>8, RoadmapBasics DEF Mine, Touches
<1>11. QED
  BY <1>7, <1>8, <1>9, <1>10, PlanRead

LEMMA ReadReorderPreserves ==
    ASSUME R!ConstantsOK, RoadmapsInv, NEW e \in Editors, NEW r \in Two,
           NEW order \in R!Bijection(R!Of(r), 1..R!Cardinality(R!Of(r))),
           R!ReadReorder(e, r, order)
    PROVE  RoadmapsKept
<1> DEFINE old == Steps(milestone, r)
           size == Cardinality(old)
<1>1. milestone \in [Four -> R!Row \cup {None}] /\ R!Of(r) = old
  BY StepsAre DEF RoadmapsInv, R!TypeOK
<1>2. old \subseteq Four /\ size \in Nat /\ R!Cardinality(old) = size
  BY <1>1, MilestoneFields, RoadmapBasics
<1>3. /\ order \in [old -> 1..size]
      /\ \A m, x \in old : order[m] = order[x] => m = x
  BY <1>1, <1>2 DEF R!Bijection, R!Injection, R!IsInjective
<1> DEFINE place == [m \in Four |-> IF m \in old THEN order[m] ELSE 0]
           o == [kind |-> "reorder", roadmap |-> r, place |-> place]
<1>4. R!Begin(e, o) /\ roadmap[r] = "draft"
  BY <1>1 DEF R!ReadReorder
<1>5. /\ place \in [Four -> Nat] /\ \A m \in old : place[m] = order[m]
  <2> HIDE DEF old, size
  <2>1. QED
    BY <1>2, <1>3
<1> HIDE DEF place
<1>6. o \in R!Op /\ o.kind = "reorder" /\ o.roadmap = r /\ o.place = place
  BY <1>5 DEF R!Op, R!Places
<1> HIDE DEF o
<1>7. ReorderExact(milestone, o)
  BY <1>3, <1>5, <1>6 DEF ReorderExact
<1>8. Exact(milestone, o)
  BY <1>6, <1>7 DEF Exact
<1>9. Mine(milestone, o) /\ o # R!Idle
  BY <1>6, RoadmapBasics DEF Mine, Touches
<1>10. QED
  BY <1>4, <1>6, <1>8, <1>9, PlanRead

LEMMA ReadRemovePreserves ==
    ASSUME R!ConstantsOK, RoadmapsInv, NEW e \in Editors, NEW m \in Four,
           R!ReadRemove(e, m)
    PROVE  RoadmapsKept
<1> DEFINE r == milestone[m].roadmap
           old == Steps(milestone, r)
           rest == old \ {m}
<1>1. /\ milestone \in [Four -> R!Row \cup {None}] /\ m \in old /\ r \in Two /\ m \in Four
      /\ R!Of(r) = old /\ milestone[m].dep \in Four \cup {None}
  <2>1. milestone \in [Four -> R!Row \cup {None}] /\ milestone[m] # None
    BY DEF RoadmapsInv, R!TypeOK, R!ReadRemove, R!Rows
  <2>2. QED
    BY <2>1, StepsAre, MilestoneFields DEF Steps
<1>2. /\ old \subseteq Four /\ IsFiniteSet(old) /\ Cardinality(old) \in Nat
      /\ \A x \in old : milestone[x] # None
  BY <1>1, MilestoneFields, RoadmapBasics
<1>3. rest \in SUBSET Four /\ Cardinality(rest) = Cardinality(old) - 1
  <2> HIDE DEF old
  <2>1. QED
    BY <1>1, <1>2, FS_RemoveElement
<1> DEFINE place == [x \in Four |-> IF x \in rest THEN R!Rank(x, rest) ELSE 0]
           dependents == {x \in rest : milestone[x].dep = m}
           o == [kind |-> "remove", roadmap |-> r, target |-> m,
                 heir |-> milestone[m].dep, dependents |-> dependents, place |-> place]
<1>4. R!Begin(e, o) /\ roadmap[r] = "draft"
  BY <1>1 DEF R!ReadRemove
<1>5. /\ Cardinality(rest) \in Nat
      /\ \A x \in rest : R!Rank(x, rest) \in 1..Cardinality(rest)
      /\ \A x, y \in rest : milestone[x].seq < milestone[y].seq =>
            R!Rank(x, rest) < R!Rank(y, rest)
  <2>1. \A x \in rest : milestone[x] # None
    BY <1>2
  <2> HIDE DEF rest
  <2>2. QED
    BY <1>1, <1>3, <2>1, RanksRise
<1>6. /\ \A x \in rest : place[x] = R!Rank(x, rest)
      /\ place \in [Four -> Nat]
  <2> HIDE DEF rest
  <2>1. QED
    BY <1>3, <1>5
<1>7. dependents \subseteq Four
  BY <1>3
<1> HIDE DEF place
<1>8. /\ o \in R!Op /\ o.kind = "remove" /\ o.roadmap = r /\ o.target = m
      /\ o.heir = milestone[m].dep /\ o.dependents = dependents /\ o.place = place
  <2> HIDE DEF dependents, r
  <2>1. QED
    BY <1>1, <1>6, <1>7 DEF R!Op, R!Places
<1>9. RemoveExact(milestone, o)
  <2>1. /\ o.target = m /\ o.roadmap = r /\ o.heir = milestone[m].dep
        /\ o.dependents = dependents /\ o.place = place
    BY <1>8
  <2>2. /\ \A x \in rest : place[x] \in 1..(Cardinality(old) - 1)
        /\ \A x, y \in rest : milestone[x].seq < milestone[y].seq => place[x] < place[y]
    <3> HIDE DEF rest, old
    <3>1. QED
      BY <1>3, <1>5, <1>6
  <2> HIDE DEF o
  <2>3. QED
    BY <1>1, <2>1, <2>2 DEF RemoveExact
<1>10. Exact(milestone, o)
  <2> HIDE DEF o
  <2>1. QED
    BY <1>8, <1>9 DEF Exact
<1>11. Mine(milestone, o) /\ o # R!Idle
  <2> HIDE DEF o
  <2>1. QED
    BY <1>8, RoadmapBasics DEF Mine, Touches
<1> HIDE DEF o, r
<1>12. QED
  BY <1>1, <1>4, <1>8, <1>10, <1>11, PlanRead

LEMMA ReadDependPreserves ==
    ASSUME R!ConstantsOK, RoadmapsInv, NEW e \in Editors, NEW m \in Four,
           NEW p \in Four \cup {None}, R!ReadDepend(e, m, p)
    PROVE  RoadmapsKept
<1> DEFINE r == milestone[m].roadmap
           o == [kind |-> "depend", roadmap |-> r, target |-> m, pred |-> p]
<1>1. /\ milestone[m] # None /\ roadmap[r] = "draft" /\ R!Begin(e, o)
      /\ p # None => p \in Steps(milestone, r) /\ milestone[p].seq < milestone[m].seq
  BY StepsAre DEF R!ReadDepend, R!Rows
<1>2. r \in Two /\ m \in Steps(milestone, r)
  BY <1>1, MilestoneFields DEF RoadmapsInv, R!TypeOK, Steps
<1>3. o \in R!Op /\ o.kind = "depend" /\ o.roadmap = r /\ o.target = m /\ o.pred = p
  <2> HIDE DEF r
  <2>1. QED
    BY <1>2 DEF R!Op
<1> HIDE DEF o
<1>4. Exact(milestone, o)
  BY <1>1, <1>2, <1>3 DEF Exact, DependExact
<1>5. Mine(milestone, o) /\ o # R!Idle
  BY <1>3, RoadmapBasics DEF Mine, Touches
<1> HIDE DEF r
<1>6. QED
  BY <1>1, <1>2, <1>3, <1>4, <1>5, PlanRead

LEMMA ReadFinalizePreserves ==
    ASSUME R!ConstantsOK, RoadmapsInv, NEW e \in Editors, NEW r \in Two,
           R!ReadFinalize(e, r)
    PROVE  RoadmapsKept
<1> DEFINE listed == R!Of(r)
           o == [kind |-> "finalize", roadmap |-> r, listed |-> listed]
<1>1. listed = Steps(milestone, r) /\ listed \subseteq Four
  BY StepsAre DEF Steps
<1>2. R!Begin(e, o) /\ roadmap[r] = "draft"
  BY DEF R!ReadFinalize
<1> HIDE DEF listed
<1>3. o \in R!Op /\ o.kind = "finalize" /\ o.roadmap = r /\ o.listed = listed
  BY <1>1 DEF R!Op
<1> HIDE DEF o
<1>4. Exact(milestone, o)
  BY <1>1, <1>3 DEF Exact, FinalizeExact
<1>5. Mine(milestone, o) /\ o # R!Idle
  BY <1>1, <1>3, RoadmapBasics DEF Mine, Touches, Steps
<1>6. QED
  BY <1>2, <1>3, <1>4, <1>5, PlanRead

LEMMA PlanFailPreserves ==
    ASSUME R!ConstantsOK, RoadmapsInv, NEW e \in Editors, R!Fail(e)
    PROVE  RoadmapsKept
<1> DEFINE r == planning[e].roadmap
<1>1. /\ roadmap' = roadmap /\ milestone' = milestone /\ spawned' = spawned /\ r \in Two
      /\ planning' \in [Editors -> R!Op] /\ crossed' = crossed
      /\ \A d \in Editors : planning'[d] # R!Idle => planning'[d] = planning[d]
  BY PlanEnds, PlanFields DEF R!Fail, RoadmapsInv
<1>2. \A q \in Two : R!Frozen(q)
  BY <1>1, SameFrozen
<1>3. R!TypeOK'
  BY <1>1 DEF RoadmapsInv, R!TypeOK
<1>4. Lone(planning', crossed')
  BY <1>1 DEF RoadmapsInv, Lone
<1>5. ASSUME NEW d \in Editors, planning'[d] # R!Idle
      PROVE  /\ Mine(milestone', planning'[d])
             /\ planning'[d].roadmap \notin crossed' =>
                   /\ Exact(milestone', planning'[d])
                   /\ roadmap'[planning'[d].roadmap] = "draft"
  BY <1>1, <1>5 DEF RoadmapsInv
<1>6. QED
  BY <1>1, <1>2, <1>3, <1>4, <1>5 DEF RoadmapsInv, RoadmapsKept

LEMMA FinalizePreserves ==
    ASSUME R!ConstantsOK, RoadmapsInv, NEW e \in Editors, R!WriteFinalize(e)
    PROVE  RoadmapsKept
<1> DEFINE o == planning[e]
           r == o.roadmap
           done == R!Rows \cap (o.listed \ spawned)
<1>1. /\ o.kind = "finalize" /\ o # R!Idle /\ r \in Two /\ o.listed \subseteq Four
      /\ Mine(milestone, o)
  BY RoadmapBasics, PlanFields DEF R!WriteFinalize, RoadmapsInv
<1>2. r \notin crossed => o.listed = Steps(milestone, r) /\ roadmap[r] = "draft"
  BY <1>1 DEF RoadmapsInv, Exact, FinalizeExact
<1>3. milestone \in [Four -> R!Row \cup {None}]
  BY DEF RoadmapsInv, R!TypeOK
<1>4. \A m \in Four : milestone'[m] =
         IF m \in done THEN [milestone[m] EXCEPT !.task = TRUE] ELSE milestone[m]
  BY DEF R!WriteFinalize
<1>5. milestone' = [m \in Four |-> milestone'[m]]
  BY Zenon DEF R!WriteFinalize
<1>6. /\ \A m \in o.listed : m \in Steps(milestone, r) \/ milestone[m] = None
      /\ \A m \in done : m \in Steps(milestone, r) /\ m \in o.listed
      /\ \A m \in Steps(milestone, r) : m \in o.listed /\ m \notin spawned => m \in done
  BY <1>1 DEF R!Rows, Steps, Mine, Touches
<1>7. /\ roadmap' \in [Two -> {"absent", "draft", "finalized"}] /\ roadmap'[r] = "finalized"
      /\ \A q \in Two \ {r} : roadmap'[q] = roadmap[q]
      /\ spawned' = spawned \cup o.listed /\ spawned' \subseteq Four
      /\ planning' \in [Editors -> R!Op] /\ crossed' = crossed
      /\ \A d \in Editors : planning'[d] # R!Idle =>
            planning'[d] = planning[d] /\ (r \in crossed' \/ planning[d].roadmap # r)
  BY <1>1, PlanEnds DEF R!WriteFinalize, RoadmapsInv, R!TypeOK
<1> HIDE DEF done, r, o
<1>8. \A m \in Four :
         /\ milestone'[m] = None <=> milestone[m] = None
         /\ milestone[m] # None =>
               /\ milestone'[m] \in R!Row
               /\ milestone'[m].roadmap = milestone[m].roadmap
               /\ milestone'[m].seq = milestone[m].seq
               /\ milestone'[m].dep = milestone[m].dep
               /\ milestone'[m].origin = milestone[m].origin
         /\ m \in done => milestone'[m].task
         /\ m \notin done => milestone'[m] = milestone[m]
  <2>1. ASSUME NEW m \in Four, m \in done
        PROVE  /\ milestone[m] # None /\ milestone'[m] \in R!Row
               /\ milestone'[m].roadmap = milestone[m].roadmap
               /\ milestone'[m].seq = milestone[m].seq
               /\ milestone'[m].dep = milestone[m].dep
               /\ milestone'[m].origin = milestone[m].origin
               /\ milestone'[m].task
    <3>1. milestone[m] # None
      BY <1>6, <2>1 DEF Steps
    <3>2. milestone[m] \in R!Row
      BY <1>3, <3>1
    <3>3. milestone'[m] = [milestone[m] EXCEPT !.task = TRUE]
      BY <1>4, <2>1
    <3>4. QED
      BY <3>1, <3>2, <3>3 DEF R!Row
  <2>2. \A m \in Four : m \notin done => milestone'[m] = milestone[m]
    BY <1>4
  <2>3. \A m \in Four : milestone[m] # None => milestone[m] \in R!Row
    BY <1>3
  <2>4. QED
    BY <2>1, <2>2, <2>3, RoadmapBasics
<1>9. R!TypeOK'
  <2>1. milestone' \in [Four -> R!Row \cup {None}]
    BY <1>5, <1>8
  <2>2. QED
    BY <1>7, <2>1 DEF RoadmapsInv, R!TypeOK
<1>10. Steps(milestone', r) = Steps(milestone, r)
  BY <1>8 DEF Steps
<1>11. OnlyAt(milestone, milestone', r)
  BY <1>6, <1>8 DEF OnlyAt, Steps
<1>12. ASSUME r \notin crossed'
       PROVE  Chain(milestone', r) /\ Linked(milestone', roadmap', spawned', r)
  <2>1. /\ Chain(milestone, r) /\ Linked(milestone, roadmap, spawned, r)
        /\ o.listed = Steps(milestone, r)
    BY <1>1, <1>2, <1>7, <1>12 DEF RoadmapsInv
  <2>2. \A m \in Steps(milestone, r) :
           /\ milestone'[m].seq = milestone[m].seq /\ milestone'[m].dep = milestone[m].dep
           /\ milestone'[m].origin = milestone[m].origin
    BY <1>8 DEF Steps
  <2>3. Chain(milestone', r)
    BY <1>10, <2>1, <2>2 DEF Chain
  <2>4. ASSUME NEW m \in Steps(milestone, r) PROVE milestone'[m].task
    <3>1. CASE m \in done
      BY <1>8, <2>4, <3>1 DEF Steps
    <3>2. CASE m \notin done
      BY <1>6, <1>8, <2>1, <2>4, <3>2 DEF Steps, Linked
    <3>3. QED
      BY <3>1, <3>2
  <2>5. QED
    BY <1>7, <1>10, <2>3, <2>4 DEF Linked
<1>13. ASSUME NEW q \in Two \ {r}, NEW m \in Steps(milestone, q), m \in spawned'
       PROVE  m \in spawned
  <2>1. milestone[m] # None /\ milestone[m].roadmap = q
    BY <1>13 DEF Steps
  <2>2. m \notin o.listed
    BY <1>6, <1>13, <2>1 DEF Steps
  <2>3. QED
    BY <1>7, <1>13, <2>2
<1>14. ASSUME NEW d \in Editors, NEW m \in Touches(planning[d]), milestone[m] = None
       PROVE  milestone'[m] = None
  BY <1>8, <1>14 DEF Touches
<1>15. r \in crossed \/ roadmap[r] # "finalized"
  BY <1>2
<1>16. QED
  BY <1>1, <1>7, <1>9, <1>11, <1>12, <1>13, <1>14, <1>15, RoadmapWrite

\* A write that gives some rows of one roadmap a new place and a new
\* dependency, or deletes them, and leaves the rest of them.
Rewrites(r, seqOf, depOf, gone) ==
    /\ milestone' = [m \in Four |-> milestone'[m]]
    /\ gone \subseteq Steps(milestone, r)
    /\ \A m \in Four :
          IF m \in gone THEN milestone'[m] = None
          ELSE IF m \in Steps(milestone, r)
          THEN milestone'[m] = [milestone[m] EXCEPT !.seq = seqOf[m], !.dep = depOf[m]]
          ELSE milestone'[m] = milestone[m]
    /\ \A m \in Steps(milestone, r) \ gone :
          seqOf[m] \in Nat /\ depOf[m] \in Four \cup {None}

LEMMA RewriteKeeps ==
    ASSUME R!ConstantsOK, RoadmapsInv, NEW r \in Two, NEW seqOf, NEW depOf, NEW gone,
           Rewrites(r, seqOf, depOf, gone), roadmap' = roadmap, spawned' = spawned
    PROVE  /\ milestone' \in [Four -> R!Row \cup {None}]
           /\ OnlyAt(milestone, milestone', r)
           /\ \A m \in Four : milestone[m] = None => milestone'[m] = None
           /\ Linked(milestone, roadmap, spawned, r) => Linked(milestone', roadmap', spawned', r)
           /\ Steps(milestone', r) = Steps(milestone, r) \ gone
           /\ \A m \in Steps(milestone', r) :
                 /\ milestone'[m].seq = seqOf[m] /\ milestone'[m].dep = depOf[m]
                 /\ milestone'[m].origin = milestone[m].origin
<1> DEFINE old == Steps(milestone, r)
<1>1. milestone \in [Four -> R!Row \cup {None}]
  BY DEF RoadmapsInv, R!TypeOK
<1>2. \A m \in old : m \in Four /\ milestone[m] \in R!Row /\ milestone[m].roadmap = r
  BY <1>1, MilestoneFields DEF Steps
<1>3. \A m \in old \ gone :
         /\ milestone'[m] \in R!Row
         /\ milestone'[m].roadmap = r /\ milestone'[m].task = milestone[m].task
         /\ milestone'[m].seq = seqOf[m] /\ milestone'[m].dep = depOf[m]
         /\ milestone'[m].origin = milestone[m].origin
  <2>1. ASSUME NEW m \in old \ gone
        PROVE  /\ milestone'[m] \in R!Row
               /\ milestone'[m].roadmap = r /\ milestone'[m].task = milestone[m].task
               /\ milestone'[m].seq = seqOf[m] /\ milestone'[m].dep = depOf[m]
               /\ milestone'[m].origin = milestone[m].origin
    <3> DEFINE seq == seqOf[m]
               dep == depOf[m]
    <3>1. seq \in Nat /\ dep \in Four \cup {None}
      BY <2>1 DEF Rewrites
    <3>2. milestone'[m] = [milestone[m] EXCEPT !.seq = seq, !.dep = dep]
      BY <1>2, <2>1 DEF Rewrites
    <3>3. milestone[m] \in R!Row /\ milestone[m].roadmap = r
      BY <1>2, <2>1
    <3> HIDE DEF seq, dep, old
    <3>4. /\ milestone'[m] \in R!Row /\ milestone'[m].task = milestone[m].task
          /\ milestone'[m].roadmap = r /\ milestone'[m].origin = milestone[m].origin
          /\ milestone'[m].seq = seq /\ milestone'[m].dep = dep
      BY <3>1, <3>2, <3>3 DEF R!Row
    <3>5. QED
      BY <3>4 DEF seq, dep
  <2>2. QED
    BY <2>1
<1>4. /\ \A m \in gone : m \in old /\ milestone'[m] = None
      /\ \A m \in Four \ old : milestone'[m] = milestone[m]
      /\ milestone' = [m \in Four |-> milestone'[m]]
  BY <1>2 DEF Rewrites
<1>5. \A m \in old \ gone : milestone'[m] # None
  BY <1>3, RoadmapBasics
<1>6. milestone' \in [Four -> R!Row \cup {None}]
  <2> HIDE DEF old
  <2>1. \A m \in Four : milestone'[m] \in R!Row \cup {None}
    BY <1>1, <1>3, <1>4
  <2>2. QED
    BY <1>4, <2>1
<1>7. OnlyAt(milestone, milestone', r)
  BY <1>2, <1>3, <1>4 DEF OnlyAt
<1>8. Steps(milestone', r) = old \ gone
  BY <1>2, <1>3, <1>4, <1>5 DEF Steps
<1>9. ASSUME Linked(milestone, roadmap, spawned, r)
      PROVE  Linked(milestone', roadmap', spawned', r)
  BY <1>3, <1>8, <1>9 DEF Linked
<1>10. \A m \in Four : milestone[m] = None => milestone'[m] = None
  BY <1>2, <1>4 DEF Steps
<1>11. QED
  BY <1>3, <1>6, <1>7, <1>8, <1>9, <1>10

\* A rewrite of one roadmap by an operation that ends with it.
LEMMA RewriteEnds ==
    ASSUME R!ConstantsOK, RoadmapsInv, NEW e \in Editors, planning[e] # R!Idle, R!End(e),
           NEW r, r = planning[e].roadmap, NEW seqOf, NEW depOf, NEW gone,
           Rewrites(r, seqOf, depOf, gone), roadmap' = roadmap, spawned' = spawned,
           r \notin crossed => Chain(milestone', r)
    PROVE  RoadmapsKept
<1>1. r \in Two
  BY PlanFields DEF RoadmapsInv
<1>2. /\ milestone' \in [Four -> R!Row \cup {None}]
      /\ OnlyAt(milestone, milestone', r)
      /\ \A m \in Four : milestone[m] = None => milestone'[m] = None
      /\ Linked(milestone, roadmap, spawned, r) => Linked(milestone', roadmap', spawned', r)
  BY <1>1, RewriteKeeps
<1>3. /\ planning' \in [Editors -> R!Op] /\ crossed' = crossed
      /\ \A d \in Editors : planning'[d] # R!Idle =>
            planning'[d] = planning[d] /\ (r \in crossed' \/ planning[d].roadmap # r)
  BY PlanEnds
<1>4. R!TypeOK'
  BY <1>2, <1>3 DEF RoadmapsInv, R!TypeOK
<1>5. r \notin crossed' => Chain(milestone', r) /\ Linked(milestone', roadmap', spawned', r)
  BY <1>1, <1>2, <1>3 DEF RoadmapsInv
<1>6. /\ roadmap'[r] # "absent" /\ (r \in crossed \/ roadmap[r] # "finalized")
      /\ \A q \in Two \ {r} : roadmap'[q] = roadmap[q]
      /\ \A q \in Two \ {r} : \A m \in Steps(milestone, q) : m \in spawned' => m \in spawned
  BY <1>1 DEF RoadmapsInv
<1>7. \A d \in Editors : planning'[d] # R!Idle =>
         \A m \in Touches(planning[d]) : milestone[m] = None => milestone'[m] = None
  BY <1>2 DEF Touches
<1>8. QED
  BY <1>1, <1>2, <1>3, <1>4, <1>5, <1>6, <1>7, RoadmapWrite

LEMMA ReorderPreserves ==
    ASSUME R!ConstantsOK, RoadmapsInv, NEW e \in Editors, R!WriteReorder(e)
    PROVE  RoadmapsKept
<1> DEFINE o == planning[e]
           r == o.roadmap
           place == o.place
           old == Steps(milestone, r)
           seqOf == [m \in Four |-> R!Moved(m, place)]
           depOf == [m \in Four |-> IF R!Inverted(m, place) THEN None ELSE milestone[m].dep]
<1>1. o.kind = "reorder" /\ o # R!Idle /\ r \in Two /\ place \in [Four -> Nat]
  BY RoadmapBasics, PlanFields DEF R!WriteReorder, RoadmapsInv
<1>2. milestone \in [Four -> R!Row \cup {None}] /\ R!Of(r) = old
  BY StepsAre DEF RoadmapsInv, R!TypeOK
<1>3. /\ Cardinality(old) \in Nat /\ old \subseteq Four
      /\ \A m \in old : /\ milestone[m].roadmap = r /\ milestone[m].dep \in Four \cup {None}
                        /\ milestone[m].seq \in Nat
  BY <1>2, MilestoneFields, RoadmapBasics
<1>4. \A m \in old : seqOf[m] = R!Moved(m, place) /\ seqOf[m] \in Nat
  BY <1>1, <1>3, RoadmapBasics DEF R!Moved
<1>5. Rewrites(r, seqOf, depOf, {})
  <2>1. milestone' = [m \in Four |-> milestone'[m]]
    BY Zenon DEF R!WriteReorder
  <2>2. \A m \in Four :
           milestone'[m] = IF m \in old
              THEN [milestone[m] EXCEPT !.seq = R!Moved(m, place), !.dep = depOf[m]]
              ELSE milestone[m]
    BY <1>2 DEF R!WriteReorder
  <2>3. \A m \in old : depOf[m] \in Four \cup {None}
    BY <1>3
  <2> HIDE DEF depOf, seqOf, place, r, o
  <2>4. QED
    BY <1>4, <2>1, <2>2, <2>3 DEF Rewrites
<1>6. \A m \in old : depOf[m] # None =>
         depOf[m] = milestone[m].dep /\ depOf[m] \in old /\ seqOf[depOf[m]] < seqOf[m]
  <2>1. ASSUME NEW m \in old, depOf[m] # None
        PROVE  depOf[m] = milestone[m].dep /\ depOf[m] \in old /\ seqOf[depOf[m]] < seqOf[m]
    <3>1. ~R!Inverted(m, place) /\ depOf[m] = milestone[m].dep
      BY <1>3, <2>1
    <3>2. R!Of(milestone[m].roadmap) = old
      BY <1>2, <1>3, <2>1
    <3> DEFINE d == milestone[m].dep
    <3> HIDE DEF depOf, seqOf, place, old
    <3>3. d \in old /\ ~(R!Moved(d, place) >= R!Moved(m, place))
      BY <2>1, <3>1, <3>2 DEF R!Inverted
    <3>4. /\ seqOf[d] = R!Moved(d, place) /\ seqOf[m] = R!Moved(m, place)
          /\ seqOf[d] \in Nat /\ seqOf[m] \in Nat
      BY <1>4, <2>1, <3>3
    <3>5. QED
      BY <3>1, <3>3, <3>4
  <2>2. QED
    BY <2>1
<1>7. R!End(e) /\ roadmap' = roadmap /\ spawned' = spawned
  BY DEF R!WriteReorder
<1> HIDE DEF depOf, seqOf
<1>8. ASSUME r \notin crossed PROVE Chain(milestone', r)
  <2>1. /\ \A m \in old : place[m] \in 1..Cardinality(old)
        /\ \A m, x \in old : place[m] = place[x] => m = x
        /\ \A m, x \in old :
              milestone[m].origin = milestone[x].origin /\ milestone[m].origin # None => m = x
    BY <1>1, <1>8 DEF RoadmapsInv, Exact, ReorderExact, Chain
  <2> HIDE DEF old, place, r, o
  <2>2. \A m \in old : seqOf[m] = place[m]
    <3>1. \A m \in old : place[m] # 0
      BY <1>3, <2>1
    <3>2. QED
      BY <1>4, <3>1 DEF R!Moved
  <2>3. /\ Steps(milestone', r) = old
        /\ \A m \in old :
              /\ milestone'[m].seq = seqOf[m] /\ milestone'[m].dep = depOf[m]
              /\ milestone'[m].origin = milestone[m].origin
    <3>1. /\ Steps(milestone', r) = Steps(milestone, r) \ {}
          /\ \A m \in Steps(milestone', r) :
                /\ milestone'[m].seq = seqOf[m] /\ milestone'[m].dep = depOf[m]
                /\ milestone'[m].origin = milestone[m].origin
      BY <1>1, <1>5, <1>7, RewriteKeeps
    <3>2. QED
      BY <3>1 DEF old
  <2>4. QED
    BY <1>6, <2>1, <2>2, <2>3 DEF Chain
<1> HIDE DEF old, place
<1>9. QED
  BY <1>1, <1>5, <1>7, <1>8, RewriteEnds

LEMMA RemovePreserves ==
    ASSUME R!ConstantsOK, RoadmapsInv, NEW e \in Editors, R!WriteRemove(e)
    PROVE  RoadmapsKept
<1> DEFINE o == planning[e]
           r == o.roadmap
           place == o.place
           t == o.target
           old == Steps(milestone, r)
           rest == old \ {t}
           seqOf == [m \in Four |-> R!Moved(m, place)]
           depOf == [m \in Four |-> R!Healed(m, o)]
<1>1. /\ o.kind = "remove" /\ o # R!Idle /\ r \in Two /\ place \in [Four -> Nat]
      /\ o.heir \in Four \cup {None} /\ t \in Four /\ Mine(milestone, o)
  BY RoadmapBasics, PlanFields DEF R!WriteRemove, RoadmapsInv
<1>2. milestone \in [Four -> R!Row \cup {None}] /\ R!Of(r) = old
  BY StepsAre DEF RoadmapsInv, R!TypeOK
<1>3. /\ Cardinality(old) \in Nat /\ old \subseteq Four /\ IsFiniteSet(old) /\ None \notin Four
      /\ \A m \in old : /\ milestone[m].roadmap = r /\ milestone[m].dep \in Four \cup {None}
                        /\ milestone[m].seq \in Nat
  BY <1>2, MilestoneFields, RoadmapBasics
\* The target is one of the roadmap's milestones or gone already.
<1>4. t \in old \/ milestone[t] = None
  BY <1>1 DEF Mine, Touches, Steps
<1>5. \A m \in old : seqOf[m] = R!Moved(m, place) /\ seqOf[m] \in Nat
  BY <1>1, <1>3, RoadmapBasics DEF R!Moved
<1>6. \A m \in old : depOf[m] \in Four \cup {None}
  BY <1>1, <1>3 DEF R!Healed
<1>7. Rewrites(r, seqOf, depOf, {t} \cap old)
  <2>1. milestone' = [m \in Four |-> milestone'[m]]
    BY Zenon DEF R!WriteRemove
  <2>2. \A m \in Four :
           milestone'[m] = IF m = t THEN None ELSE IF m \in old
              THEN [milestone[m] EXCEPT !.seq = R!Moved(m, place), !.dep = depOf[m]]
              ELSE milestone[m]
    BY <1>2 DEF R!WriteRemove
  <2> HIDE DEF depOf, seqOf, place, r, o, t
  <2>3. QED
    BY <1>4, <1>5, <1>6, <2>1, <2>2 DEF Rewrites
<1>8. R!End(e) /\ roadmap' = roadmap /\ spawned' = spawned
  BY DEF R!WriteRemove
<1> HIDE DEF seqOf
<1>9. ASSUME r \notin crossed PROVE Chain(milestone', r)
  <2>2. /\ t \in old /\ o.heir = milestone[t].dep
        /\ o.dependents = {x \in rest : milestone[x].dep = t}
        /\ \A m \in rest : place[m] \in 1..(Cardinality(old) - 1)
        /\ \A m, x \in rest : milestone[m].seq < milestone[x].seq => place[m] < place[x]
    BY <1>1, <1>9 DEF RoadmapsInv, Exact, RemoveExact
  <2>5. /\ \A m, x \in old : milestone[m].seq = milestone[x].seq => m = x
        /\ \A m \in old : milestone[m].dep # None =>
              milestone[m].dep \in old /\ milestone[milestone[m].dep].seq < milestone[m].seq
        /\ \A m, x \in old :
              milestone[m].origin = milestone[x].origin /\ milestone[m].origin # None => m = x
    BY <1>1, <1>9 DEF RoadmapsInv, Chain
  <2>6. Cardinality(rest) = Cardinality(old) - 1
    <3> HIDE DEF old, t
    <3>1. QED
      BY <2>2, <1>3, FS_RemoveElement
  <2>7. \A m \in rest : seqOf[m] = place[m]
    <3>1. \A m \in rest : place[m] # 0
      BY <2>2, <1>3
    <3>2. QED
      BY <1>5, <3>1 DEF R!Moved
  <2>8. \A m \in rest : depOf[m] = IF milestone[m].dep = t THEN milestone[t].dep
                                   ELSE milestone[m].dep
    <3>1. ASSUME NEW m \in rest
          PROVE  depOf[m] = IF milestone[m].dep = t THEN milestone[t].dep ELSE milestone[m].dep
      <4>1. depOf[m] = R!Healed(m, o) /\ (m \in o.dependents <=> milestone[m].dep = t)
        BY <2>2, <1>3
      <4>2. CASE m \in o.dependents
        BY <2>2, <4>1, <4>2 DEF R!Healed
      <4>3. CASE m \notin o.dependents
        BY <4>1, <4>3 DEF R!Healed
      <4>4. QED
        BY <4>2, <4>3
    <3>2. QED
      BY <3>1
  <2> HIDE DEF depOf
  <2>11. /\ Steps(milestone', r) = rest
         /\ \A m \in rest :
               /\ milestone'[m].seq = seqOf[m] /\ milestone'[m].dep = depOf[m]
               /\ milestone'[m].origin = milestone[m].origin
    <3>1. /\ Steps(milestone', r) = Steps(milestone, r) \ ({t} \cap old)
          /\ \A m \in Steps(milestone', r) :
                /\ milestone'[m].seq = seqOf[m] /\ milestone'[m].dep = depOf[m]
                /\ milestone'[m].origin = milestone[m].origin
      <4> HIDE DEF o, r, place, t, old
      <4>1. QED
        BY <1>1, <1>7, <1>8, RewriteKeeps
    <3>2. QED
      BY <3>1
  <2> HIDE DEF o, r, place, t, old
  \* What was re-pointed leads further back.
  <2>12. \A m \in rest : depOf[m] # None =>
            depOf[m] \in rest /\ milestone[depOf[m]].seq < milestone[m].seq
    <3>1. ASSUME NEW m \in rest, depOf[m] # None
          PROVE  depOf[m] \in rest /\ milestone[depOf[m]].seq < milestone[m].seq
      <4>1. CASE milestone[m].dep = t
        <5>1. depOf[m] = milestone[t].dep /\ milestone[t].dep # None
          BY <2>8, <3>1, <4>1
        <5>2. milestone[t].dep \in old /\ milestone[milestone[t].dep].seq < milestone[t].seq
          BY <2>2, <2>5, <5>1
        <5>3. milestone[t].seq < milestone[m].seq
          BY <2>2, <1>3, <2>5, <4>1
        <5>4. /\ milestone[milestone[t].dep].seq \in Nat /\ milestone[t].seq \in Nat
              /\ milestone[m].seq \in Nat
          BY <2>2, <1>3, <5>2
        <5>5. milestone[t].dep # t
          BY <5>2, <5>4
        <5>6. QED
          BY <5>1, <5>2, <5>3, <5>4, <5>5
      <4>2. CASE milestone[m].dep # t
        BY <2>5, <2>8, <3>1, <4>2
      <4>3. QED
        BY <4>1, <4>2
    <3>2. QED
      BY <3>1
  <2>13. \A m, x \in rest : place[m] = place[x] => m = x
    <3>1. ASSUME NEW m \in rest, NEW x \in rest, m # x PROVE place[m] # place[x]
      <4>1. milestone[m].seq \in Nat /\ milestone[x].seq \in Nat
            /\ milestone[m].seq # milestone[x].seq /\ place[m] \in Nat /\ place[x] \in Nat
        BY <1>1, <1>3, <2>5, <3>1
      <4>2. milestone[m].seq < milestone[x].seq \/ milestone[x].seq < milestone[m].seq
        BY <4>1
      <4>3. place[m] < place[x] \/ place[x] < place[m]
        BY <2>2, <4>2
      <4>4. QED
        BY <4>1, <4>3
    <3>2. QED
      BY <3>1
  <2>14. \A m \in rest : place[m] \in 1..Cardinality(rest)
    BY <2>2, <2>6
  <2>15. \A m \in rest : depOf[m] # None => depOf[m] \in rest /\ place[depOf[m]] < place[m]
    BY <2>2, <2>12
  <2>16. \A m, x \in rest :
            milestone[m].origin = milestone[x].origin /\ milestone[m].origin # None => m = x
    BY <2>5
  <2> HIDE DEF rest
  <2>17. QED
    BY <2>7, <2>11, <2>13, <2>14, <2>15, <2>16 DEF Chain
<1> HIDE DEF depOf, old, place, t
<1>10. QED
  BY <1>1, <1>7, <1>8, <1>9, RewriteEnds

LEMMA DependPreserves ==
    ASSUME R!ConstantsOK, RoadmapsInv, NEW e \in Editors, R!WriteDepend(e)
    PROVE  RoadmapsKept
<1> DEFINE o == planning[e]
           t == o.target
           p == o.pred
           r == o.roadmap
           old == Steps(milestone, r)
           seqOf == [m \in Four |-> milestone[m].seq]
           depOf == [m \in Four |-> IF m = t THEN p ELSE milestone[m].dep]
<1>1. /\ o.kind = "depend" /\ o # R!Idle /\ r \in Two /\ t \in Four /\ p \in Four \cup {None}
      /\ Mine(milestone, o)
  BY RoadmapBasics, PlanFields DEF R!WriteDepend, RoadmapsInv
<1>2. milestone \in [Four -> R!Row \cup {None}]
  BY DEF RoadmapsInv, R!TypeOK
<1>3. /\ old \subseteq Four
      /\ \A m \in old : /\ milestone[m] \in R!Row /\ milestone[m].dep \in Four \cup {None}
                        /\ milestone[m].seq \in Nat
  BY <1>2, MilestoneFields
\* The target is one of the roadmap's milestones or gone already.
<1>4. t \in old \/ milestone[t] = None
  BY <1>1 DEF Mine, Touches, Steps
<1>5. \A m \in old : milestone[m] # None
  BY DEF Steps
<1>6. Rewrites(r, seqOf, depOf, {})
  <2>1. milestone' = IF milestone[t] # None THEN [milestone EXCEPT ![t].dep = p] ELSE milestone
    BY <1>1 DEF R!WriteDepend, R!Rows
  <2>2. milestone' = [m \in Four |-> milestone'[m]]
    BY <1>2, <2>1
  <2>3. /\ t \in old => milestone'[t] = [milestone[t] EXCEPT !.dep = p]
        /\ \A m \in Four : m # t \/ t \notin old => milestone'[m] = milestone[m]
    <3> HIDE DEF old, t, p
    <3>1. QED
      BY <1>1, <1>2, <1>4, <1>5, <2>1
  <2>4. \A m \in old :
          milestone'[m] = [milestone[m] EXCEPT !.seq = seqOf[m], !.dep = depOf[m]]
    <3>1. ASSUME NEW m \in old
          PROVE  milestone'[m] = [milestone[m] EXCEPT !.seq = seqOf[m], !.dep = depOf[m]]
      <4>1. milestone[m] \in R!Row /\ seqOf[m] = milestone[m].seq
        BY <1>3
      <4>2. CASE m = t
        <5>1. depOf[m] = p /\ milestone'[m] = [milestone[m] EXCEPT !.dep = p]
          BY <1>3, <2>3, <4>2
        <5> HIDE DEF depOf, seqOf, p
        <5>2. QED
          BY <4>1, <5>1 DEF R!Row
      <4>3. CASE m # t
        <5>1. depOf[m] = milestone[m].dep /\ milestone'[m] = milestone[m]
          BY <1>3, <2>3, <4>3
        <5> HIDE DEF depOf, seqOf
        <5>2. QED
          BY <4>1, <5>1 DEF R!Row
      <4>4. QED
        BY <4>2, <4>3
    <3>2. QED
      BY <3>1
  <2>5. \A m \in old : seqOf[m] \in Nat /\ depOf[m] \in Four \cup {None}
    BY <1>1, <1>3
  <2>6. \A m \in Four : m \notin old => milestone'[m] = milestone[m]
    <3> HIDE DEF old
    <3>1. QED
      BY <2>3
  <2> HIDE DEF seqOf, depOf
  <2>7. QED
    BY <2>2, <2>4, <2>5, <2>6 DEF Rewrites
<1>7. R!End(e) /\ roadmap' = roadmap /\ spawned' = spawned
  BY DEF R!WriteDepend
<1>8. \A m \in old : seqOf[m] = milestone[m].seq
  BY <1>3
<1>9. ASSUME r \notin crossed PROVE Chain(milestone', r)
  <2>1. /\ t \in old /\ (p # None => p \in old /\ milestone[p].seq < milestone[t].seq)
        /\ Chain(milestone, r)
    BY <1>1, <1>9 DEF RoadmapsInv, Exact, DependExact
  <2>2. \A m \in old : depOf[m] # None =>
           depOf[m] \in old /\ milestone[depOf[m]].seq < milestone[m].seq
    BY <1>3, <2>1 DEF Chain
  <2> HIDE DEF o, t, p, r, seqOf, depOf
  <2>3. /\ Steps(milestone', r) = old
        /\ \A m \in old :
              /\ milestone'[m].seq = seqOf[m] /\ milestone'[m].dep = depOf[m]
              /\ milestone'[m].origin = milestone[m].origin
    <3>1. /\ Steps(milestone', r) = Steps(milestone, r) \ {}
          /\ \A m \in Steps(milestone', r) :
                /\ milestone'[m].seq = seqOf[m] /\ milestone'[m].dep = depOf[m]
                /\ milestone'[m].origin = milestone[m].origin
      BY <1>1, <1>6, <1>7, RewriteKeeps
    <3>2. QED
      BY <3>1
  <2>4. /\ \A m \in old : milestone[m].seq \in 1..Cardinality(old)
        /\ \A m, x \in old : milestone[m].seq = milestone[x].seq => m = x
        /\ \A m, x \in old :
              milestone[m].origin = milestone[x].origin /\ milestone[m].origin # None => m = x
    BY <2>1 DEF Chain
  <2> HIDE DEF old
  <2>5. QED
    BY <1>8, <2>2, <2>3, <2>4 DEF Chain
<1> HIDE DEF t, p, seqOf, depOf
<1>10. QED
  BY <1>1, <1>6, <1>7, <1>9, RewriteEnds

LEMMA RoadmapsInit == ASSUME R!ConstantsOK, R!Init PROVE RoadmapsInv
<1>1. R!TypeOK
  BY DEF R!Init, R!TypeOK, R!Op
<1>2. \A r \in Two : Chain(milestone, r) /\ Linked(milestone, roadmap, spawned, r)
  <2>1. \A r \in Two : Steps(milestone, r) = {}
    BY DEF R!Init, Steps
  <2>2. QED
    BY <2>1 DEF Chain, Linked
<1>3. crossed = {} /\ \A e \in Editors : planning[e] = R!Idle
  BY DEF R!Init
<1>4. QED
  BY <1>1, <1>2, <1>3 DEF RoadmapsInv, Lone

LEMMA RoadmapsStep ==
    ASSUME R!ConstantsOK, RoadmapsInv, [R!Next]_R!vars
    PROVE  RoadmapsKept
<1>1. CASE UNCHANGED R!vars
  <2>1. /\ roadmap' = roadmap /\ milestone' = milestone /\ spawned' = spawned
        /\ planning' = planning /\ crossed' = crossed
    BY <1>1 DEF R!vars
  <2>2. \A q \in Two : R!Frozen(q)
    BY <2>1, SameFrozen
  <2>3. QED
    BY <2>1, <2>2 DEF RoadmapsInv, R!TypeOK, RoadmapsKept
<1>2. ASSUME NEW r \in Two, NEW origins \in R!NewSeeds, R!Create(r, origins)
      PROVE  RoadmapsKept
  <2>1. PICK n \in 1..MaxSeeds : origins \in [1..n -> One \cup {None}]
    BY <1>2 DEF R!NewSeeds
  <2>2. QED
    BY <1>2, <2>1, CreatePreserves
<1>3. ASSUME NEW r \in Two, NEW s \in Two, R!Duplicate(s, r) PROVE RoadmapsKept
  BY <1>3, DuplicatePreserves
<1>4. ASSUME NEW r \in Two, R!Reopen(r) PROVE RoadmapsKept
  BY <1>4, ReopenPreserves
<1>5. ASSUME NEW e \in Editors, NEW r \in Two, R!ReadFinalize(e, r) PROVE RoadmapsKept
  BY <1>5, ReadFinalizePreserves
<1>6. ASSUME NEW e \in Editors, NEW r \in Two, NEW some \in SUBSET One, R!ReadAppend(e, r, some)
      PROVE  RoadmapsKept
  BY <1>6, ReadAppendPreserves
<1>7. ASSUME NEW e \in Editors, NEW r \in Two,
             NEW order \in R!Bijection(R!Of(r), 1..R!Cardinality(R!Of(r))),
             R!ReadReorder(e, r, order)
      PROVE  RoadmapsKept
  BY <1>7, ReadReorderPreserves
<1>8. ASSUME NEW e \in Editors, NEW m \in Four, R!ReadRemove(e, m) PROVE RoadmapsKept
  BY <1>8, ReadRemovePreserves
<1>9. ASSUME NEW e \in Editors, NEW m \in Four, NEW p \in Four \cup {None},
             R!ReadDepend(e, m, p)
      PROVE  RoadmapsKept
  BY <1>9, ReadDependPreserves
<1>10. ASSUME NEW e \in Editors,
              \/ R!WriteFinalize(e) \/ R!WriteAppend(e) \/ R!WriteReorder(e)
              \/ R!WriteRemove(e) \/ R!WriteDepend(e) \/ R!Fail(e)
       PROVE  RoadmapsKept
  BY <1>10, FinalizePreserves, AppendPreserves, ReorderPreserves, RemovePreserves,
     DependPreserves, PlanFailPreserves
<1>11. QED
  BY <1>1, <1>2, <1>3, <1>4, <1>5, <1>6, <1>7, <1>8, <1>9, <1>10 DEF R!Next

\* Numbers 1..n that differ leave no gap.
LEMMA RoadmapsShown ==
    ASSUME R!ConstantsOK, RoadmapsInv
    PROVE  R!Backward /\ R!Compact /\ R!OneMilestonePerOrigin /\ R!FinalizedAllTasked
<1>1. milestone \in [Four -> R!Row \cup {None}]
  BY DEF RoadmapsInv, R!TypeOK
<1>2. \A m \in R!Orderly :
         /\ m \in Four /\ milestone[m] # None /\ milestone[m].roadmap \in Two
         /\ m \in Steps(milestone, milestone[m].roadmap)
         /\ Chain(milestone, milestone[m].roadmap)
         /\ Linked(milestone, roadmap, spawned, milestone[m].roadmap)
  BY <1>1, MilestoneFields DEF R!Orderly, R!Rows, Steps, RoadmapsInv
<1>3. R!Backward
  BY <1>2, StepsAre DEF R!Backward, Chain
<1>4. R!OneMilestonePerOrigin
  BY <1>2 DEF R!OneMilestonePerOrigin, Chain
<1>5. R!FinalizedAllTasked
  BY <1>2 DEF R!FinalizedAllTasked, Linked
<1>6. ASSUME NEW r \in Two \ crossed
      PROVE  {milestone[m].seq : m \in R!Of(r)} = 1..R!Cardinality(R!Of(r))
  <2> DEFINE old == Steps(milestone, r)
             size == Cardinality(old)
             f == [m \in old |-> milestone[m].seq]
  <2>1. R!Of(r) = old /\ R!Cardinality(old) = size /\ IsFiniteSet(old) /\ size \in Nat
    BY <1>1, StepsAre, MilestoneFields, RoadmapBasics
  <2>2. f \in Injection(old, 1..size)
    BY DEF RoadmapsInv, Chain, Injection, IsInjective
  <2>3. IsFiniteSet(1..size) /\ Cardinality(1..size) = size
    BY <2>1, FS_Interval
  <2>4. f \in Surjection(old, 1..size)
    <3> HIDE DEF f
    <3>1. QED
      BY <2>2, <2>3, FS_Injection
  <2>5. /\ \A m \in old : milestone[m].seq \in 1..size
        /\ \A k \in 1..size : \E m \in old : milestone[m].seq = k
    BY <2>2, <2>4 DEF Injection, Surjection
  <2> HIDE DEF old, size
  <2>6. {milestone[m].seq : m \in old} = 1..size
    BY <2>5
  <2>7. QED
    BY <2>1, <2>6
<1>7. R!Compact
  BY <1>6 DEF R!Compact
<1>8. QED
  BY <1>3, <1>4, <1>5, <1>7

LEMMA RoadmapsInvariance ==
    ASSUME R!ConstantsOK PROVE R!Spec => []RoadmapsInv
<1>1. RoadmapsInv /\ [R!Next]_R!vars => RoadmapsInv'
  BY RoadmapsStep DEF RoadmapsKept
<1>2. QED
  BY <1>1, RoadmapsInit, PTL DEF R!Spec

LEMMA RoadmapsFollow ==
    ASSUME R!ConstantsOK PROVE R!Spec => R!FinalizedFrozen
<1>1. RoadmapsInv /\ [R!Next]_R!vars => [\A r \in Two : R!Frozen(r)]_R!vars
  BY RoadmapsStep DEF RoadmapsKept
<1>2. QED
  BY <1>1, RoadmapsInvariance, PTL DEF R!Spec, R!FinalizedFrozen

-----------------------------------------------------------------------------
(* Arithmetic *)

LEMMA DivBounds ==
    ASSUME NEW n \in Nat, NEW d \in Nat, d > 0
    PROVE  /\ n \div d \in Nat
           /\ (n \div d) * d <= n
           /\ n < (n \div d) * d + d
  OBVIOUS

LEMMA MulLeft ==
    ASSUME NEW x \in Nat, NEW y \in Nat, NEW d \in Nat, x <= y
    PROVE  x * d <= y * d /\ x * d \in Nat /\ y * d \in Nat
  OBVIOUS

LEMMA MulLess ==
    ASSUME NEW x \in Nat, NEW y \in Nat, NEW d \in Nat, d > 0, x * d < y * d + d
    PROVE  x <= y
<1>1. SUFFICES ASSUME x > y PROVE FALSE
  OBVIOUS
<1>2. y + 1 <= x
  BY <1>1
<1>3. (y + 1) * d <= x * d
  BY <1>2, MulLeft
<1>4. (y + 1) * d = y * d + d
  OBVIOUS
<1>5. QED
  BY <1>3, <1>4, MulLeft

-----------------------------------------------------------------------------
(* Schedule: the analysis agrees with itself, and planning resolves conflicts *)

LEMMA RoundNat ==
    ASSUME NEW n \in Nat, NEW d \in Nat, d > 0 PROVE H!Round(n, d) \in Nat
  BY DEF H!Round

LEMMA PlannedNat ==
    ASSUME NEW first \in Nat, NEW h \in Nat, NEW p \in Nat, NEW n \in Nat, n > 0, NEW i \in Nat
    PROVE  H!Planned(first, h * p, n, i) \in Nat
<1> DEFINE share == h * p * i
           days == H!Round(share, 100 * n)
<1>1. share \in Nat
  <2>1. h * p \in Nat
    OBVIOUS
  <2>2. QED
    BY <2>1
<1> HIDE DEF share
<1>2. days \in Nat
  BY <1>1, RoundNat
<1> HIDE DEF days
<1>3. H!Max({1, days}) \in {1, days}
  <2>1. \E x \in {1, days} : \A y \in {1, days} : x >= y
    BY <1>2
  <2>2. QED
    BY <2>1, Zenon DEF H!Max
<1>4. H!Planned(first, h * p, n, i) = first + H!Max({1, days})
  BY DEF H!Planned, days, share
<1>5. QED
  BY <1>2, <1>3, <1>4

LEMMA ScheduleInit == ASSUME H!ConstantsOK, H!Init PROVE H!TypeOK
<1>1. PICK n \in 1..MaxMilestones, first \in H!Days, h \in HorizonDays, p \in Paces :
         /\ due = [i \in 1..n |-> H!Planned(first, h * p, n, i)]
         /\ after = [i \in 1..n |-> i - 1]
         /\ spread = h * p
  BY DEF H!Init
<1>2. /\ n \in Nat /\ n > 0 /\ n <= MaxMilestones /\ first \in Nat /\ h \in Nat /\ p \in Nat
      /\ MaxMilestones \in Nat
  BY DEF H!ConstantsOK, H!Days
<1>3. ASSUME NEW i \in 1..n PROVE H!Planned(first, h * p, n, i) \in Nat
  <2>1. i \in Nat
    BY <1>2
  <2>2. QED
    BY <1>2, <2>1, PlannedNat, Zenon
<1>4. due \in Seq(Nat) /\ Len(due) = n /\ DOMAIN due = 1..n
  BY <1>1, <1>2, <1>3
<1>5. after \in [1..n -> 0..MaxMilestones]
  BY <1>1, <1>2
<1>6. spread \in {x * y : x \in HorizonDays, y \in Paces}
  BY <1>1
<1>7. QED
  BY <1>2, <1>4, <1>5, <1>6 DEF H!TypeOK, H!Milestones

LEMMA ScheduleStep == ASSUME H!ConstantsOK, H!TypeOK, [H!Next]_H!vars PROVE H!TypeOK'
<1>1. /\ due \in Seq(Nat) /\ Len(due) <= MaxMilestones /\ H!Milestones = 1..Len(due)
      /\ Len(due) \in Nat /\ MaxMilestones \in Nat /\ DOMAIN due = 1..Len(due)
      /\ after \in [1..Len(due) -> 0..MaxMilestones]
      /\ spread \in {0} \cup {x * y : x \in HorizonDays, y \in Paces}
  BY DEF H!TypeOK, H!Milestones, H!ConstantsOK
<1>2. CASE UNCHANGED H!vars
  BY <1>2 DEF H!vars, H!TypeOK, H!Milestones
<1>3. ASSUME NEW d \in H!Days, H!Add(d) PROVE H!TypeOK'
  <2>1. due' = Append(due, d) /\ after' = Append(after, Len(due)) /\ spread' = 0
        /\ Len(due) < MaxMilestones /\ d \in Nat
    BY <1>3 DEF H!Add, H!Days
  <2>2. due' \in Seq(Nat) /\ Len(due') = Len(due) + 1
    BY <1>1, <2>1
  <2>3. after \in Seq(0..MaxMilestones) /\ Len(after) = Len(due) /\ Len(due) \in 0..MaxMilestones
    BY <1>1
  <2>4. after' \in Seq(0..MaxMilestones) /\ Len(after') = Len(due) + 1
    BY <1>1, <2>1, <2>3
  <2>5. after' \in [1..Len(due') -> 0..MaxMilestones] /\ DOMAIN due' = 1..Len(due')
    <3> DEFINE lengths == 0..MaxMilestones
    <3>1. after' \in [1..Len(after') -> lengths]
      <4> HIDE DEF lengths
      <4>1. after' \in Seq(lengths)
        BY <2>4 DEF lengths
      <4>2. QED
        BY <4>1
    <3>2. Len(after') = Len(due')
      BY <2>2, <2>4
    <3>3. DOMAIN due' = 1..Len(due')
      BY <2>2
    <3>4. QED
      BY <3>1, <3>2, <3>3
  <2>6. QED
    BY <1>1, <2>1, <2>2, <2>5 DEF H!TypeOK, H!Milestones
<1>4. ASSUME NEW m \in H!Milestones, NEW d \in H!Days, H!SetDate(m, d) PROVE H!TypeOK'
  <2>1. due' = [due EXCEPT ![m] = d] /\ after' = after /\ spread' = 0 /\ d \in Nat
    BY <1>4 DEF H!SetDate, H!Days
  <2>2. due' \in Seq(Nat) /\ Len(due') = Len(due) /\ DOMAIN due' = 1..Len(due)
    BY <1>1, <2>1
  <2>3. QED
    BY <1>1, <2>1, <2>2 DEF H!TypeOK, H!Milestones
<1>5. ASSUME NEW m \in H!Milestones, NEW p \in 0..Len(due), H!Depend(m, p) PROVE H!TypeOK'
  <2>1. after' = [after EXCEPT ![m] = p] /\ due' = due /\ spread' = spread
    BY <1>5 DEF H!Depend
  <2>2. p \in 0..MaxMilestones
    BY <1>1
  <2>3. after' \in [1..Len(due) -> 0..MaxMilestones]
    BY <1>1, <2>1, <2>2
  <2>4. QED
    BY <1>1, <2>1, <2>3 DEF H!TypeOK, H!Milestones
<1>6. ASSUME NEW first \in H!Days, NEW h \in HorizonDays, NEW p \in Paces,
             H!Replan(first, h, p)
      PROVE  H!TypeOK'
  <2>1. /\ due' = [i \in 1..Len(due) |-> H!Planned(first, h * p, Len(due), i)]
        /\ spread' = h * p /\ after' = after
    BY <1>1, <1>6 DEF H!Replan
  <2>2. first \in Nat /\ h \in Nat /\ p \in Nat
    BY DEF H!ConstantsOK, H!Days
  <2>3. ASSUME NEW i \in 1..Len(due) PROVE H!Planned(first, h * p, Len(due), i) \in Nat
    <3>1. i \in Nat /\ Len(due) > 0 /\ Len(due) \in Nat
      BY <1>1
    <3>2. QED
      BY <2>2, <3>1, PlannedNat, Zenon
  <2>4. due' \in Seq(Nat) /\ Len(due') = Len(due) /\ DOMAIN due' = 1..Len(due)
    BY <1>1, <2>1, <2>3
  <2>5. spread' \in {x * y : x \in HorizonDays, y \in Paces}
    BY <2>1
  <2>6. QED
    BY <1>1, <2>1, <2>4, <2>5 DEF H!TypeOK, H!Milestones
<1>7. QED
  BY <1>2, <1>3, <1>4, <1>5, <1>6 DEF H!Next

LEMMA ScheduleTyped == ASSUME H!ConstantsOK PROVE H!Spec => []H!TypeOK
  BY ScheduleInit, ScheduleStep, PTL DEF H!Spec

\* A dependency leads to an earlier milestone, and dates that were spread over
\* a horizon are where the plan puts them.
DatesInv ==
    /\ H!TypeOK
    /\ due # <<>>
    /\ \A m \in 1..Len(due) : after[m] < m
    /\ spread # 0 =>
          \E first \in H!Days, h \in HorizonDays, p \in Paces :
              /\ spread = h * p
              /\ \A i \in 1..Len(due) : due[i] = H!Planned(first, h * p, Len(due), i)

LEMMA DatesFields ==
    ASSUME H!ConstantsOK, H!TypeOK
    PROVE  /\ due \in Seq(Nat) /\ Len(due) \in Nat /\ DOMAIN due = 1..Len(due)
           /\ H!Milestones = 1..Len(due)
           /\ after \in [1..Len(due) -> 0..MaxMilestones]
           /\ \A m \in 1..Len(due) : due[m] \in Nat /\ after[m] \in Nat
           /\ MaxMilestones \in Nat
<1>1. due \in Seq(Nat) /\ Len(due) \in Nat /\ DOMAIN due = 1..Len(due) /\ MaxMilestones \in Nat
  BY DEF H!TypeOK, H!ConstantsOK
<1>2. after \in [1..Len(due) -> 0..MaxMilestones] /\ H!Milestones = 1..Len(due)
  BY <1>1 DEF H!TypeOK, H!Milestones
<1>3. QED
  BY <1>1, <1>2

LEMMA SameInterval == ASSUME NEW a \in Nat, NEW b \in Nat, 1..a = 1..b PROVE a = b
<1>1. CASE a < b
  <2>1. b \in 1..b /\ b \notin 1..a
    BY <1>1
  <2>2. QED
    BY <2>1
<1>2. CASE b < a
  <2>1. a \in 1..a /\ a \notin 1..b
    BY <1>2
  <2>2. QED
    BY <2>1
<1>3. QED
  BY <1>1, <1>2

LEMMA DatesInit == ASSUME H!ConstantsOK, H!Init PROVE DatesInv
<1>1. PICK n \in 1..MaxMilestones, first \in H!Days, h \in HorizonDays, p \in Paces :
         /\ due = [i \in 1..n |-> H!Planned(first, h * p, n, i)]
         /\ after = [i \in 1..n |-> i - 1]
         /\ spread = h * p
  BY DEF H!Init
<1>2. H!TypeOK
  BY ScheduleInit
<1>3. n \in Nat /\ n > 0
  BY DEF H!ConstantsOK
<1>4. Len(due) = n /\ due # <<>>
  <2>1. Len(due) \in Nat /\ DOMAIN due = 1..Len(due) /\ DOMAIN due = 1..n
    <3>1. Len(due) \in Nat /\ DOMAIN due = 1..Len(due)
      BY <1>2, DatesFields, Zenon
    <3>2. DOMAIN due = 1..n
      BY <1>1, Zenon
    <3>3. QED
      BY <3>1, <3>2, Zenon
  <2>2. Len(due) = n
    BY <1>3, <2>1, SameInterval, Zenon
  <2>3. due # <<>>
    <3>1. Len(<<>>) = 0
      OBVIOUS
    <3>2. n # 0
      BY <1>3
    <3>3. QED
      BY <2>2, <3>1, <3>2, Zenon
  <2>4. QED
    BY <2>2, <2>3, Zenon
<1>5. \A i \in 1..Len(due) : after[i] < i /\ due[i] = H!Planned(first, h * p, Len(due), i)
  BY <1>1, <1>3, <1>4
<1>6. QED
  BY <1>1, <1>2, <1>4, <1>5 DEF DatesInv

LEMMA DatesStep == ASSUME H!ConstantsOK, DatesInv, [H!Next]_H!vars PROVE DatesInv'
<1>1. H!TypeOK'
  BY ScheduleStep DEF DatesInv
<1>2. /\ due \in Seq(Nat) /\ Len(due) \in Nat /\ DOMAIN due = 1..Len(due)
      /\ H!Milestones = 1..Len(due) /\ after \in [1..Len(due) -> 0..MaxMilestones]
      /\ \A m \in 1..Len(due) : after[m] \in Nat /\ after[m] < m
      /\ due # <<>> /\ Len(due) > 0
  BY DatesFields DEF DatesInv
<1>3. CASE UNCHANGED H!vars
  BY <1>1, <1>3 DEF H!vars, DatesInv
<1>4. ASSUME NEW d \in H!Days, H!Add(d) PROVE DatesInv'
  <2>1. due' = Append(due, d) /\ after' = Append(after, Len(due)) /\ spread' = 0
    BY <1>4 DEF H!Add
  <2>2. Len(due') = Len(due) + 1 /\ due' # <<>>
    BY <1>2, <2>1
  <2> DEFINE lengths == 0..MaxMilestones
  <2>3. after \in Seq(lengths) /\ Len(after) = Len(due)
    <3>1. after \in [1..Len(due) -> lengths]
      BY <1>2
    <3> HIDE DEF lengths
    <3>2. QED
      BY <1>2, <3>1
  <2> HIDE DEF lengths
  <2>4. \A m \in 1..(Len(due) + 1) : after'[m] = IF m = Len(due) + 1 THEN Len(due) ELSE after[m]
    BY <1>2, <2>1, <2>3
  <2>5. ASSUME NEW m \in 1..Len(due') PROVE after'[m] < m
    <3>1. m \in 1..(Len(due) + 1) /\ m \in Nat
      BY <1>2, <2>2
    <3>2. CASE m = Len(due) + 1
      BY <1>2, <2>4, <3>1, <3>2
    <3>3. CASE m # Len(due) + 1
      <4>1. m \in 1..Len(due)
        BY <1>2, <3>1, <3>3
      <4>2. QED
        BY <1>2, <2>4, <3>1, <3>3, <4>1
    <3>4. QED
      BY <3>2, <3>3
  <2>6. QED
    BY <1>1, <2>1, <2>2, <2>5 DEF DatesInv
<1>5. ASSUME NEW m \in H!Milestones, NEW d \in H!Days, H!SetDate(m, d) PROVE DatesInv'
  <2>1. due' = [due EXCEPT ![m] = d] /\ after' = after /\ spread' = 0
    BY <1>5 DEF H!SetDate
  <2>2. d \in Nat
    BY DEF H!Days, H!ConstantsOK
  <2>3. Len(due') = Len(due) /\ due' # <<>>
    BY <1>2, <2>1, <2>2
  <2>4. QED
    BY <1>1, <1>2, <2>1, <2>3 DEF DatesInv
<1>6. ASSUME NEW m \in H!Milestones, NEW p \in 0..Len(due), H!Depend(m, p) PROVE DatesInv'
  <2>1. after' = [after EXCEPT ![m] = p] /\ p < m /\ due' = due /\ spread' = spread
    BY <1>6 DEF H!Depend
  <2>2. \A k \in 1..Len(due') : after'[k] < k
    BY <1>2, <2>1
  <2>3. QED
    BY <1>1, <1>2, <2>1, <2>2 DEF DatesInv
<1>7. ASSUME NEW first \in H!Days, NEW h \in HorizonDays, NEW p \in Paces, H!Replan(first, h, p)
      PROVE  DatesInv'
  <2>1. /\ due' = [i \in 1..Len(due) |-> H!Planned(first, h * p, Len(due), i)]
        /\ spread' = h * p /\ after' = after
    BY <1>2, <1>7 DEF H!Replan
  <2>2. Len(due') = Len(due) /\ due' # <<>>
    <3>1. Len(due') \in Nat /\ DOMAIN due' = 1..Len(due') /\ DOMAIN due' = 1..Len(due)
      <4>1. Len(due') \in Nat /\ DOMAIN due' = 1..Len(due')
        <5>1. due' \in Seq(Nat)
          BY <1>1, SMTT(30) DEF H!TypeOK
        <5>2. \A S2, s : s \in Seq(S2) => Len(s) \in Nat /\ DOMAIN s = 1..Len(s)
          OBVIOUS
        <5>3. QED
          BY <5>1, <5>2, Zenon
      <4>2. DOMAIN due' = 1..Len(due)
        BY <2>1, Zenon
      <4>3. QED
        BY <4>1, <4>2
    <3>2. Len(due') = Len(due)
      BY <1>2, <3>1, SameInterval, Zenon
    <3>3. QED
      BY <1>2, <3>1, <3>2
  <2>3. \A i \in 1..Len(due') : due'[i] = H!Planned(first, h * p, Len(due'), i)
    BY <2>1, <2>2
  <2>4. \A k \in 1..Len(due') : after'[k] < k
    BY <1>2, <2>1, <2>2
  <2>5. QED
    BY <1>1, <2>1, <2>2, <2>3, <2>4 DEF DatesInv
<1>8. QED
  BY <1>3, <1>4, <1>5, <1>6, <1>7 DEF H!Next

LEMMA DatesInvariance == ASSUME H!ConstantsOK PROVE H!Spec => []DatesInv
  BY DatesInit, DatesStep, PTL DEF H!Spec

\* One whole more to round makes one more.
LEMMA RoundRises ==
    ASSUME NEW x \in Nat, NEW y \in Nat, NEW d \in Nat, d > 0, x + d <= y
    PROVE  H!Round(x, d) < H!Round(y, d) /\ H!Round(x, d) \in Nat /\ H!Round(y, d) \in Nat
<1> DEFINE e == 2 * d
           a == (2 * x + d) \div e
           b == (2 * y + d) \div e
<1>1. H!Round(x, d) = a /\ H!Round(y, d) = b
  BY DEF H!Round
<1>2. e \in Nat /\ e > 0 /\ 2 * x + d \in Nat /\ 2 * y + d \in Nat /\ 2 * x + d + e <= 2 * y + d
  OBVIOUS
<1> HIDE DEF e
<1>3. /\ a \in Nat /\ a * e <= 2 * x + d /\ 2 * x + d < a * e + e
      /\ b \in Nat /\ b * e <= 2 * y + d /\ 2 * y + d < b * e + e
  BY <1>2, DivBounds
<1> HIDE DEF a, b
<1>4. a * e \in Nat /\ b * e \in Nat /\ (a + 1) * e = a * e + e
  BY <1>2, <1>3
<1>5. (a + 1) * e < b * e + e
  BY <1>2, <1>3, <1>4
<1>6. a + 1 <= b
  BY <1>2, <1>3, <1>5, MulLess
<1>7. QED
  BY <1>1, <1>3, <1>6

\* With a day for each milestone the plan puts the later one later.
LEMMA PlannedRises ==
    ASSUME NEW first \in Nat, NEW days \in Nat, NEW n \in Nat, n > 0, days >= 100 * n,
           NEW i \in Nat, NEW k \in Nat, 0 < i, i < k
    PROVE  H!Planned(first, days, n, i) < H!Planned(first, days, n, k)
<1> DEFINE d == 100 * n
           a == H!Round(days * i, d)
           b == H!Round(days * k, d)
<1>1. d \in Nat /\ d > 0 /\ d <= days
  OBVIOUS
<1>2. /\ days * i \in Nat /\ days * k \in Nat /\ days * i + days <= days * k
      /\ 0 + d <= days * i
  <2>1. days * (k - i) = days * k - days * i /\ days * (i - 1) = days * i - days
        /\ days * (k - i - 1) = days * k - days * i - days
    OBVIOUS
  <2>2. \A j \in Nat : days * j \in Nat
    OBVIOUS
  <2>3. i - 1 \in Nat /\ k - i - 1 \in Nat
    OBVIOUS
  <2>4. days * (i - 1) \in Nat /\ days * (k - i - 1) \in Nat
    BY <2>2, <2>3
  <2> HIDE DEF d
  <2>5. QED
    BY <1>1, <2>1, <2>2, <2>4
<1> HIDE DEF d
<1>3. days * i + d <= days * k
  BY <1>1, <1>2
<1>4. a < b /\ a \in Nat /\ b \in Nat
  BY <1>1, <1>2, <1>3, RoundRises
<1>5. a > 0
  <2>1. H!Round(0, d) < a /\ H!Round(0, d) \in Nat
    BY <1>1, <1>2, RoundRises
  <2>2. QED
    BY <1>4, <2>1
<1>6. H!Planned(first, days, n, i) = first + H!Max({1, a}) /\ H!Planned(first, days, n, k) = first + H!Max({1, b})
  BY DEF H!Planned, a, b, d
<1> HIDE DEF a, b
<1>7. ASSUME NEW x \in Nat, x > 0 PROVE H!Max({1, x}) = x
  <2>1. \E v \in {1, x} : \A w \in {1, x} : v >= w
    BY <1>7
  <2>2. H!Max({1, x}) \in {1, x} /\ \A w \in {1, x} : H!Max({1, x}) >= w
    BY <2>1, Zenon DEF H!Max
  <2>3. QED
    BY <1>7, <2>2
<1>8. QED
  BY <1>4, <1>5, <1>6, <1>7

LEMMA ReplanAll == ASSUME H!ConstantsOK, DatesInv PROVE H!ReplanResolves
<1> SUFFICES ASSUME spread >= 100 * Len(due), NEW m \in H!Conflicts PROVE FALSE
  BY DEF H!ReplanResolves
<1>1. /\ Len(due) \in Nat /\ Len(due) > 0 /\ H!Milestones = 1..Len(due)
      /\ \A k \in 1..Len(due) : due[k] \in Nat /\ after[k] \in Nat
  BY DatesFields DEF DatesInv
<1>2. /\ m \in 1..Len(due) /\ after[m] \in 1..Len(due) /\ after[m] < m
      /\ due[m] <= due[after[m]]
  BY <1>1 DEF H!Conflicts, H!Edges, DatesInv
<1>3. spread # 0
  BY <1>1
<1>4. PICK first \in H!Days, h \in HorizonDays, p \in Paces :
          /\ spread = h * p
          /\ \A i \in 1..Len(due) : due[i] = H!Planned(first, h * p, Len(due), i)
  BY <1>3 DEF DatesInv
<1>5. first \in Nat /\ spread \in Nat
  <2>1. first \in Nat /\ h \in Nat /\ p \in Nat
    BY DEF H!Days, H!ConstantsOK
  <2>2. QED
    BY <1>4, <2>1
<1>6. H!Planned(first, spread, Len(due), after[m]) < H!Planned(first, spread, Len(due), m)
  <2>1. after[m] \in Nat /\ m \in Nat /\ 0 < after[m]
    BY <1>1, <1>2
  <2>2. QED
    BY <1>1, <1>2, <1>5, <2>1, PlannedRises
<1>7. due[after[m]] < due[m]
  BY <1>2, <1>4, <1>6
<1>8. QED
  BY <1>1, <1>2, <1>7

-----------------------------------------------------------------------------

\* There is a latest milestone, of equals the last.
LEMMA LatestExists ==
    ASSUME NEW s \in Seq(Nat)
    PROVE  \A n \in 1..Len(s) :
              \E m \in 1..n : \A k \in 1..n : s[k] < s[m] \/ (s[k] = s[m] /\ k <= m)
<1> DEFINE Latest(n, m) == \A k \in 1..n : s[k] < s[m] \/ (s[k] = s[m] /\ k <= m)
           Without == {n \in 1..Len(s) : ~\E m \in 1..n : Latest(n, m)}
<1>1. Len(s) \in Nat /\ \A k \in 1..Len(s) : s[k] \in Nat
  OBVIOUS
<1>2. SUFFICES ASSUME Without # {} PROVE FALSE
  OBVIOUS
<1>3. PICK n \in Without : \A k \in Without : n <= k
  <2>1. Without \in SUBSET Nat
    BY <1>1
  <2> HIDE DEF Without
  <2>2. QED
    BY <1>2, <2>1, LeastNat
<1>4. n \in 1..Len(s) /\ n \in Nat /\ ~\E m \in 1..n : Latest(n, m)
  BY <1>1
<1>5. n # 1
  <2>1. n = 1 => 1 \in 1..n /\ Latest(n, 1)
    BY <1>1, <1>4
  <2>2. QED
    BY <1>4, <2>1
<1>6. n - 1 \in 1..Len(s) /\ n - 1 \notin Without
  <2>1. n - 1 \in 1..Len(s) /\ ~(n <= n - 1)
    BY <1>1, <1>4, <1>5
  <2> HIDE DEF Without
  <2>2. QED
    BY <1>3, <2>1
<1>7. PICK m \in 1..(n - 1) : Latest(n - 1, m)
  BY <1>6
<1>8. s[m] \in Nat /\ s[n] \in Nat /\ m \in 1..n /\ m <= n - 1
  BY <1>1, <1>4, <1>7
<1> HIDE DEF Without
<1>9. CASE s[m] <= s[n]
  <2>1. Latest(n, n)
    <3>1. ASSUME NEW k \in 1..n PROVE s[k] < s[n] \/ (s[k] = s[n] /\ k <= n)
      <4>1. CASE k = n
        BY <1>4, <4>1
      <4>2. CASE k # n
        <5>1. k \in 1..(n - 1) /\ s[k] \in Nat /\ k <= n
          BY <1>1, <1>4, <4>2
        <5>2. s[k] < s[m] \/ s[k] = s[m]
          BY <1>7, <5>1
        <5> DEFINE x == s[k]
                   y == s[m]
                   z == s[n]
        <5>3. x \in Nat /\ y \in Nat /\ z \in Nat /\ (x < y \/ x = y) /\ y <= z
          BY <1>8, <1>9, <5>1, <5>2
        <5>4. x < z \/ x = z
          <6> HIDE DEF x, y, z
          <6>1. QED
            BY <5>3
        <5>5. QED
          BY <5>1, <5>4
      <4>3. QED
        BY <4>1, <4>2
    <3>2. QED
      BY <3>1
  <2>2. n \in 1..n
    BY <1>4
  <2>3. QED
    BY <1>4, <2>1, <2>2
<1>10. CASE s[n] < s[m]
  <2>1. Latest(n, m)
    <3>1. ASSUME NEW k \in 1..n PROVE s[k] < s[m] \/ (s[k] = s[m] /\ k <= m)
      <4>1. k = n \/ k \in 1..(n - 1)
        BY <1>4
      <4>2. QED
        BY <1>7, <1>10, <4>1
    <3>2. QED
      BY <3>1
  <2>2. QED
    BY <1>4, <1>8, <2>1
<1>11. s[m] <= s[n] \/ s[n] < s[m]
  <2> DEFINE y == s[m]
             z == s[n]
  <2>1. y \in Nat /\ z \in Nat
    BY <1>8
  <2> HIDE DEF y, z
  <2>2. y <= z \/ z < y
    BY <2>1
  <2>3. QED
    BY <2>2 DEF y, z
<1>12. QED
  BY <1>9, <1>10, <1>11

LEMMA FinishFields ==
    ASSUME H!ConstantsOK, DatesInv
    PROVE  /\ H!Finish \in 1..Len(due)
           /\ \A k \in 1..Len(due) : due[k] <= due[H!Finish]
<1>1. /\ due \in Seq(Nat) /\ Len(due) \in Nat /\ Len(due) > 0 /\ H!Milestones = 1..Len(due)
      /\ \A k \in 1..Len(due) : due[k] \in Nat
  BY DatesFields DEF DatesInv
<1>2. \E m \in 1..Len(due) : \A k \in 1..Len(due) : due[k] < due[m] \/ (due[k] = due[m] /\ k <= m)
  <2>1. Len(due) \in 1..Len(due)
    BY <1>1
  <2>2. QED
    BY <1>1, <2>1, LatestExists
<1>3. \E m \in H!Milestones : \A k \in H!Milestones : due[k] < due[m] \/ (due[k] = due[m] /\ k <= m)
  BY <1>1, <1>2
<1>4. /\ H!Finish \in H!Milestones
      /\ \A k \in H!Milestones : due[k] < due[H!Finish] \/ (due[k] = due[H!Finish] /\ k <= H!Finish)
  BY <1>3, Zenon DEF H!Finish
<1>5. QED
  BY <1>1, <1>4

\* The path one milestone further back, and the path after k such steps.
Lengthened(path) == IF after[path[1]] = 0 THEN path ELSE <<after[path[1]]>> \o path

Paths(f, n) ==
    f = [k \in 0..n |-> IF k = 0 THEN <<H!Finish>> ELSE Lengthened(f[k - 1])]

\* The recursion defines a function.
LEMMA PathsExist == ASSUME NEW n \in Nat PROVE \E f : Paths(f, n)
<1> DEFINE Without == {k \in 0..n : ~\E f : Paths(f, k)}
<1>1. SUFFICES ASSUME Without # {} PROVE FALSE
  OBVIOUS
<1>2. PICK k \in Without : \A j \in Without : k <= j
  <2>1. Without \in SUBSET Nat
    OBVIOUS
  <2> HIDE DEF Without
  <2>2. QED
    BY <1>1, <2>1, LeastNat
<1>3. k \in 0..n /\ ~\E f : Paths(f, k)
  OBVIOUS
<1>4. k # 0
  <2>1. Paths([j \in 0..0 |-> <<H!Finish>>], 0)
    BY DEF Paths
  <2>2. QED
    BY <1>3, <2>1
<1>5. k - 1 \in 0..n /\ k - 1 \notin Without
  <2>1. k - 1 \in 0..n /\ ~(k <= k - 1)
    BY <1>3, <1>4
  <2> HIDE DEF Without
  <2>2. QED
    BY <1>2, <2>1
<1>6. PICK f : Paths(f, k - 1)
  BY <1>5
<1> DEFINE last == Lengthened(f[k - 1])
           g == [j \in 0..k |-> IF j = k THEN last ELSE f[j]]
<1>7. Paths(g, k)
  <2>1. \A j \in 0..(k - 1) : f[j] = IF j = 0 THEN <<H!Finish>> ELSE Lengthened(f[j - 1])
    BY <1>6 DEF Paths
  <2> HIDE DEF last
  <2>2. \A j \in 0..k : j # 0 => j - 1 \in 0..k /\ g[j - 1] = f[j - 1]
    BY <1>3
  <2>3. last = Lengthened(f[k - 1])
    BY DEF last
  <2>4. \A j \in 0..k : g[j] = IF j = 0 THEN <<H!Finish>> ELSE Lengthened(g[j - 1])
    <3> TAKE j \in 0..k
    <3>1. CASE j = k
      BY <1>3, <1>4, <2>2, <2>3, <3>1
    <3>2. CASE j # k
      <4>1. j \in 0..(k - 1) /\ g[j] = f[j]
        BY <1>3, <3>2
      <4>2. QED
        BY <2>1, <2>2, <4>1
    <3>3. QED
      BY <3>1, <3>2
  <2>5. g = [j \in 0..k |-> IF j = 0 THEN <<H!Finish>> ELSE Lengthened(g[j - 1])]
    BY <2>4
  <2> HIDE DEF g
  <2>6. QED
    BY <2>5 DEF Paths
<1>8. QED
  BY <1>3, <1>7

\* A path ends at the finish, goes from predecessor to successor, and begins
\* at a root or at least k milestones before the finish.
PathSound(path, k) ==
    /\ path \in Seq(1..Len(due)) /\ Len(path) > 0
    /\ path[Len(path)] = H!Finish
    /\ \A i \in 1..(Len(path) - 1) : after[path[i + 1]] = path[i]
    /\ after[path[1]] = 0 \/ path[1] + k <= H!Finish

LEMMA LengthenedSound ==
    ASSUME H!ConstantsOK, DatesInv, NEW k \in Nat, NEW path, PathSound(path, k)
    PROVE  PathSound(Lengthened(path), k + 1)
<1>1. /\ Len(due) \in Nat /\ \A m \in 1..Len(due) : after[m] \in Nat /\ after[m] < m
  BY DatesFields DEF DatesInv
<1> DEFINE Ms == 1..Len(due)
           p == after[path[1]]
<1>2. /\ path \in Seq(Ms) /\ Len(path) \in Nat /\ Len(path) > 0 /\ path[1] \in Ms
      /\ \A i \in 1..Len(path) : path[i] \in Ms
  BY DEF PathSound
<1>3. CASE p = 0
  BY <1>3 DEF PathSound, Lengthened
<1>4. CASE p # 0
  <2> DEFINE new == <<p>> \o path
  <2>1. p \in Ms /\ p < path[1] /\ path[1] \in Nat /\ p \in Nat
    BY <1>1, <1>2, <1>4
  <2>2. p + (k + 1) <= H!Finish
    <3>1. H!Finish \in Nat
      BY FinishFields
    <3>2. path[1] + k <= H!Finish
      BY <1>4 DEF PathSound
    <3> HIDE DEF p
    <3>3. QED
      BY <2>1, <3>1, <3>2
  <2> HIDE DEF Ms, p
  <2>3. /\ new \in Seq(Ms) /\ Len(new) = Len(path) + 1 /\ new[1] = p
        /\ \A i \in 1..Len(path) : new[i + 1] = path[i]
    BY <1>2, <2>1
  <2>4. \A i \in 1..(Len(new) - 1) : after[new[i + 1]] = new[i]
    <3> SUFFICES ASSUME NEW i \in 1..Len(path) PROVE after[new[i + 1]] = new[i]
      BY <2>3
    <3>1. CASE i = 1
      BY <2>3, <3>1 DEF p
    <3>2. CASE i # 1
      <4>1. i - 1 \in 1..(Len(path) - 1) /\ i - 1 \in 1..Len(path) /\ (i - 1) + 1 = i
        BY <1>2, <3>2
      <4>2. after[path[i]] = path[i - 1] /\ new[i + 1] = path[i] /\ new[i] = path[i - 1]
        BY <2>3, <4>1 DEF PathSound
      <4>3. QED
        BY <4>2
    <3>3. QED
      BY <3>1, <3>2
  <2>5. new[Len(new)] = H!Finish
    BY <1>2, <2>3 DEF PathSound
  <2>6. Lengthened(path) = new
    BY <1>4 DEF Lengthened, p
  <2> HIDE DEF new
  <2>7. QED
    BY <1>2, <2>2, <2>3, <2>4, <2>5, <2>6, SMTT(30) DEF PathSound, Ms
<1>5. QED
  BY <1>3, <1>4

LEMMA CriticalPathSound ==
    ASSUME H!ConstantsOK, DatesInv
    PROVE  PathSound(H!CriticalPath, Len(due)) /\ after[H!CriticalPath[1]] = 0
<1> DEFINE n == Len(due)
           chain == CHOOSE f : Paths(f, n)
<1>1. n \in Nat /\ n > 0 /\ \A m \in 1..n : after[m] \in Nat
  BY DatesFields DEF DatesInv
<1>2. H!CriticalPath = chain[n]
  BY DEF H!CriticalPath, Paths, Lengthened
<1> HIDE DEF n
<1>3. Paths(chain, n)
  BY <1>1, PathsExist, Zenon
<1> HIDE DEF chain
<1>4. chain[0] = <<H!Finish>> /\ \A k \in 1..n : chain[k] = Lengthened(chain[k - 1])
  BY <1>1, <1>3 DEF Paths
<1>5. PathSound(<<H!Finish>>, 0)
  BY FinishFields DEF PathSound
<1>6. \A k \in 0..n : PathSound(chain[k], k)
  <2> DEFINE Bad == {k \in 0..n : ~PathSound(chain[k], k)}
  <2>1. SUFFICES ASSUME Bad # {} PROVE FALSE
    OBVIOUS
  <2>2. PICK k \in Bad : \A j \in Bad : k <= j
    <3>1. Bad \in SUBSET Nat
      BY <1>1
    <3> HIDE DEF Bad
    <3>2. QED
      BY <2>1, <3>1, LeastNat
  <2>3. k \in 0..n /\ ~PathSound(chain[k], k)
    OBVIOUS
  <2>4. k # 0
    BY <1>4, <1>5, <2>3
  <2>5. k - 1 \in 0..n /\ k \in 1..n /\ k - 1 \notin Bad
    <3>1. k - 1 \in 0..n /\ k \in 1..n /\ ~(k <= k - 1)
      BY <1>1, <2>3, <2>4
    <3> HIDE DEF Bad
    <3>2. QED
      BY <2>2, <3>1
  <2>6. PathSound(chain[k - 1], k - 1)
    BY <2>5
  <2>7. k - 1 \in Nat /\ (k - 1) + 1 = k
    BY <2>5
  <2>8. PathSound(Lengthened(chain[k - 1]), k)
    BY <2>6, <2>7, LengthenedSound
  <2>9. QED
    BY <1>4, <2>3, <2>5, <2>8
<1>7. PathSound(H!CriticalPath, n)
  <2>1. n \in 0..n
    BY <1>1
  <2>2. QED
    BY <1>2, <1>6, <2>1
<1>8. after[H!CriticalPath[1]] = 0
  <2>1. H!CriticalPath[1] \in 1..n /\ H!Finish \in 1..n
    BY <1>7, FinishFields DEF PathSound, n
  <2>2. ~(H!CriticalPath[1] + n <= H!Finish)
    BY <1>1, <2>1
  <2>3. QED
    BY <1>7, <2>2 DEF PathSound
<1>9. QED
  BY <1>7, <1>8 DEF n

LEMMA AnalysisAll == ASSUME H!ConstantsOK, DatesInv PROVE H!AnalysisAgrees
<1>1. /\ due \in Seq(Nat) /\ Len(due) \in Nat /\ Len(due) > 0 /\ H!Milestones = 1..Len(due)
      /\ \A k \in 1..Len(due) : due[k] \in Nat /\ after[k] \in Nat /\ after[k] < k
  BY DatesFields DEF DatesInv
<1>2. ASSUME NEW m \in H!Milestones, H!Successors(m) # {}
      PROVE  H!Slack(m) <= 0 <=> H!Successors(m) \cap H!Conflicts # {}
  <2> DEFINE dates == {due[k] : k \in H!Successors(m)}
  <2>1. \A k \in H!Successors(m) : k \in 1..Len(due) /\ after[k] = m /\ due[k] \in Nat /\ k \in H!Edges
    BY <1>1 DEF H!Successors, H!Edges
  <2>2. dates \in SUBSET Nat /\ dates # {}
    BY <1>2, <2>1
  <2>3. H!Slack(m) = H!Min(dates) - due[m]
    BY DEF H!Slack
  <2>4. H!Min(dates) \in dates /\ \A x \in dates : H!Min(dates) <= x
    <3> HIDE DEF dates
    <3>1. \E x \in dates : \A y \in dates : x <= y
      BY <2>2, LeastNat
    <3>2. QED
      BY <3>1, Zenon DEF H!Min
  <2>5. \A k \in H!Successors(m) : k \in H!Conflicts <=> due[k] <= due[m]
    BY <2>1 DEF H!Conflicts
  <2>6. due[m] \in Nat /\ H!Min(dates) \in Nat
    BY <1>1, <2>2, <2>4
  <2>7. H!Slack(m) <= 0 <=> H!Min(dates) <= due[m]
    <3> HIDE DEF dates
    <3>1. QED
      BY <2>3, <2>6
  <2>8. H!Min(dates) <= due[m] <=> \E k \in H!Successors(m) : due[k] <= due[m]
    <3>1. PICK k \in H!Successors(m) : H!Min(dates) = due[k]
      BY <2>4
    <3>2. \A j \in H!Successors(m) : H!Min(dates) <= due[j]
      BY <2>4
    <3> HIDE DEF dates
    <3>3. QED
      BY <2>1, <2>6, <3>1, <3>2
  <2>9. QED
    BY <2>5, <2>7, <2>8
<1> DEFINE path == H!CriticalPath
<1>3. /\ path \in Seq(1..Len(due)) /\ Len(path) \in Nat /\ Len(path) > 0
      /\ path[Len(path)] = H!Finish /\ after[path[1]] = 0
      /\ \A i \in 1..(Len(path) - 1) : after[path[i + 1]] = path[i]
  BY CriticalPathSound DEF PathSound
<1> HIDE DEF path
<1>4. \A i \in 1..Len(path) : path[i] \in 1..Len(due)
  BY <1>3
<1>5. ASSUME H!Conflicts = {}
      PROVE  /\ \A i \in 1..(Len(path) - 1) : due[path[i]] < due[path[i + 1]]
             /\ H!Successors(H!Finish) = {}
  <2>1. \A k \in 1..Len(due) : after[k] # 0 => ~(due[k] <= due[after[k]]) /\ after[k] \in 1..Len(due)
    BY <1>1, <1>5, SMTT(30) DEF H!Conflicts, H!Edges
  <2>2. ASSUME NEW i \in 1..(Len(path) - 1) PROVE due[path[i]] < due[path[i + 1]]
    <3>1. i \in 1..Len(path) /\ i + 1 \in 1..Len(path)
      BY <1>3
    <3>2. path[i] \in 1..Len(due) /\ path[i + 1] \in 1..Len(due) /\ after[path[i + 1]] = path[i]
      BY <1>3, <1>4, <3>1
    <3>3. path[i] # 0 /\ due[path[i]] \in Nat /\ due[path[i + 1]] \in Nat
      BY <1>1, <3>2, SMTT(30)
    <3>4. QED
      BY <2>1, <3>2, <3>3
  <2>3. ASSUME NEW k \in H!Successors(H!Finish) PROVE FALSE
    <3>1. k \in 1..Len(due) /\ after[k] = H!Finish /\ after[k] # 0
      BY <1>1 DEF H!Successors, H!Edges
    <3>2. due[k] <= due[H!Finish]
      BY <3>1, FinishFields
    <3>3. QED
      BY <2>1, <3>1, <3>2
  <2>4. QED
    BY <2>2, <2>3
<1>6. QED
  BY <1>2, <1>3, <1>5 DEF H!AnalysisAgrees, path

-----------------------------------------------------------------------------
(* Projection: the forecast's verdict, and progress *)

LEMMA ProjectionStep == ASSUME J!ConstantsOK, J!TypeOK, [J!Next]_J!vars PROVE J!TypeOK'
<1>1. CASE UNCHANGED J!vars
  BY <1>1 DEF J!vars, J!TypeOK
<1>2. ASSUME NEW d \in J!Days, NEW done \in BOOLEAN, J!Add(d, done) PROVE J!TypeOK'
  <2> DEFINE row == [due |-> d, done |-> done]
  <2>1. row \in J!Row
    BY DEF J!Row
  <2>2. milestones' = Append(milestones, row) /\ history' = history /\ today' = today
        /\ Len(milestones) < MaxMilestones
    BY <1>2 DEF J!Add
  <2> HIDE DEF row
  <2>3. milestones \in Seq(J!Row) /\ Len(milestones) \in Nat /\ MaxMilestones \in Nat
    BY DEF J!TypeOK, J!ConstantsOK
  <2>4. milestones' \in Seq(J!Row) /\ Len(milestones') = Len(milestones) + 1
    BY <2>1, <2>2, <2>3
  <2>5. QED
    BY <2>2, <2>3, <2>4 DEF J!TypeOK
<1>3. QED
  BY <1>1, <1>2 DEF J!Next

LEMMA ProjectionTyped == ASSUME J!ConstantsOK PROVE J!Spec => []J!TypeOK
<1>1. J!Init => J!TypeOK
  BY DEF J!Init, J!TypeOK, J!ConstantsOK
<1>2. QED
  BY <1>1, ProjectionStep, PTL DEF J!Spec

\* The quotient that is rounded up is at least as large as the quotient, and
\* below a bound that the quotient is below, however the fractions slip.
LEMMA CeilingBounds ==
    ASSUME NEW n \in Nat, NEW d \in Nat, d > 0, NEW slip \in {0, 1}
    PROVE  /\ J!Ceiling(n, d, slip) \in Nat
           /\ n <= J!Ceiling(n, d, slip) * d
           /\ \A c \in Nat : n < c * d => J!Ceiling(n, d, slip) <= c
<1> DEFINE q == (n + d - 1) \div d
           extra == IF n % d = 0 THEN slip ELSE 0
<1>1. q \in Nat /\ q * d <= n + d - 1 /\ n + d - 1 < q * d + d
  <2>1. n + d - 1 \in Nat
    OBVIOUS
  <2>2. QED
    BY <2>1, DivBounds
<1>2. J!Ceiling(n, d, slip) = q + extra /\ extra \in {0, 1}
  BY DEF J!Ceiling
<1>3. q * d \in Nat /\ (q + 1) * d = q * d + d
  <2> HIDE DEF q
  <2>1. QED
    BY <1>1
<1>4. extra = 1 => n = q * d
  <2> SUFFICES ASSUME n % d = 0 PROVE n = q * d
    BY DEF extra
  <2> DEFINE p == n \div d
  <2>1. p \in Nat /\ n = p * d
    <3>1. p \in Nat /\ n = d * p + (n % d)
      OBVIOUS
    <3> HIDE DEF p
    <3>2. d * p = p * d /\ p * d \in Nat
      BY <3>1
    <3>3. QED
      BY <3>1, <3>2
  <2> HIDE DEF p, q
  <2>2. p * d < q * d + d /\ q * d < p * d + d
    BY <1>1, <1>3, <2>1
  <2>3. p <= q /\ q <= p
    BY <1>1, <2>1, <2>2, MulLess
  <2>4. QED
    BY <1>1, <2>1, <2>3
<1> HIDE DEF q, extra
<1>5. n <= (q + extra) * d
  <2>1. (q + extra) * d = q * d \/ (q + extra) * d = q * d + d
    BY <1>1, <1>2, <1>3
  <2>2. QED
    BY <1>1, <1>3, <2>1
<1>6. ASSUME NEW c \in Nat, n < c * d PROVE q + extra <= c
  <2>1. c * d \in Nat
    OBVIOUS
  <2>2. CASE extra = 0
    <3>1. q * d < c * d + d
      BY <1>1, <1>3, <1>6, <2>1
    <3>2. q <= c
      BY <1>1, <3>1, MulLess
    <3>3. QED
      BY <1>1, <2>2, <3>2
  <2>3. CASE extra = 1
    <3>1. (q + 1) * d < c * d + d
      BY <1>1, <1>3, <1>4, <1>6, <2>1, <2>3
    <3>2. q + 1 <= c
      BY <1>1, <3>1, MulLess
    <3>3. QED
      BY <2>3, <3>2
  <2>4. QED
    BY <1>2, <2>2, <2>3
<1>7. QED
  BY <1>1, <1>2, <1>5, <1>6

\* What the forecast reads of a roadmap with milestones.
LEMMA ForecastFields ==
    ASSUME J!ConstantsOK, J!TypeOK, NEW ms \in Seq(J!Row), ms # <<>>
    PROVE  /\ Len(ms) \in Nat /\ Len(ms) > 0 /\ DOMAIN ms = 1..Len(ms)
           /\ J!Open(ms) \in SUBSET (1..Len(ms))
           /\ IsFiniteSet(J!Open(ms))
           /\ J!Remaining(ms) = Cardinality(J!Open(ms))
           /\ J!Remaining(ms) \in 0..Len(ms)
           /\ J!DoneOf(ms) = Len(ms) - J!Remaining(ms)
           /\ J!PlannedEnd(ms) \in Nat
           /\ \A i \in 1..Len(ms) : ms[i].due \in Nat /\ ms[i].due <= J!PlannedEnd(ms)
           /\ J!Max({1, today - J!Start(ms)}) \in Nat \ {0}
           /\ today \in Nat /\ MaxProjection \in Nat \ {0}
<1>1. Len(ms) \in Nat /\ Len(ms) > 0 /\ DOMAIN ms = 1..Len(ms)
  OBVIOUS
<1> DEFINE n == Len(ms)
           open == J!Open(ms)
           dates == {ms[i].due : i \in DOMAIN ms}
<1>2. /\ \A i \in 1..n : ms[i].due \in 0..MaxDay
      /\ MaxDay \in Nat /\ MaxProjection \in Nat \ {0} /\ today \in Nat
  <2>1. \A i \in 1..n : ms[i] \in J!Row
    BY <1>1
  <2>2. \A w \in J!Row : w.due \in 0..MaxDay
    BY DEF J!Row, J!Days
  <2>3. MaxDay \in Nat /\ MaxProjection \in Nat \ {0} /\ today \in 0..MaxDay
    BY DEF J!Days, J!ConstantsOK, J!TypeOK
  <2>4. QED
    BY <2>1, <2>2, <2>3
<1>3. open \in SUBSET (1..n)
  BY <1>1 DEF J!Open
<1> HIDE DEF n, open
<1>4. IsFiniteSet(1..n) /\ Cardinality(1..n) = n
  BY <1>1, FS_Interval DEF n
<1>5. IsFiniteSet(open) /\ Cardinality(open) \in Nat /\ Cardinality(open) <= n
  BY <1>3, <1>4, FS_Subset, FS_CardinalityType
<1>6. J!Remaining(ms) = Cardinality(open)
  BY DEF J!Remaining, open, J!Cardinality, Cardinality
<1>7. /\ dates \in SUBSET (0..MaxDay) /\ dates \in SUBSET Nat /\ dates # {}
      /\ \A i \in 1..n : ms[i].due \in dates
  BY <1>1, <1>2, SMTT(30) DEF n
<1>8. J!Start(ms) = J!Min(dates) /\ J!PlannedEnd(ms) = J!Max(dates)
  BY DEF J!Start, J!PlannedEnd
<1> HIDE DEF dates
<1>9. J!Max(dates) \in dates /\ \A x \in dates : x <= J!Max(dates)
  <2>1. \E x \in dates : \A y \in dates : y <= x
    BY <1>2, <1>7, GreatestNat
  <2>2. \E x \in dates : \A y \in dates : x >= y
    BY <1>7, <2>1
  <2>3. J!Max(dates) \in dates /\ \A y \in dates : J!Max(dates) >= y
    BY <2>2, Zenon DEF J!Max
  <2>4. QED
    BY <1>7, <2>3
<1>10. J!Min(dates) \in dates
  <2>1. \E x \in dates : \A y \in dates : x <= y
    BY <1>7, LeastNat
  <2>2. QED
    BY <2>1, Zenon DEF J!Min
<1>11. J!Max({1, today - J!Min(dates)}) \in Nat \ {0}
  <2> DEFINE gone == today - J!Min(dates)
  <2>1. gone \in Int
    <3>1. J!Min(dates) \in Nat
      BY <1>7, <1>10
    <3>2. QED
      BY <1>2, <3>1
  <2> HIDE DEF gone
  <2>2. \E x \in {1, gone} : \A y \in {1, gone} : x >= y
    BY <2>1
  <2>3. J!Max({1, gone}) \in {1, gone} /\ J!Max({1, gone}) >= 1
    BY <2>2, Zenon DEF J!Max
  <2>4. QED
    BY <2>1, <2>3 DEF gone
<1>12. J!DoneOf(ms) = n - J!Remaining(ms)
  BY DEF J!DoneOf, n
<1>13. J!PlannedEnd(ms) \in Nat /\ \A i \in 1..n : ms[i].due \in Nat /\ ms[i].due <= J!PlannedEnd(ms)
  <2>1. J!Max(dates) \in Nat
    BY <1>7, <1>9
  <2>2. \A i \in 1..n : ms[i].due \in Nat /\ ms[i].due <= J!Max(dates)
    BY <1>7, <1>9
  <2>3. QED
    BY <1>8, <2>1, <2>2
<1>14. J!Remaining(ms) \in 0..n
  BY <1>1, <1>5, <1>6 DEF n
<1>15. QED
  BY <1>1, <1>2, <1>3, <1>5, <1>6, <1>8, <1>11, <1>12, <1>13, <1>14 DEF n, open

\* The days to the end are the quotient of two counts, which depend on nothing
\* but the milestones that are left, and the bound keeps them in range.
Work(ms) ==
    IF J!HasVelocity(ms) THEN J!Remaining(ms) * history.days
    ELSE J!Max({1, today - J!Start(ms)}) * J!Remaining(ms)

Pace(ms) == IF J!HasVelocity(ms) THEN J!Gained(ms) ELSE J!DoneOf(ms)

LEMMA HistoryFields ==
    ASSUME J!ConstantsOK, J!TypeOK
    PROVE  history # None =>
              history.days \in Nat /\ history.days >= 1 /\ history.done \in Nat
<1>1. history \in {None} \cup [days : 1..MaxDay, done : 0..MaxMilestones]
      /\ MaxDay \in Nat /\ MaxMilestones \in Nat
  BY DEF J!TypeOK, J!Histories, J!Snapshots, J!ConstantsOK
<1>2. QED
  BY <1>1

Nearer(days) == J!Min({days, MaxProjection})

LEMMA ProjectedFields ==
    ASSUME J!ConstantsOK, J!TypeOK, NEW ms \in Seq(J!Row), ms # <<>>, NEW slip \in {0, 1},
           J!Projected(ms, slip) # None
    PROVE  \/ J!Remaining(ms) = 0 /\ J!Projected(ms, slip) = today
           \/ /\ J!Remaining(ms) > 0
              /\ Work(ms) \in Nat /\ Pace(ms) \in Nat /\ Pace(ms) > 0
              /\ J!Projected(ms, slip) = today + Nearer(J!Ceiling(Work(ms), Pace(ms), slip))
<1>1. /\ J!Remaining(ms) \in 0..Len(ms) /\ J!DoneOf(ms) = Len(ms) - J!Remaining(ms)
      /\ J!Max({1, today - J!Start(ms)}) \in Nat \ {0} /\ Len(ms) \in Nat
  BY ForecastFields
<1>2. J!HasVelocity(ms) => history.days \in Nat /\ J!Gained(ms) \in Nat /\ J!Gained(ms) > 0
  BY <1>1, HistoryFields DEF J!HasVelocity, J!Gained
<1>3. CASE J!Remaining(ms) = 0
  BY <1>3 DEF J!Projected, J!Basis
<1>4. CASE J!Remaining(ms) # 0
  <2>1. J!Remaining(ms) > 0
    BY <1>1, <1>4
  <2>2. J!HasVelocity(ms) \/ J!DoneOf(ms) # 0
    BY <1>4 DEF J!Projected, J!Basis
  <2>3. J!Projected(ms, slip) = today + J!Min({J!DaysToFinish(ms, slip), MaxProjection})
    BY <1>4 DEF J!Projected, J!Basis
  <2>4. J!DaysToFinish(ms, slip) = J!Ceiling(Work(ms), Pace(ms), slip)
    BY DEF J!DaysToFinish, Work, Pace
  <2>5. Pace(ms) \in Nat /\ Pace(ms) > 0
    BY <1>1, <1>2, <2>2 DEF Pace
  <2>6. Work(ms) \in Nat
    <3> DEFINE gone == J!Max({1, today - J!Start(ms)})
               left == J!Remaining(ms)
    <3>1. gone \in Nat /\ left \in Nat
      BY <1>1
    <3>2. Work(ms) = IF J!HasVelocity(ms) THEN left * history.days ELSE gone * left
      BY DEF Work
    <3> HIDE DEF gone, left
    <3>3. QED
      BY <1>2, <3>1, <3>2
  <2>7. QED
    BY <2>1, <2>3, <2>4, <2>5, <2>6 DEF Nearer
<1>5. QED
  BY <1>3, <1>4

LEMMA NearerBounds ==
    ASSUME MaxProjection \in Nat
    PROVE  \A a \in Nat : /\ Nearer(a) \in Nat
                          /\ \A b \in Nat : a <= b => Nearer(a) <= Nearer(b)
<1>1. ASSUME NEW a \in Nat PROVE Nearer(a) = IF a <= MaxProjection THEN a ELSE MaxProjection
  <2>1. \E x \in {a, MaxProjection} : \A y \in {a, MaxProjection} : x <= y
    OBVIOUS
  <2>2. /\ J!Min({a, MaxProjection}) \in {a, MaxProjection}
        /\ \A y \in {a, MaxProjection} : J!Min({a, MaxProjection}) <= y
    BY <2>1, Zenon DEF J!Min
  <2>3. QED
    BY <2>2 DEF Nearer
<1>2. QED
  BY <1>1

LEMMA VerdictAll == ASSUME J!ConstantsOK, J!TypeOK PROVE J!VerdictAgrees
<1> SUFFICES ASSUME NEW slip \in {0, 1}
             PROVE  /\ J!OffTrack(milestones, slip) => J!AtRisk(milestones, slip) = J!Open(milestones)
                    /\ J!Projected(milestones, slip) # None => J!Projected(milestones, slip) >= today
  BY DEF J!VerdictAgrees
<1>1. milestones \in Seq(J!Row) /\ today \in Nat /\ MaxProjection \in Nat
  BY DEF J!TypeOK, J!Days, J!ConstantsOK
<1>2. CASE milestones = <<>>
  <2>1. J!Projected(milestones, slip) = None
    BY <1>2 DEF J!Projected, J!Basis
  <2>2. QED
    BY <2>1 DEF J!OffTrack
<1>3. CASE milestones # <<>> /\ J!Projected(milestones, slip) # None
  <2>1. J!Projected(milestones, slip) >= today /\ J!Projected(milestones, slip) \in Nat
    <3>1. CASE J!Remaining(milestones) = 0 /\ J!Projected(milestones, slip) = today
      BY <1>1, <3>1
    <3>2. CASE J!Projected(milestones, slip) # today
      <4> DEFINE days == J!Ceiling(Work(milestones), Pace(milestones), slip)
      <4>1. /\ Work(milestones) \in Nat /\ Pace(milestones) \in Nat /\ Pace(milestones) > 0
            /\ J!Projected(milestones, slip) = today + Nearer(days)
        BY <1>1, <1>3, <3>2, ProjectedFields
      <4>2. days \in Nat
        BY <4>1, CeilingBounds
      <4> HIDE DEF days
      <4>3. Nearer(days) \in Nat
        BY <1>1, <4>2, NearerBounds
      <4>4. QED
        BY <1>1, <4>1, <4>3
    <3>3. QED
      BY <1>1, <3>2
  <2>2. ASSUME J!OffTrack(milestones, slip) PROVE J!AtRisk(milestones, slip) = J!Open(milestones)
    <3>1. J!Projected(milestones, slip) > J!PlannedEnd(milestones)
      BY <2>2 DEF J!OffTrack
    <3>2. \A i \in J!Open(milestones) : milestones[i].due < J!Projected(milestones, slip)
      <4>1. /\ J!PlannedEnd(milestones) \in Nat /\ J!Open(milestones) \in SUBSET (1..Len(milestones))
            /\ \A i \in 1..Len(milestones) :
                  milestones[i].due \in Nat /\ milestones[i].due <= J!PlannedEnd(milestones)
        BY <1>1, <1>3, ForecastFields
      <4>2. QED
        BY <2>1, <3>1, <4>1
    <3>3. QED
      BY <1>3, <3>2 DEF J!AtRisk
  <2>3. QED
    BY <2>1, <2>2
<1>4. QED
  BY <1>2, <1>3 DEF J!OffTrack

\* A milestone that is finished leaves one less to do, on the same dates.
LEMMA Advanced ==
    ASSUME J!ConstantsOK, J!TypeOK, NEW i \in J!Open(milestones)
    PROVE  LET ms == [milestones EXCEPT ![i].done = TRUE]
           IN  /\ ms \in Seq(J!Row) /\ ms # <<>> /\ milestones # <<>>
               /\ J!Remaining(ms) = J!Remaining(milestones) - 1
               /\ J!DoneOf(ms) = J!DoneOf(milestones) + 1
               /\ J!Start(ms) = J!Start(milestones)
<1> DEFINE row == [milestones[i] EXCEPT !.done = TRUE]
           ms == [milestones EXCEPT ![i].done = TRUE]
           n == Len(milestones)
<1>1. /\ milestones \in Seq(J!Row) /\ n \in Nat /\ DOMAIN milestones = 1..n
      /\ i \in 1..n /\ ~milestones[i].done /\ milestones # <<>>
  BY DEF J!TypeOK, J!Open
<1>2. row \in J!Row /\ row.due = milestones[i].due /\ row.done
  <2>1. milestones[i] \in J!Row
    BY <1>1
  <2>2. QED
    BY <2>1 DEF J!Row
<1>3. /\ ms \in Seq(J!Row) /\ ms # <<>> /\ Len(ms) = n /\ DOMAIN ms = 1..n
      /\ \A k \in 1..n : ms[k] = IF k = i THEN row ELSE milestones[k]
  <2>1. ms = [milestones EXCEPT ![i] = row]
    OBVIOUS
  <2> HIDE DEF row, ms
  <2>2. QED
    BY <1>1, <1>2, <2>1
<1> HIDE DEF row, ms
<1>4. J!Open(ms) = J!Open(milestones) \ {i}
  BY <1>1, <1>2, <1>3 DEF J!Open
<1>5. {ms[k].due : k \in DOMAIN ms} = {milestones[k].due : k \in DOMAIN milestones}
  <2>1. \A k \in 1..n : ms[k].due = milestones[k].due
    BY <1>2, <1>3
  <2>2. QED
    BY <1>1, <1>3, <2>1
<1>6. J!Remaining(ms) = J!Remaining(milestones) - 1 /\ J!Remaining(milestones) \in Nat
  <2>1. /\ J!Remaining(ms) = Cardinality(J!Open(ms))
        /\ J!Remaining(milestones) = Cardinality(J!Open(milestones))
        /\ IsFiniteSet(J!Open(milestones))
        /\ J!Remaining(milestones) \in 0..Len(milestones)
    BY <1>1, <1>3, ForecastFields
  <2>2. Cardinality(J!Open(milestones) \ {i}) = Cardinality(J!Open(milestones)) - 1
    BY <2>1, FS_RemoveElement
  <2>3. J!Remaining(milestones) \in Nat
    BY <1>1, <2>1
  <2>4. QED
    BY <1>4, <2>1, <2>2, <2>3
<1>7. J!DoneOf(ms) = J!DoneOf(milestones) + 1
  BY <1>1, <1>3, <1>6 DEF J!DoneOf
<1>8. QED
  BY <1>1, <1>3, <1>5, <1>6, <1>7 DEF J!Start, ms

LEMMA ProgressAll == ASSUME J!ConstantsOK, J!TypeOK PROVE J!ProgressNeverDelays
<1> SUFFICES ASSUME NEW i \in J!Open(milestones), NEW s1 \in {0, 1}, NEW s2 \in {0, 1},
                    J!Projected(milestones, s1) # None,
                    J!HasVelocity([milestones EXCEPT ![i].done = TRUE]) =>
                        \/ J!HasVelocity(milestones)
                        \/ J!Remaining([milestones EXCEPT ![i].done = TRUE]) = 0
             PROVE  J!Projected([milestones EXCEPT ![i].done = TRUE], s2)
                        <= J!Projected(milestones, s1)
  BY DEF J!ProgressNeverDelays
<1> DEFINE ms == [milestones EXCEPT ![i].done = TRUE]
           left == J!Remaining(milestones)
           finished == J!DoneOf(milestones)
           gone == J!Max({1, today - J!Start(milestones)})
           first == J!Ceiling(Work(milestones), Pace(milestones), s1)
           later == J!Ceiling(Work(ms), Pace(ms), s2)
<1>1. /\ ms \in Seq(J!Row) /\ ms # <<>> /\ milestones # <<>> /\ milestones \in Seq(J!Row)
      /\ J!Remaining(ms) = left - 1 /\ J!DoneOf(ms) = finished + 1
      /\ J!Start(ms) = J!Start(milestones)
  BY Advanced DEF J!TypeOK
<1> HIDE DEF ms
<1>2. /\ left \in Nat /\ finished \in Nat /\ gone \in Nat /\ gone > 0 /\ J!Remaining(ms) \in Nat
      /\ today \in Nat /\ MaxProjection \in Nat
  <2>1. /\ J!Remaining(milestones) \in 0..Len(milestones) /\ Len(milestones) \in Nat
        /\ J!DoneOf(milestones) = Len(milestones) - J!Remaining(milestones)
        /\ gone \in Nat \ {0} /\ today \in Nat /\ MaxProjection \in Nat \ {0}
    BY <1>1, ForecastFields
  <2>2. J!Remaining(ms) \in 0..Len(ms) /\ Len(ms) \in Nat
    BY <1>1, ForecastFields
  <2> HIDE DEF gone
  <2>3. QED
    BY <2>1, <2>2
<1>3. left > 0
  BY <1>1, <1>2
<1>4. /\ Work(milestones) \in Nat /\ Pace(milestones) \in Nat /\ Pace(milestones) > 0
      /\ J!Projected(milestones, s1) = today + Nearer(first)
  BY <1>1, <1>2, <1>3, ProjectedFields
<1>5. first \in Nat /\ Work(milestones) <= first * Pace(milestones)
  BY <1>4, CeilingBounds
<1>6. /\ Work(milestones) = IF J!HasVelocity(milestones) THEN left * history.days ELSE gone * left
      /\ Pace(milestones) = IF J!HasVelocity(milestones) THEN J!Gained(milestones) ELSE finished
      /\ Work(ms) = IF J!HasVelocity(ms) THEN (left - 1) * history.days ELSE gone * (left - 1)
      /\ Pace(ms) = IF J!HasVelocity(ms) THEN J!Gained(ms) ELSE finished + 1
  BY <1>1 DEF Work, Pace
<1>7. J!HasVelocity(milestones) =>
         /\ history.days \in Nat /\ history.days >= 1
         /\ J!Gained(milestones) \in Nat /\ J!Gained(ms) = J!Gained(milestones) + 1
         /\ J!HasVelocity(ms)
  <2> SUFFICES ASSUME J!HasVelocity(milestones)
               PROVE  /\ history.days \in Nat /\ history.days >= 1
                      /\ J!Gained(milestones) \in Nat
                      /\ J!Gained(ms) = J!Gained(milestones) + 1
                      /\ J!HasVelocity(ms)
    OBVIOUS
  <2>1. history # None /\ J!Gained(milestones) > 0
    BY DEF J!HasVelocity
  <2>2. history.days \in Nat /\ history.days >= 1 /\ history.done \in Nat
    BY <2>1, HistoryFields
  <2>3. /\ J!Gained(milestones) = finished - history.done
        /\ J!Gained(ms) = (finished + 1) - history.done
    BY <1>1 DEF J!Gained
  <2> HIDE DEF finished
  <2>4. J!Gained(milestones) \in Nat /\ J!Gained(ms) = J!Gained(milestones) + 1
    BY <1>2, <2>1, <2>2, <2>3
  <2>5. J!HasVelocity(ms)
    BY <2>1, <2>4 DEF J!HasVelocity
  <2>6. QED
    BY <2>2, <2>4, <2>5
<1>8. CASE left = 1
  <2>1. J!Projected(ms, s2) = today
    BY <1>1, <1>8 DEF J!Projected, J!Basis
  <2>2. Nearer(first) \in Nat
    BY <1>2, <1>5, NearerBounds
  <2>3. QED
    BY <1>2, <1>4, <2>1, <2>2 DEF ms
<1>9. CASE left > 1
  <2> HIDE DEF left, finished, gone, first
  <2>1. Work(ms) \in Nat /\ Pace(ms) \in Nat /\ Pace(ms) > 0 /\ Work(ms) < first * Pace(ms)
    <3>1. CASE J!HasVelocity(milestones)
      <4> DEFINE a == left * history.days
                 b == (left - 1) * history.days
                 g == J!Gained(milestones)
                 c == first * g
      <4>1. a \in Nat /\ b \in Nat /\ b < a
        <5>1. (left - 1) * history.days = left * history.days - history.days
          <6>1. \A k, d \in Nat : (k - 1) * d = k * d - d
            OBVIOUS
          <6>2. QED
            BY <1>2, <1>7, <3>1, <6>1
        <5>2. left * history.days \in Nat /\ (left - 1) * history.days \in Nat
          <6>1. \A k \in Nat : k * history.days \in Nat
            BY <1>7, <3>1
          <6>2. left \in Nat /\ left - 1 \in Nat
            BY <1>2, <1>9
          <6>3. QED
            BY <6>1, <6>2
        <5>3. QED
          BY <1>7, <3>1, <5>1, <5>2
      <4>2. /\ Work(milestones) = a /\ Pace(milestones) = g /\ g \in Nat
            /\ Work(ms) = b /\ Pace(ms) = g + 1
        BY <1>6, <1>7, <3>1
      <4> HIDE DEF a, b, g
      <4>3. c \in Nat /\ first * (g + 1) = c + first
        BY <1>5, <4>2
      <4>4. a <= c
        BY <1>5, <4>2
      <4>5. Work(ms) < first * Pace(ms)
        <5> HIDE DEF c
        <5>1. b < c + first
          BY <1>5, <4>1, <4>3, <4>4
        <5>2. QED
          BY <4>2, <4>3, <5>1
      <4>6. QED
        BY <4>1, <4>2, <4>5
    <3>2. CASE ~J!HasVelocity(milestones)
      <4>0. ~J!HasVelocity(ms)
        BY <1>1, <1>2, <1>9, <3>2 DEF left, ms
      <4> DEFINE a == gone * left
                 b == gone * (left - 1)
                 c == first * finished
      <4>1. a \in Nat /\ b \in Nat /\ b < a
        <5>1. gone * (left - 1) = gone * left - gone
          BY <1>2
        <5>2. gone * left \in Nat /\ gone * (left - 1) \in Nat
          BY <1>2, <1>9
        <5>3. QED
          BY <1>2, <5>1, <5>2
      <4>2. c \in Nat /\ first * (finished + 1) = c + first
        BY <1>2, <1>5
      <4>3. a <= c /\ Work(ms) = b /\ Pace(ms) = finished + 1
        BY <1>5, <1>6, <3>2, <4>0
      <4>4. Work(ms) < first * Pace(ms)
        <5> HIDE DEF a, b, c
        <5>1. b < c + first
          BY <1>5, <4>1, <4>2, <4>3
        <5>2. QED
          BY <4>2, <4>3, <5>1
      <4>5. QED
        BY <1>2, <4>1, <4>3, <4>4
    <3>3. QED
      BY <3>1, <3>2
  <2>2. later \in Nat /\ later <= first
    BY <1>5, <2>1, CeilingBounds
  <2>3. J!Projected(ms, s2) = today + Nearer(later)
    <3>1. J!Remaining(ms) # 0 /\ (J!HasVelocity(ms) \/ J!DoneOf(ms) # 0)
      BY <1>1, <1>2, <1>9 DEF left, finished
    <3>2. J!Projected(ms, s2) = today + J!Min({J!DaysToFinish(ms, s2), MaxProjection})
      BY <1>1, <3>1 DEF J!Projected, J!Basis
    <3>3. J!DaysToFinish(ms, s2) = later
      BY DEF J!DaysToFinish, Work, Pace
    <3>4. QED
      BY <3>2, <3>3 DEF Nearer
  <2> HIDE DEF later
  <2>4. Nearer(later) \in Nat /\ Nearer(first) \in Nat /\ Nearer(later) <= Nearer(first)
    BY <1>2, <1>5, <2>2, NearerBounds
  <2>5. QED
    BY <1>2, <1>4, <2>3, <2>4 DEF ms
<1>10. QED
  BY <1>2, <1>3, <1>8, <1>9

-----------------------------------------------------------------------------
(* Completions: the odds and the dates of a simulation agree *)

Ascending(s) == \A i, j \in 1..Len(s) : i <= j => s[i] <= s[j]

LEMMA CompletionsStep == ASSUME L!ConstantsOK, L!TypeOK, [L!Next]_L!vars PROVE L!TypeOK'
<1>1. CASE UNCHANGED L!vars
  BY <1>1 DEF L!vars, L!TypeOK
<1>2. ASSUME NEW days \in (1..Horizon) \cup {L!Never}, L!Run(days) PROVE L!TypeOK'
  <2>1. completion' = Append(completion, days) /\ planned' = planned
        /\ Len(completion) < MaxRuns
    BY <1>2 DEF L!Run
  <2> DEFINE lengths == (1..Horizon) \cup {L!Never}
  <2>2. completion \in Seq(lengths) /\ Len(completion) \in Nat /\ MaxRuns \in Nat
    BY DEF L!TypeOK, L!ConstantsOK
  <2>3. days \in lengths
    OBVIOUS
  <2> HIDE DEF lengths
  <2>4. completion' \in Seq(lengths) /\ Len(completion') = Len(completion) + 1
    BY <2>1, <2>2, <2>3
  <2>5. QED
    BY <2>1, <2>2, <2>4 DEF L!TypeOK, lengths
<1>3. QED
  BY <1>1, <1>2 DEF L!Next

LEMMA CompletionsTyped == ASSUME L!ConstantsOK PROVE L!Spec => []L!TypeOK
<1>1. L!Init => L!TypeOK
  BY DEF L!Init, L!TypeOK, L!ConstantsOK
<1>2. QED
  BY <1>1, CompletionsStep, PTL DEF L!Spec

RunsInv == L!TypeOK /\ Ascending(completion)

LEMMA RunsInit == ASSUME L!ConstantsOK, L!Init PROVE RunsInv
  BY DEF L!Init, L!ConstantsOK, RunsInv, L!TypeOK, Ascending

LEMMA RunsStep == ASSUME L!ConstantsOK, RunsInv, [L!Next]_L!vars PROVE RunsInv'
<1>1. L!TypeOK'
  BY CompletionsStep DEF RunsInv
<1>2. CASE UNCHANGED L!vars
  BY <1>1, <1>2 DEF L!vars, RunsInv, Ascending
<1>3. ASSUME NEW days \in (1..Horizon) \cup {L!Never}, L!Run(days) PROVE Ascending(completion)'
  <2> DEFINE n == Len(completion)
             lengths == (1..Horizon) \cup {L!Never}
  <2>1. /\ completion \in Seq(lengths) /\ n \in Nat /\ DOMAIN completion = 1..n
        /\ days \in lengths /\ \A x \in lengths : x \in Nat
    BY DEF RunsInv, L!TypeOK, L!ConstantsOK, L!Never
  <2>2. completion' = Append(completion, days) /\ \A i \in 1..n : completion[i] <= days
    BY <1>3, <2>1 DEF L!Run
  <2> HIDE DEF lengths
  <2>3. /\ Len(completion') = n + 1 /\ completion'[n + 1] = days
        /\ \A i \in 1..n : completion'[i] = completion[i]
    BY <2>1, <2>2
  <2>4. QED
    BY <2>1, <2>2, <2>3 DEF RunsInv, Ascending
<1>4. QED
  BY <1>1, <1>2, <1>3 DEF L!Next, RunsInv

LEMMA RunsInvariance == ASSUME L!ConstantsOK PROVE L!Spec => []RunsInv
  BY RunsInit, RunsStep, PTL DEF L!Spec

\* The ranks between which a date lies, and the tenths above the lower.
LowerRun(tenths, n) == 1 + (tenths * (n - 1)) \div 10
UpperRun(tenths, n) == 1 + (tenths * (n - 1) + 9) \div 10
TenthsOver(tenths, n) == (tenths * (n - 1)) % 10

LEMMA RunRanks ==
    ASSUME NEW n \in Nat, n > 0, NEW t \in 0..9
    PROVE  /\ LowerRun(t, n) \in 1..n /\ UpperRun(t, n) \in 1..n /\ TenthsOver(t, n) \in 0..9
           /\ t * (n - 1) = 10 * (LowerRun(t, n) - 1) + TenthsOver(t, n)
           /\ UpperRun(t, n) = IF TenthsOver(t, n) = 0 THEN LowerRun(t, n) ELSE LowerRun(t, n) + 1
<1> DEFINE r == t * (n - 1)
           q == r \div 10
           m == r % 10
           u == (r + 9) \div 10
<1>1. r \in Nat /\ r <= 9 * (n - 1)
  <2>1. t \in {0, 1, 2, 3, 4, 5, 6, 7, 8, 9}
    OBVIOUS
  <2>2. QED
    BY <2>1
<1> HIDE DEF r
<1>2. q \in Nat /\ m \in 0..9 /\ r = 10 * q + m
  BY <1>1
<1>3. u \in Nat /\ u * 10 <= r + 9 /\ r + 9 < u * 10 + 10
  BY <1>1, DivBounds
<1>4. LowerRun(t, n) = 1 + q /\ UpperRun(t, n) = 1 + u /\ TenthsOver(t, n) = m
  BY DEF LowerRun, UpperRun, TenthsOver, r
<1> HIDE DEF q, m, u
<1>5. u = IF m = 0 THEN q ELSE q + 1
  BY <1>1, <1>2, <1>3
<1>6. 1 + q \in 1..n /\ 1 + u \in 1..n
  BY <1>1, <1>2, <1>5
<1>7. r = 10 * ((1 + q) - 1) + m
  BY <1>2
<1>8. QED
  BY <1>2, <1>4, <1>5, <1>6, <1>7 DEF r

\* A date that the runs give lies between two of them.
LEMMA DateBetween ==
    ASSUME NEW lo \in Nat, NEW hi \in Nat, lo <= hi, NEW m \in 0..9
    PROVE  LET at == (10 * lo + (hi - lo) * m + 9) \div 10
           IN  /\ at \in Nat /\ lo <= at /\ at <= hi
               /\ \A k \in 0..9 : m <= k => at <= (10 * lo + (hi - lo) * k + 9) \div 10
<1> DEFINE gap == hi - lo
           at(k) == (10 * lo + gap * k + 9) \div 10
<1>1. gap \in Nat /\ hi = lo + gap
  OBVIOUS
<1> HIDE DEF gap
<1>2. \A k \in 0..9 : gap * k \in Nat /\ gap * k <= 9 * gap
  <2> TAKE k \in 0..9
  <2>1. k \in {0, 1, 2, 3, 4, 5, 6, 7, 8, 9}
    OBVIOUS
  <2>2. QED
    BY <1>1, <2>1
<1>3. \A k \in 0..9 : m <= k => gap * m <= gap * k
  <2> TAKE k \in 0..9
  <2>1. k \in {0, 1, 2, 3, 4, 5, 6, 7, 8, 9} /\ m \in {0, 1, 2, 3, 4, 5, 6, 7, 8, 9}
    OBVIOUS
  <2>2. QED
    BY <1>1, <2>1
<1>4. \A k \in 0..9 : /\ at(k) \in Nat /\ at(k) * 10 <= 10 * lo + gap * k + 9
                      /\ 10 * lo + gap * k + 9 < at(k) * 10 + 10
  <2> TAKE k \in 0..9
  <2> DEFINE x == 10 * lo + gap * k + 9
  <2>1. x \in Nat
    BY <1>2
  <2> HIDE DEF x
  <2>2. x \div 10 \in Nat /\ (x \div 10) * 10 <= x /\ x < (x \div 10) * 10 + 10
    BY <2>1, DivBounds
  <2>3. QED
    BY <2>2 DEF x
<1> HIDE DEF at
<1>5. at(m) \in Nat /\ lo <= at(m) /\ at(m) <= hi
  BY <1>1, <1>2, <1>4
<1>6. \A k \in 0..9 : m <= k => at(m) <= at(k)
  <2> SUFFICES ASSUME NEW k \in 0..9, m <= k PROVE at(m) <= at(k)
    OBVIOUS
  <2> DEFINE x == gap * m
             y == gap * k
             a == at(m)
             b == at(k)
  <2>1. x \in Nat /\ y \in Nat /\ x <= y
    BY <1>2, <1>3
  <2>2. /\ a \in Nat /\ a * 10 <= 10 * lo + x + 9
        /\ b \in Nat /\ 10 * lo + y + 9 < b * 10 + 10
    BY <1>4
  <2> HIDE DEF x, y, a, b
  <2>3. a <= b
    BY <2>1, <2>2
  <2>4. QED
    BY <2>3 DEF a, b
<1>7. QED
  BY <1>5, <1>6 DEF at, gap

\* Of the runs up to some rank, and of those from it, there are as many.
LEMMA RunsCounted ==
    ASSUME NEW n \in Nat, NEW I \in SUBSET (1..n)
    PROVE  /\ Cardinality(I) \in Nat
           /\ \A k \in 0..n : (1..k) \subseteq I => Cardinality(I) >= k
           /\ \A k \in 0..n : I \subseteq 1..k => Cardinality(I) <= k
           /\ \A k \in 1..n : (k..n) \subseteq I => Cardinality(I) >= n - k + 1
           /\ \A k \in 0..n : I \subseteq (k + 1)..n => Cardinality(I) <= n - k
<1>1. \A a, b \in Int : a <= b + 1 => IsFiniteSet(a..b) /\ Cardinality(a..b) = b - a + 1
  BY FS_Interval
<1>2. IsFiniteSet(1..n)
  BY <1>1
<1>3. IsFiniteSet(I) /\ Cardinality(I) \in Nat
  BY <1>2, FS_Subset, FS_CardinalityType
<1>4. ASSUME NEW k \in 0..n, (1..k) \subseteq I PROVE Cardinality(I) >= k
  <2>1. 1 \in Int /\ k \in Int /\ 1 <= k + 1 /\ k - 1 + 1 = k
    OBVIOUS
  <2>2. Cardinality(1..k) = k
    BY <1>1, <2>1
  <2>3. QED
    BY <1>3, <1>4, <2>2, FS_Subset
<1>5. ASSUME NEW k \in 0..n, I \subseteq 1..k PROVE Cardinality(I) <= k
  <2>1. 1 \in Int /\ k \in Int /\ 1 <= k + 1 /\ k - 1 + 1 = k
    OBVIOUS
  <2>2. IsFiniteSet(1..k) /\ Cardinality(1..k) = k
    BY <1>1, <2>1
  <2>3. QED
    BY <1>5, <2>2, FS_Subset
<1>6. ASSUME NEW k \in 1..n, (k..n) \subseteq I PROVE Cardinality(I) >= n - k + 1
  <2>1. k \in Int /\ n \in Int /\ k <= n + 1
    OBVIOUS
  <2>2. Cardinality(k..n) = n - k + 1
    BY <1>1, <2>1
  <2>3. QED
    BY <1>3, <1>6, <2>2, FS_Subset
<1>7. ASSUME NEW k \in 0..n, I \subseteq (k + 1)..n PROVE Cardinality(I) <= n - k
  <2>1. k + 1 \in Int /\ n \in Int /\ k + 1 <= n + 1 /\ n - (k + 1) + 1 = n - k
    OBVIOUS
  <2>2. IsFiniteSet((k + 1)..n) /\ Cardinality((k + 1)..n) = n - k
    BY <1>1, <2>1
  <2>3. QED
    BY <1>7, <2>2, FS_Subset
<1>8. QED
  BY <1>3, <1>4, <1>5, <1>6, <1>7

\* What DateOf gives: Never, or a number between two runs.
LEMMA DateFields ==
    ASSUME L!ConstantsOK, RunsInv, completion # <<>>, NEW t \in 0..9
    PROVE  LET n == Len(completion)
               lo == completion[LowerRun(t, n)]
               hi == completion[UpperRun(t, n)]
           IN  /\ lo \in Nat /\ hi \in Nat /\ lo <= hi
               /\ L!DateOf(t) \in Nat
               /\ lo <= L!DateOf(t) /\ L!DateOf(t) <= hi
               /\ hi = L!Never <=> L!DateOf(t) = L!Never
               /\ hi # L!Never => L!DateOf(t) = (10 * lo + (hi - lo) * TenthsOver(t, n) + 9) \div 10
<1> DEFINE n == Len(completion)
           i == LowerRun(t, n)
           j == UpperRun(t, n)
           m == TenthsOver(t, n)
           lo == completion[i]
           hi == completion[j]
           at == (10 * lo + (hi - lo) * m + 9) \div 10
<1>1. /\ n \in Nat /\ n > 0 /\ DOMAIN completion = 1..n
      /\ \A k \in 1..n : completion[k] \in (1..Horizon) \cup {L!Never}
  BY DEF RunsInv, L!TypeOK
<1>2. i \in 1..n /\ j \in 1..n /\ m \in 0..9 /\ i <= j
  <2> HIDE DEF n
  <2>1. /\ i \in 1..n /\ j \in 1..n /\ m \in 0..9
        /\ j = IF m = 0 THEN i ELSE i + 1
    BY <1>1, RunRanks
  <2> HIDE DEF i, j, m
  <2>2. QED
    BY <1>1, <2>1
<1>3. L!DateOf(t) = IF hi = L!Never THEN L!Never ELSE at
  BY DEF L!DateOf, LowerRun, UpperRun, TenthsOver
<1>4. Horizon \in Nat /\ L!Never \in Nat /\ Horizon < L!Never
  BY DEF L!ConstantsOK, L!Never
<1>5. lo <= hi
  BY <1>1, <1>2 DEF RunsInv, Ascending
<1> HIDE DEF n, i, j, m
<1>6. lo \in (1..Horizon) \cup {L!Never} /\ hi \in (1..Horizon) \cup {L!Never}
  BY <1>1, <1>2
<1> HIDE DEF lo, hi
<1>7. lo \in Nat /\ hi \in Nat /\ (hi # L!Never => hi < L!Never)
  BY <1>4, <1>6
<1>8. at \in Nat /\ lo <= at /\ at <= hi
  BY <1>2, <1>5, <1>7, DateBetween
<1> HIDE DEF at
<1>9. QED
  <2>1. CASE hi = L!Never
    BY <1>3, <1>5, <1>7, <2>1 DEF n, i, j, m, lo, hi, at
  <2>2. CASE hi # L!Never
    <3>1. L!DateOf(t) = at /\ at # L!Never
      BY <1>3, <1>4, <1>7, <1>8, <2>2
    <3>2. QED
      BY <1>5, <1>7, <1>8, <2>2, <3>1 DEF n, i, j, m, lo, hi, at
  <2>3. QED
    BY <2>1, <2>2

LEMMA OddsAll == ASSUME L!ConstantsOK, RunsInv PROVE L!OddsAgree
<1> SUFFICES ASSUME completion # <<>>
             PROVE  /\ L!P50 <= planned => 2 * L!Hits >= Len(completion)
                    /\ 2 * L!Hits > Len(completion) => L!P50 <= planned
                    /\ L!P50 = L!Never <=> 2 * L!Unfinished >= Len(completion)
                    /\ L!P50 <= L!P90
  BY DEF L!OddsAgree
<1> DEFINE n == Len(completion)
           i == LowerRun(5, n)
           j == UpperRun(5, n)
           H2 == {k \in 1..n : completion[k] <= planned}
           U2 == {k \in 1..n : completion[k] = L!Never}
           hits == Cardinality(H2)
           unfinished == Cardinality(U2)
<1>1. /\ n \in Nat /\ n > 0 /\ DOMAIN completion = 1..n
      /\ \A k \in 1..n : completion[k] \in (1..Horizon) \cup {L!Never}
      /\ Ascending(completion) /\ planned \in Nat /\ planned <= Horizon + 1
  BY DEF RunsInv, L!TypeOK, L!ConstantsOK
<1>2. Horizon \in Nat /\ L!Never \in Nat /\ Horizon + 1 < L!Never
  BY DEF L!ConstantsOK, L!Never
<1>3. \A k \in 1..n : completion[k] \in Nat /\ completion[k] <= L!Never
  BY <1>1, <1>2
<1>4. L!Hits = hits /\ L!Unfinished = unfinished
  BY <1>1 DEF L!Hits, L!Unfinished, L!Cardinality, Cardinality
<1>5. \A k, x \in 1..n : k <= x => completion[k] <= completion[x]
  BY DEF Ascending, RunsInv
<1>6. /\ L!P50 \in Nat /\ completion[i] <= L!P50 /\ L!P50 <= completion[j]
      /\ (completion[j] = L!Never <=> L!P50 = L!Never)
      /\ completion[i] \in Nat /\ completion[j] \in Nat
  BY DateFields DEF L!P50
<1> HIDE DEF n, hits, unfinished
<1>7. /\ i \in 1..n /\ j \in 1..n
      /\ 2 * i >= n /\ 2 * (j - 1) <= n /\ 2 * (n - j + 1) >= n /\ 2 * (n - j) < n
  <2> DEFINE m == TenthsOver(5, n)
  <2>1. /\ i \in 1..n /\ j \in 1..n /\ m \in 0..9
        /\ 5 * (n - 1) = 10 * (i - 1) + m
        /\ j = IF m = 0 THEN i ELSE i + 1
    BY <1>1, RunRanks
  <2> HIDE DEF i, j, m
  <2>2. m = 0 \/ m = 5
    BY <1>1, <2>1
  <2>3. QED
    BY <1>1, <2>1, <2>2
<1> HIDE DEF i, j
<1>8. H2 \in SUBSET (1..n) /\ U2 \in SUBSET (1..n)
  OBVIOUS
<1>9. hits \in Nat /\ unfinished \in Nat
  <2> HIDE DEF H2, U2
  <2>1. QED
    BY <1>1, <1>8, RunsCounted DEF hits, unfinished
<1>10. ASSUME L!P50 <= planned PROVE 2 * hits >= n
  <2>1. (1..i) \subseteq H2
    <3>1. ASSUME NEW k \in 1..i PROVE k \in 1..n /\ completion[k] <= planned
      <4>1. k \in 1..n /\ k <= i
        BY <1>1, <1>7
      <4>2. completion[k] <= completion[i] /\ completion[k] \in Nat
        BY <1>3, <1>5, <1>7, <4>1
      <4>3. QED
        BY <1>1, <1>6, <1>10, <4>1, <4>2
    <3>2. QED
      BY <3>1
  <2> HIDE DEF H2
  <2>2. hits >= i
    BY <1>1, <1>7, <1>8, <2>1, RunsCounted DEF hits
  <2>3. QED
    BY <1>1, <1>7, <1>9, <2>2
<1>11. ASSUME 2 * hits > n PROVE L!P50 <= planned
  <2> SUFFICES ASSUME ~(L!P50 <= planned) PROVE FALSE
    OBVIOUS
  <2>1. H2 \subseteq 1..(j - 1)
    <3>1. ASSUME NEW k \in 1..n, completion[k] <= planned PROVE k \in 1..(j - 1)
      <4>1. ~(j <= k)
        <5>1. SUFFICES ASSUME j <= k PROVE FALSE
          OBVIOUS
        <5>2. completion[j] <= completion[k] /\ completion[k] \in Nat
          BY <1>3, <1>5, <1>7, <5>1
        <5>3. QED
          BY <1>1, <1>6, <3>1, <5>2
      <4>2. QED
        BY <1>1, <1>7, <4>1
    <3>2. QED
      BY <3>1
  <2> HIDE DEF H2
  <2>2. j - 1 \in 0..n
    BY <1>1, <1>7
  <2>3. hits <= j - 1
    BY <1>1, <1>8, <2>1, <2>2, RunsCounted DEF hits
  <2>4. QED
    BY <1>1, <1>7, <1>9, <1>11, <2>3
<1>12. ASSUME L!P50 = L!Never PROVE 2 * unfinished >= n
  <2>1. (j..n) \subseteq U2
    <3>1. ASSUME NEW k \in j..n PROVE k \in 1..n /\ completion[k] = L!Never
      <4>1. k \in 1..n /\ j <= k
        BY <1>1, <1>7
      <4>2. completion[j] <= completion[k] /\ completion[j] = L!Never
        BY <1>5, <1>6, <1>7, <1>12, <4>1
      <4>3. QED
        BY <1>2, <1>3, <4>1, <4>2
    <3>2. QED
      BY <3>1
  <2> HIDE DEF U2
  <2>2. unfinished >= n - j + 1
    BY <1>1, <1>7, <1>8, <2>1, RunsCounted DEF unfinished
  <2>3. QED
    BY <1>1, <1>7, <1>9, <2>2
<1>13. ASSUME 2 * unfinished >= n PROVE L!P50 = L!Never
  <2> SUFFICES ASSUME L!P50 # L!Never PROVE FALSE
    OBVIOUS
  <2>1. U2 \subseteq (j + 1)..n
    <3>1. ASSUME NEW k \in 1..n, completion[k] = L!Never PROVE k \in (j + 1)..n
      <4>1. ~(k <= j)
        <5>1. SUFFICES ASSUME k <= j PROVE FALSE
          OBVIOUS
        <5>2. completion[k] <= completion[j] /\ completion[j] # L!Never
          BY <1>5, <1>6, <1>7, <5>1
        <5>3. QED
          BY <1>2, <1>3, <1>7, <3>1, <5>2
      <4>2. QED
        BY <1>1, <1>7, <4>1
    <3>2. QED
      BY <3>1
  <2> HIDE DEF U2
  <2>2. j \in 0..n
    BY <1>1, <1>7
  <2>3. unfinished <= n - j
    BY <1>1, <1>8, <2>1, <2>2, RunsCounted DEF unfinished
  <2>4. QED
    BY <1>1, <1>7, <1>9, <1>13, <2>3
<1>14. L!P50 <= L!P90
  <2> DEFINE a == LowerRun(9, n)
             b == UpperRun(9, n)
             m == TenthsOver(9, n)
  <2>1. /\ L!P90 \in Nat /\ completion[a] <= L!P90 /\ L!P90 <= completion[b]
        /\ (completion[b] = L!Never <=> L!P90 = L!Never)
        /\ (completion[b] # L!Never =>
              L!P90 = (10 * completion[a] + (completion[b] - completion[a]) * m + 9) \div 10)
    BY DateFields DEF L!P90, n
  <2>2. /\ completion[j] # L!Never =>
              L!P50 = (10 * completion[i] + (completion[j] - completion[i]) * TenthsOver(5, n) + 9) \div 10
    BY DateFields DEF L!P50, n, i, j
  <2>3. /\ a \in 1..n /\ b \in 1..n /\ m \in 0..9
        /\ j <= a \/ (i = a /\ j = b /\ TenthsOver(5, n) <= m)
        /\ TenthsOver(5, n) \in 0..9 /\ i <= j /\ j <= b
    <3> DEFINE m5 == TenthsOver(5, n)
    <3>1. /\ a \in 1..n /\ b \in 1..n /\ m \in 0..9
          /\ 9 * (n - 1) = 10 * (a - 1) + m
          /\ b = IF m = 0 THEN a ELSE a + 1
      BY <1>1, RunRanks
    <3>2. /\ m5 \in 0..9
          /\ 5 * (n - 1) = 10 * (i - 1) + m5
          /\ j = IF m5 = 0 THEN i ELSE i + 1
      BY <1>1, RunRanks DEF i, j
    <3> HIDE DEF a, b, m, m5
    <3>3. CASE n = 2
      <4>1. i = 1 /\ m5 = 5 /\ a = 1 /\ m = 9
        BY <1>7, <3>1, <3>2, <3>3
      <4>2. QED
        BY <3>1, <3>2, <3>3, <4>1 DEF m5
    <3>4. CASE n # 2
      <4>1. j <= a /\ i <= j /\ j <= b
        BY <1>1, <1>7, <3>1, <3>2, <3>4
      <4>2. QED
        BY <3>1, <3>2, <4>1 DEF m5
    <3>5. QED
      BY <3>3, <3>4
  <2>4. /\ completion[a] \in Nat /\ completion[b] \in Nat /\ completion[b] <= L!Never
        /\ completion[j] <= completion[b]
    BY <1>3, <1>5, <1>7, <2>3
  <2> HIDE DEF a, b, m
  <2>5. CASE j <= a
    <3>1. completion[j] <= completion[a]
      BY <1>5, <1>7, <2>3, <2>5
    <3>2. QED
      BY <1>6, <2>1, <2>4, <3>1
  <2>6. CASE L!P90 = L!Never
    BY <1>2, <1>6, <1>3, <1>7, <2>6
  <2>7. CASE i = a /\ j = b /\ TenthsOver(5, n) <= m /\ L!P90 # L!Never
    <3> DEFINE lo == completion[i]
               hi == completion[j]
               m5 == TenthsOver(5, n)
    <3>1. /\ lo \in Nat /\ hi \in Nat /\ lo <= hi /\ m5 \in 0..9 /\ m \in 0..9 /\ m5 <= m
      BY <1>5, <1>6, <1>7, <2>3, <2>7
    <3>2. /\ L!P50 = (10 * lo + (hi - lo) * m5 + 9) \div 10
          /\ L!P90 = (10 * lo + (hi - lo) * m + 9) \div 10
      BY <2>1, <2>2, <2>7
    <3> HIDE DEF lo, hi, m5
    <3>3. QED
      BY <3>1, <3>2, DateBetween
  <2>8. QED
    BY <2>3, <2>5, <2>6, <2>7
<1>15. QED
  BY <1>4, <1>10, <1>11, <1>12, <1>13, <1>14 DEF n

=============================================================================
