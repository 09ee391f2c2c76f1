-------------------------------- MODULE Tiers --------------------------------
(***************************************************************************)
(* A workspace's partner tier: the tier plan that leads to a higher one    *)
(* (src/domain/tiers/operations.ts) and the onboarding that estimates the  *)
(* first (src/domain/onboarding/operations.ts).                            *)
(*                                                                         *)
(* A workspace has one plan and one onboarding in its life.  An operation  *)
(* that reads and writes in later statements is two actions.  Tiers are    *)
(* numbers, 0 for "registered"; of a requirement's value only whether it   *)
(* meets its threshold is kept.  Owners, dates, the tasks and evidence of  *)
(* single requirements and what the wizard asks for are left out, save the *)
(* AWS stage and the path.                                                 *)
(***************************************************************************)
EXTENDS Naturals

CONSTANTS
    Requirements,  \* the gating requirements of a plan
    Measured,      \* those that the sync computes
    MaxTier,       \* the highest tier, "premier"
    Editors,       \* operations in flight that read and then write
    None           \* no row

VARIABLES
    tier,       \* tenants.tier
    plan,       \* the tier_plans row
    met,        \* tier_requirements that meet their thresholds
    wizard,     \* the onboarding row
    op,         \* what each operation in flight has read
    kickoffs    \* history: how often onboarding has handed over

vars == <<tier, plan, met, wizard, op, kickoffs>>

-----------------------------------------------------------------------------

TierIds == 0..MaxTier

Plan == [status: {"active", "achieved"}, target: TierIds]

Steps == {"context", "objectives", "path", "review"}

\* stage: the tier that the AWS stage on the form stands for.
Wizard == [status: {"in_progress", "completed"}, step: Steps \cup {"done"},
           path: BOOLEAN, stage: TierIds]

\* What the constants satisfy.
ConstantsOK ==
    /\ MaxTier \in Nat
    /\ Requirements # {}
    /\ Measured \subseteq Requirements
    /\ None \notin Plan \cup Wizard

Idle == [kind |-> "idle"]

Op == {Idle} \cup [kind: {"create", "advance", "complete"}, tier: TierIds]

TypeOK ==
    /\ tier \in TierIds
    /\ plan \in Plan \cup {None}
    /\ met \subseteq Requirements
    /\ wizard \in Wizard \cup {None}
    /\ op \in [Editors -> Op]
    /\ kickoffs \in Nat

Init ==
    /\ tier = 0
    /\ plan = None
    /\ met = {}
    /\ wizard = None
    /\ op = [e \in Editors |-> Idle]
    /\ kickoffs = 0

Begin(e, kind, t) ==
    /\ op[e] = Idle
    /\ op' = [op EXCEPT ![e] = [kind |-> kind, tier |-> t]]
    /\ UNCHANGED <<tier, plan, met, wizard, kickoffs>>

End(e) == op' = [op EXCEPT ![e] = Idle]

-----------------------------------------------------------------------------
(* The tier plan *)

\* createTierPlanOp: a target above the tier of now.
ReadCreate(e, t) ==
    /\ t \in TierIds
    /\ t > tier
    /\ Begin(e, "create", t)

WriteCreate(e) ==
    /\ op[e].kind = "create"
    /\ plan = None
    /\ plan' = [status |-> "active", target |-> op[e].tier]
    /\ End(e)
    /\ UNCHANGED <<tier, met, wizard, kickoffs>>

\* updateRequirementOp for one requirement, syncTierMeasuredValuesOp for those
\* it measures; a plan that is achieved takes both.
SetMet(S, T) ==
    /\ plan # None
    /\ met' = (met \ S) \cup T
    /\ UNCHANGED <<tier, plan, wizard, op, kickoffs>>

\* advanceTierOp: every requirement is met.
ReadAdvance(e) ==
    /\ plan # None
    /\ plan.status = "active"
    /\ met = Requirements
    /\ Begin(e, "advance", plan.target)

WriteAdvance(e) ==
    /\ op[e].kind = "advance"
    /\ plan.status = "active"
    /\ plan' = [plan EXCEPT !.status = "achieved"]
    /\ tier' = op[e].tier
    /\ End(e)
    /\ UNCHANGED <<met, wizard, kickoffs>>

-----------------------------------------------------------------------------
(* Onboarding *)

\* startOnboardingOp
Start ==
    /\ wizard = None
    /\ wizard' = [status |-> "in_progress", step |-> "context", path |-> FALSE, stage |-> 0]
    /\ UNCHANGED <<tier, plan, met, op, kickoffs>>

\* advance: UPDATE ... WHERE status = 'in_progress'
Advance(next) ==
    /\ wizard # None
    /\ wizard.status = "in_progress"
    /\ wizard' = next
    /\ UNCHANGED <<tier, plan, met, op, kickoffs>>

SaveContext(s) == Advance([wizard EXCEPT !.stage = s, !.step = "objectives"])

SaveObjectives == Advance([wizard EXCEPT !.step = "path"])

ChoosePath == Advance([wizard EXCEPT !.path = TRUE, !.step = "review"])

SetStep(s) == Advance([wizard EXCEPT !.step = s])

\* completeOnboardingOp: from the review, with a path.
ReadComplete(e) ==
    /\ wizard # None
    /\ wizard.status = "in_progress"
    /\ wizard.step = "review"
    /\ wizard.path
    /\ Begin(e, "complete", wizard.stage)

\* The tier of a workspace that is still registered
Estimate(stage) == IF stage # 0 /\ tier = 0 THEN stage ELSE tier

\* The assessment, the tasks, the tier, the roadmap and, last, the status; if
\* that has changed, nothing of it stays.
WriteComplete(e) ==
    /\ op[e].kind = "complete"
    /\ wizard.status = "in_progress"
    /\ tier' = Estimate(op[e].tier)
    /\ wizard' = [wizard EXCEPT !.status = "completed", !.step = "done"]
    /\ kickoffs' = kickoffs + 1
    /\ End(e)
    /\ UNCHANGED <<plan, met>>

\* An operation is refused, or loses its connection.
Fail(e) ==
    /\ op[e] # Idle
    /\ End(e)
    /\ UNCHANGED <<tier, plan, met, wizard, kickoffs>>

-----------------------------------------------------------------------------

Next ==
    \/ \E q \in Requirements : SetMet({q}, {}) \/ SetMet({q}, {q})
    \/ \E T \in SUBSET Measured : SetMet(Measured, T)
    \/ Start
    \/ \E s \in TierIds : SaveContext(s)
    \/ SaveObjectives
    \/ ChoosePath
    \/ \E s \in Steps : SetStep(s)
    \/ \E e \in Editors :
          \/ \E t \in TierIds : ReadCreate(e, t)
          \/ WriteCreate(e)
          \/ ReadAdvance(e)
          \/ WriteAdvance(e)
          \/ ReadComplete(e)
          \/ WriteComplete(e)
          \/ Fail(e)

Spec == Init /\ [][Next]_vars

-----------------------------------------------------------------------------
(* Properties *)

\* A workspace whose plan is achieved has the tier of its plan, however late
\* an onboarding completes: its estimate "never overwrites" (line 157).
AchievedIsTheTier == plan # None => (plan.status = "achieved" => tier = plan.target)

\* "Status-guarded so it runs exactly once" (line 111): whatever completions
\* overlap, the hand-over to the other sections happens once.
HandsOverOnce ==
    /\ kickoffs <= 1
    /\ kickoffs = 1 <=> wizard # None /\ wizard.step = "done"
=============================================================================
