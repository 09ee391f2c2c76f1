------------------------------ MODULE MCRecords ------------------------------
(***************************************************************************)
(* The components whose operations keep records of one workspace, and the  *)
(* computations on them, as one run for TLC.  They share no state and no   *)
(* action, so each is checked for itself: a behaviour picks one of them,   *)
(* its part, and the others rest in their initial states.                  *)
(*                                                                         *)
(* Editors stands for whoever is at work in a part; ids come from small    *)
(* sets that all parts use.  What is proved of the parts in RecordsProofs  *)
(* holds for all such sets and bounds.                                     *)
(***************************************************************************)
EXTENDS Mdf, TLC, FiniteSets

CONSTANTS
    One, Two, Three, Four,
    MaxSeeds, Bump,                     \* Roadmaps
    MaxBatch,                           \* Metering
    MaxSnapshots,                       \* Reports
    MaxTier,                            \* Tiers
    MinCohort, MaxCapture,              \* Benchmarks
    MaxValue, MaxSample,                \* Percentiles
    MaxRows, MaxDeals, RepScore,        \* CommandCenter
    MaxMilestones, MaxDay,              \* Schedule, Projection
    HorizonDays, Paces,                 \* Schedule
    MaxProjection,                      \* Projection
    Horizon, MaxRuns,                   \* Completions
    YearDays, Lead, SubmitCap, Years,   \* FundRules
    MaxTokens                           \* ActionKeys

VARIABLES
    part,
    existing, agency, service, linkRequest, visit, consent, acted, \* PortfolioLinks
    roadmap, milestone, spawned, planning, crossed,               \* Roadmaps
    evidence, scan, stored, transfer, cleared, served,            \* Evidence
    offer, agreement, offerOp,                                    \* PrivateOffers
    record, call, billed,                                         \* Metering
    submission, submissionOp, submissionContended,                \* Funding
    report, reportOp, reportContended,                            \* Reports
    opp, mirror, tasked, oppOp, oppContended,                     \* Ace
    application, control, controlOp, controlContended, redrafted, \* Applications
    assessment, recommendation, recTasked, formOp, formContended, \* Assessments
    item, converted, planOp, planContended,                       \* MdfPlan
    program, requirement, document, staged, programOp, overtaken, \* Programs
    tier, tierPlan, met, wizard, tierOp, kickoffs,                \* Tiers
    listing, change, connected, decided, listingCall, overlapped, \* Listings
    opted, snapshot, cohort, job, day,                            \* Benchmarks
    sample,                                                       \* Percentiles
    workspace,                                                    \* CommandCenter
    due, after, spread,                                           \* Schedule
    milestones, history, today,                                   \* Projection
    completion, planned,                                          \* Completions
    start, end, date,                                             \* FundRules
    family, standing, used, form, drawn, hollow                   \* ActionKeys

linkVars == <<existing, agency, service, linkRequest, visit, consent, acted>>
roadmapVars == <<roadmap, milestone, spawned, planning, crossed>>
evidenceVars == <<evidence, scan, stored, transfer, cleared, served>>
offerVars == <<offer, agreement, offerOp>>
meteringVars == <<record, call, billed>>
fundingVars == <<submission, submissionOp, submissionContended>>
reportVars == <<report, reportOp, reportContended>>
aceVars == <<opp, mirror, tasked, oppOp, oppContended>>
applicationVars == <<application, control, controlOp, controlContended, redrafted>>
assessmentVars == <<assessment, recommendation, recTasked, formOp, formContended>>
planVars == <<item, converted, planOp, planContended>>
programVars == <<program, requirement, document, staged, programOp, overtaken>>
tierVars == <<tier, tierPlan, met, wizard, tierOp, kickoffs>>
listingVars == <<listing, change, connected, decided, listingCall, overlapped>>
benchmarkVars == <<opted, snapshot, cohort, job, day>>
scheduleVars == <<due, after, spread>>
projectionVars == <<milestones, history, today>>
completionVars == <<completion, planned>>
ruleVars == <<start, end, date>>
keyVars == <<family, standing, used, form, drawn, hollow>>

P == INSTANCE PortfolioLinks WITH
        Agencies <- Editors, Customers <- One, Requests <- Two, Visits <- Editors,
        request <- linkRequest

R == INSTANCE Roadmaps WITH
        Roadmaps <- Two, Milestones <- Four, Origins <- One, op <- planning

E == INSTANCE Evidence WITH
        Items <- One, Objects <- Two, Visits <- Editors, visit <- transfer

O == INSTANCE PrivateOffers WITH
        Offers <- Two, Agreements <- One, Customers <- One, op <- offerOp

M == INSTANCE Metering WITH
        Records <- Three, Receipts <- Two, Calls <- Editors, Usages <- Two

F == INSTANCE Funding WITH
        Submissions <- One, op <- submissionOp, contended <- submissionContended

N == INSTANCE Reports WITH
        Reports <- One, op <- reportOp, contended <- reportContended

C == INSTANCE Ace WITH
        Opps <- Two, Synced <- One, op <- oppOp, contended <- oppContended

A == INSTANCE Applications WITH
        Controls <- Three, op <- controlOp, contended <- controlContended

G == INSTANCE Assessments WITH
        Assessments <- One, Recommendations <- Two, Answers <- Two,
        tasked <- recTasked, op <- formOp, contended <- formContended

D == INSTANCE MdfPlan WITH
        Items <- Two, Requests <- Three,
        request <- converted, op <- planOp, contended <- planContended

Q == INSTANCE Programs WITH
        Programs <- One, Keys <- Two, Documents <- One,
        evidence <- document, op <- programOp

T == INSTANCE Tiers WITH
        Requirements <- Two, Measured <- One,
        plan <- tierPlan, op <- tierOp

S == INSTANCE Listings WITH
        Listings <- Two, Entities <- One, Changes <- One, ChangeSets <- One,
        Calls <- Editors, call <- listingCall, contended <- overlapped

B == INSTANCE Benchmarks WITH
        Tenants <- Two, Jobs <- Editors, MaxDay <- MaxCapture

K == INSTANCE Percentiles

W == INSTANCE CommandCenter

H == INSTANCE Schedule

J == INSTANCE Projection WITH milestone <- milestones

L == INSTANCE Completions

U == INSTANCE FundRules WITH today <- date

X == INSTANCE ActionKeys WITH
        Pages <- Editors,
        status <- standing, keys <- used, page <- form

ASSUME SetsAssumption ==
    One \subseteq Two /\ Two \subseteq Three /\ Three \subseteq Four

ASSUME PartsAssumption ==
    /\ P!ConstantsOK /\ R!ConstantsOK /\ E!ConstantsOK
    /\ O!ConstantsOK /\ M!ConstantsOK /\ F!ConstantsOK /\ N!ConstantsOK
    /\ C!ConstantsOK /\ A!ConstantsOK /\ G!ConstantsOK /\ D!ConstantsOK
    /\ Q!ConstantsOK /\ T!ConstantsOK /\ S!ConstantsOK /\ B!ConstantsOK
    /\ K!ConstantsOK /\ W!ConstantsOK /\ H!ConstantsOK /\ J!ConstantsOK
    /\ L!ConstantsOK /\ U!ConstantsOK /\ X!ConstantsOK

-----------------------------------------------------------------------------

Parts == {"mdf", "links", "roadmaps", "evidence", "offers", "metering",
          "funding", "reports", "ace", "applications", "assessments", "plan",
          "programs", "tiers", "listings", "benchmarks", "percentiles",
          "command", "schedule", "projection", "completions", "rules", "keys"}

InitRecords ==
    /\ part \in Parts
    /\ Init /\ P!Init /\ R!Init /\ E!Init /\ O!Init /\ M!Init /\ F!Init
    /\ N!Init /\ C!Init /\ A!Init /\ G!Init /\ D!Init /\ Q!Init /\ T!Init
    /\ S!Init /\ B!Init /\ K!Init /\ W!Init /\ X!Init
    /\ IF part = "schedule" THEN H!Init ELSE due = <<>> /\ after = <<>> /\ spread = 0
    /\ IF part = "projection" THEN J!Init
       ELSE milestones = <<>> /\ history = None /\ today = 0
    /\ IF part = "completions" THEN L!Init ELSE completion = <<>> /\ planned = 0
    /\ IF part = "rules" THEN U!Init ELSE start = None /\ end = None /\ date = 0
    \* What the initial states differ in matters to its own part alone.
    /\ part = "links" \/ existing = Editors
    /\ part = "listings" \/ connected
    /\ part = "keys" \/ family = "row"

\* The parts other than p take no step.
Rest(p) ==
    /\ p # "mdf" => UNCHANGED vars
    /\ p # "links" => UNCHANGED linkVars
    /\ p # "roadmaps" => UNCHANGED roadmapVars
    /\ p # "evidence" => UNCHANGED evidenceVars
    /\ p # "offers" => UNCHANGED offerVars
    /\ p # "metering" => UNCHANGED meteringVars
    /\ p # "funding" => UNCHANGED fundingVars
    /\ p # "reports" => UNCHANGED reportVars
    /\ p # "ace" => UNCHANGED aceVars
    /\ p # "applications" => UNCHANGED applicationVars
    /\ p # "assessments" => UNCHANGED assessmentVars
    /\ p # "plan" => UNCHANGED planVars
    /\ p # "programs" => UNCHANGED programVars
    /\ p # "tiers" => UNCHANGED tierVars
    /\ p # "listings" => UNCHANGED listingVars
    /\ p # "benchmarks" => UNCHANGED benchmarkVars
    /\ p # "percentiles" => UNCHANGED sample
    /\ p # "command" => UNCHANGED workspace
    /\ p # "schedule" => UNCHANGED scheduleVars
    /\ p # "projection" => UNCHANGED projectionVars
    /\ p # "completions" => UNCHANGED completionVars
    /\ p # "rules" => UNCHANGED ruleVars
    /\ p # "keys" => UNCHANGED keyVars

NextRecords ==
    /\ \/ part = "mdf" /\ Next
       \/ part = "links" /\ P!Next
       \/ part = "roadmaps" /\ R!Next
       \/ part = "evidence" /\ E!Next
       \/ part = "offers" /\ O!Next
       \/ part = "metering" /\ M!Next
       \/ part = "funding" /\ F!Next
       \/ part = "reports" /\ N!Next
       \/ part = "ace" /\ C!Next
       \/ part = "applications" /\ A!Next
       \/ part = "assessments" /\ G!Next
       \/ part = "plan" /\ D!Next
       \/ part = "programs" /\ Q!Next
       \/ part = "tiers" /\ T!Next
       \/ part = "listings" /\ S!Next
       \/ part = "benchmarks" /\ B!Next
       \/ part = "percentiles" /\ K!Next
       \/ part = "command" /\ W!Next
       \/ part = "schedule" /\ H!Next
       \/ part = "projection" /\ J!Next
       \/ part = "completions" /\ L!Next
       \/ part = "rules" /\ U!Next
       \/ part = "keys" /\ X!Next
    /\ Rest(part)
    /\ UNCHANGED part

SpecRecords == InitRecords /\ [][NextRecords]_<<part, vars, linkVars,
    roadmapVars, evidenceVars, offerVars, meteringVars, fundingVars, reportVars, aceVars,
    applicationVars, assessmentVars, planVars, programVars, tierVars,
    listingVars, benchmarkVars, sample, workspace, scheduleVars, projectionVars,
    completionVars, ruleVars, keyVars>>

Symmetry == Permutations(Editors)

-----------------------------------------------------------------------------
(* Bounds of single parts *)

\* Ids that a part gives out and never takes back are interchangeable: they
\* are given out in this order.
InOrder(ids) == ids \in {{}, One, Two, Three}

\* Roadmaps: two milestones, or three in the only roadmap, before any task;
\* after the first overlap one.
FewMilestones ==
    \/ Cardinality(R!Rows) <= 1
    \/ crossed = {} /\ Cardinality(R!Rows) = 2
    \/ /\ crossed = {} /\ Cardinality(R!Rows) = 3 /\ spawned = {}
       /\ \E r \in Two : roadmap[r] = "absent"

Bounded ==
    /\ part = "roadmaps" => FewMilestones
    /\ part = "metering" => InOrder(M!Rows) /\ InOrder(Two \ M!Unused)
    \* one opportunity at a time
    /\ part = "ace" => Cardinality(C!Rows) <= 1
    \* After the first overlap the properties of an application say nothing.
    /\ part = "applications" => InOrder(A!Rows) /\ ~controlContended
    \* with two listings one request at a time
    /\ part = "listings" =>
          /\ InOrder(S!Rows)
          /\ Cardinality(S!Rows) = 2 => \E k \in Editors : listingCall[k] = S!Idle
    \* double clicks on one page at a time; a click that was only answered is the last
    /\ part = "keys" =>
          /\ \E p \in Editors : form[p] # None => form[p].clicks < 2 /\ ~form[p].again
          /\ hollow = {}

-----------------------------------------------------------------------------
(* Properties.  A part that is not at work is in its initial state and is   *)
(* left out.                                                               *)

\* The variables of every part have their types.
AllTyped ==
    /\ TypeOK
    /\ part = "links" => P!TypeOK
    /\ part = "roadmaps" => R!TypeOK
    /\ part = "evidence" => E!TypeOK
    /\ part = "offers" => O!TypeOK
    /\ part = "metering" => M!TypeOK
    /\ part = "funding" => F!TypeOK
    /\ part = "reports" => N!TypeOK
    /\ part = "ace" => C!TypeOK
    /\ part = "applications" => A!TypeOK
    /\ part = "assessments" => G!TypeOK
    /\ part = "plan" => D!TypeOK
    /\ part = "programs" => Q!TypeOK
    /\ part = "tiers" => T!TypeOK
    /\ part = "listings" => S!TypeOK
    /\ part = "benchmarks" => B!TypeOK
    /\ part = "percentiles" => K!TypeOK
    /\ part = "command" => W!TypeOK
    /\ part = "schedule" => H!TypeOK
    /\ part = "projection" => J!TypeOK
    /\ part = "completions" => L!TypeOK
    /\ part = "rules" => U!TypeOK
    /\ part = "keys" => X!TypeOK

\* A roadmap's order and dependencies hold together and every milestone of a
\* finalized one has its task, whatever insertions, removals, reorders and
\* finalizations went before (roadmaps/operations.ts).
RoadmapSound ==
    part = "roadmaps" =>
        R!Backward /\ R!Compact /\ R!OneMilestonePerOrigin /\ R!FinalizedAllTasked

\* An agency that manages a customer does so through a service user of the
\* customer's workspace, after the customer was asked (portfolio/operations.ts).
LinksAgreed == part = "links" => P!ManagedHasService /\ P!ConsentFirst

\* A download streams an object that the scanner passed, with its bytes
\* (storage/malware-scan.ts, evidence/operations.ts).
ServedClean == part = "evidence" => E!OnlyCleanServed /\ E!FileHasBytes

\* Offers, funding submissions and reports take the transitions of their
\* tables and no other (marketplace/private-offers.ts, funding/lifecycle.ts,
\* reports/operations.ts); no milestone joins or leaves a finalized roadmap
\* (assertDraftRoadmap).  Where no two operations overlap, a program is
\* submitted with its readiness gate met and a change set that AWS settled
\* stays settled.  No day that passes unblocks a planned event.
LifecyclesFollowed ==
    /\ O!OffersFollowLifecycle
    /\ F!FundingFollowsLifecycle
    /\ N!ReportsFollowLifecycle
    /\ R!FinalizedFrozen
    /\ Q!SubmittedReadyAlone
    /\ S!SettledStaysAlone
    /\ U!BlocksStay

\* A status and what the record says of how it came about agree: a linked
\* agreement and an accepted offer, a stamp and an active program, a plan's
\* achievement and the workspace's tier, the approval of a recommendation and
\* its task.
RecordsAgree ==
    /\ part = "offers" => O!LinkedIsAccepted
    /\ part = "programs" => Q!ActiveIsStamped
    /\ part = "tiers" => T!AchievedIsTheTier
    /\ part = "assessments" => G!TaskedIffApproved

\* What is handed over is handed over once: a rejected usage to one retry, a
\* receipt to one record, a plan item to one request of its own, a finished
\* onboarding to one assessment, and an assessment to one scoring.  What is
\* clicked for is done once, and not only answered.
HandedOverOnce ==
    /\ part = "metering" => M!RetriedOnce /\ M!ReceiptOnce
    /\ part = "plan" => D!ConvertedOnceAlone /\ D!LinkIsOwn
    /\ part = "tiers" => T!HandsOverOnce
    /\ part = "assessments" => G!OneScoring
    /\ part = "keys" => X!OncePerClick /\ X!ClicksAreCarriedOut

\* Where no two operations on a record have overlapped, a decision stands on
\* what was decided: an amount within the ask, a narrative of the snapshot
\* that was reviewed, a routed opportunity's task, the status that an
\* application's controls added up to at its last edit, until it is exported, the score of an
\* assessment's answers.
SoundAlone ==
    /\ part = "funding" => F!ApprovedWithinAskAlone
    /\ part = "reports" => N!SoundAlone
    /\ part = "ace" => C!ApprovedHasTaskAlone
    /\ part = "applications" => A!RollupAlone /\ A!ExportStaysAlone
    /\ part = "assessments" => G!ScoreIsOfAnswersAlone

\* A change set that a refresh settled on AWS's word is settled so there,
\* however refreshes, decisions and switches of the connection interleave
\* (refreshChangeSet in marketplace/actions.ts).
VerdictsAreAws == part = "listings" => S!VerdictIsAws

\* What a workspace sees of its peers comes from enough of them, and the
\* percentiles split the sample and rank values in order (domain/benchmarks).
CohortsSound ==
    /\ part = "benchmarks" => B!NeverThin
    /\ part = "percentiles" => K!Splits /\ K!Ranks

\* Dates that are computed in different places agree: a schedule's conflicts,
\* slack and critical path; a forecast's verdict and its list; a simulation's
\* dates and odds; the deadline of a fund request and the checks that enforce
\* it (domain/roadmaps, domain/forecast, domain/mdf/compliance.ts).
DatesAgree ==
    /\ part = "schedule" => H!AnalysisAgrees /\ H!ReplanResolves
    /\ part = "projection" => J!VerdictAgrees /\ J!ProgressNeverDelays
    /\ part = "completions" => L!OddsAgree
    /\ part = "rules" => U!DeadlineIsEnforced

\* A suggested move removes what it is suggested for and does not lower the
\* score, and days that pass do not raise it (domain/command).
AdviceSound == part = "command" => W!MovesHelp /\ W!OnlyErodes
=============================================================================
