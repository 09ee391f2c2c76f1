# PartnerOS in TLA+

PartnerOS is a multi-tenant Next.js application over PostgreSQL: a workspace
(tenant) of an AWS partner tracks programs, evidence, funding, opportunities and
marketplace listings in it. This directory holds TLA+ modules of the parts of it
where operations of several people, processes or retries meet, the TLC
configurations that check them on small instances, and TLAPS proofs, for instances of
every size, of nearly every safety property that the runs check.

Source paths below are relative to `src/` of the repository, its application
root (`PROJECT.json` names files from the repository's root). Line numbers refer
to the commit the modules were written from.

To run: `tlc -config MCRecords.cfg MCRecords`, `tlapm CommerceProofs.tla`.

## 1. The system

### How it works

Every page is rendered, and every write made, by a stateless Node process; a
deployment runs several. All state that matters is in PostgreSQL. A server
action resolves the caller's identity from the session cookie, and passes an
operation (`domain/*/operations.ts`) as the handler of `runMutation`, the
mutation gate. The gate opens one tenant transaction at the default isolation,
READ COMMITTED, with row-level security set to the tenant. An operation is a short
sequence of SQL statements. Most read a row, decide, and update it; other
transactions commit in between. What does not pass the gate: sign-in, directory
sync, cron routes and scanner callbacks, which use `withSystem`.

So the hard behaviours have four sources:

- statements of two transactions interleave (check, then act);
- a call is repeated: a double click, a client's retry after a lost answer, a cron
  tick that overlaps the one before;
- a process dies between two effects, and one of them (another transaction, a
  message, a file, an AWS call) does not roll back with the other;
- a session cookie is state held by a browser, and answers to its requests land
  in any order.

### Components

| Component | State | Operations | Interacts with | What makes it correct |
|---|---|---|---|---|
| Mutation gate (`gate/mutation-gate.ts`, `redis/ratelimit.ts`, `db/client.ts`, `domain/retention`) | `idempotency_keys`, `audit_log`, limiter windows, the connection pool | `runMutation`, the retention sweep | every operation is its handler; forms (`MutationForm`) and server actions choose its keys | one execution per key; audit row iff effect; answers are of committed work; refusals leave nothing; no gridlock; a fresh click is carried out |
| Membership (`domain/settings`, `domain/scim`, `auth/provision.ts`) | `users`, `invitations` | role, status, erase, invite, revoke; SCIM create and (de)activate; first sign-in | sessions (who may act), gate | an owner remains; one account per person; a revoked invitation admits nobody |
| Sessions (`auth/session.ts`, `app/api/auth/*`, `app/api/portfolio/*`, `SessionKeepalive`) | the signed cookie, `users.status`, `users.session_epoch` | sign-in, refresh, switch, exit, logout, revoke | gate (audit stamp), membership | revocation forces a sign-in; idling ends a session; acting is attributed |
| MDF requests (`domain/mdf`) | `mdf_requests`, proof evidence | create, edit, submit, approve, reject, deploy, claim, reimburse, bulk decisions | evidence, tasks, gate | the lifecycle is followed; no stage exceeds the stage before; a claim has proof |
| MDF event planner (`domain/mdf/plan-operations.ts`, `compliance.ts`) | plan items | add, edit, convert one or all; the rules on dates | MDF requests | an item is converted once, into its own request; the deadline shown is the one enforced; a blocked event stays blocked |
| Portfolio links (`domain/portfolio`, `auth/agency.ts`) | `tenants.agency_id`, link requests, service users | create workspace, request, approve, reject, switch, set plan | sessions (switch), gate (`withSystem` handlers) | one agency per workspace, with its consent and a service user there |
| Playbooks, notifications (`domain/playbooks`, cron) | playbooks, runs, notifications | evaluate, approve, dismiss, deliver | command center, tasks, webhooks, email | a playbook fires once per decision; a message is sent once; a run follows its lifecycle |
| Evidence, scanning (`domain/evidence`, `storage`) | evidence rows, stored objects, scan status | create, edit, review, upload, verdict, download | S3, scanner, MDF, programs | only clean files are served; a linked file has its bytes |
| Funding submissions (`domain/funding`) | `funding_submissions` | as MDF, other statuses | ACE opportunities | the lifecycle; an approval within the ask |
| Marketplace (`domain/marketplace`) | listings, change sets, usage records, offers | draft, publish, refresh, sync; meter, resubmit; offer, decide, reconcile | AWS Marketplace | usage is sent and recorded once; a change set ends as AWS said; offers follow their lifecycle |
| Tasks, roadmaps (`domain/tasks`, `domain/roadmaps`) | tasks, milestones and their chain, dates | create, update, complete; compose, move, remove, re-point, finalize, reopen, replan; reconcile | each other, programs | a task and its milestone mirror each other; the chain is acyclic and compact; a finalized roadmap is frozen and has its tasks; the analysis of dates agrees with itself |
| ACE (`domain/ace`, `domain/aws`) | opportunities, the Partner Central mirror | create, edit, bulk, route, approve, sync, accept AWS's side | tasks, AWS | an approved routing has its task |
| Applications (`domain/applications`) | an application, its controls | upload, edit, bulk, export | storage | status and count are those of the controls |
| Programs (`domain/programs`) | programs, requirements | adopt, advance, link, auto-link, return, submit | evidence, tasks, roadmaps | what is submitted met its readiness gate |
| Tiers, onboarding (`domain/tiers`, `domain/onboarding`) | the workspace's tier, its plan, the wizard | create, sync, advance; start, complete | assessments | the tier of an achieved plan; one hand-over |
| Assessments (`domain/assessments`) | assessments, answers, recommendations | save, submit, review one or all | tasks, evidence | one scoring, of the answers that are there; a task iff approved |
| Reports (`domain/reports`) | reports | generate, regenerate, narrate, review, approve, export | language model | the lifecycle; a narrative of the snapshot beside it |
| Benchmarks (`domain/benchmarks`) | participation, snapshots, cohort rows | opt in and out, capture, aggregate, show | cron | nothing is shown of a cohort too small; percentiles rank in order |
| Command center, forecast (`domain/command`, `domain/forecast`, `roadmaps/forecast.ts`) | none | queue, health, moves, outlook; projections | reads all tables; playbooks fire on decisions | moves help, time only erodes; dates and verdicts agree |
| Case studies, solutions, copilot, knowledge, AWS connection, SSO/SAML configuration, data export, demo data, pages | content, configuration | single-row edits, I/O, rendering | all | not a matter of interleaving |

`PROJECT.json` lists each with its files and what is modelled of it, and the
hazards of the code at the lines where they bite.

## 2. Modules

| Module | What it is |
|---|---|
| `MutationGate` | the gate, statement by statement |
| `KeyedLedger` | what the gate promises, without transactions: its abstract specification |
| `MutationGateProofs` | the gate's inductive invariant and safety theorems; the gate implements `KeyedLedger`; its waiting ends; the statuses that `TaskMirror` pairs agree |
| `ActionKeys` | the idempotency keys that forms and server actions hand to the gate |
| `Membership` | users and invitations under settings, directory sync and sign-in |
| `Sessions`, `SessionsProofs` | session cookies of browsers |
| `MembershipProofs` | proofs about `Membership`, and the theorems about both parts of `MCAccounts` |
| `PortfolioLinks`, `PortfolioLinksProofs` | agencies, link requests, acting inside a managed workspace |
| `Mdf` | MDF requests |
| `MdfPlan`, `FundRules` | the event planner's conversions; the rules on an event's dates |
| `Funding` | funding submissions |
| `Lifecycle` | a record that moves along the edges of a graph: the abstract specification of `Funding`, `PrivateOffers` and `Reports` |
| `Playbooks`, `PlaybooksProofs` | rules, their runs, approvals, and the delivery of email |
| `Evidence` | files: upload, review, verdicts, download |
| `PrivateOffers`, `Metering`, `Listings` | the marketplace: offers, usage, change sets |
| `Roadmaps`, `TaskMirror`, `Schedule` | the chain of milestones; their mirror in tasks; their dates |
| `Ace`, `Applications`, `Programs`, `Tiers`, `Assessments`, `Reports` | one component each, see below |
| `Benchmarks`, `Percentiles` | aggregation across workspaces; the statistics of a cohort |
| `CommandCenter`, `Projection`, `Completions` | the engines behind the command center and the forecasts |
| `MCMutationGate`, `MCMdf`, `MCPlaybooks`, `MCMetering` | symmetry sets and bounds for TLC |
| `MCAccounts`, `MCLive`, `MCRecords` | several of the modules above as one run each |
| `CommerceProofs` | proofs about what money and AWS pass through: `Mdf`, `MdfPlan`, `FundRules`, `Funding`, `PrivateOffers`, `Metering`, `Listings`, `Ace` |
| `ProgramsProofs` | proofs about the way to a tier: `Programs`, `Tiers`, `Assessments`, `Applications`, `Roadmaps` with `Schedule`, `Projection`, `Completions` |
| `RecordsProofs` | proofs about `Evidence`, `Reports`, `ActionKeys`, `Benchmarks`, `Percentiles`, `CommandCenter`, and the theorems about all parts of `MCRecords` |

The components meet in the abstractions each takes of the others. Every module of
operations takes an operation as the gate runs it: one transaction that commits or leaves
nothing, at most once per key, which is what `MutationGate` establishes (`ActionKeys`
takes a whole mutation as one step, by the same argument); in `Playbooks`
the key `approve-run:<id>` also holds a second approval back while the first is open.
`PortfolioLinks` contains the server's side of the switch whose cookie is in `Sessions`.
`Membership.manages` stands for the live sessions that `Sessions` describes.
`Programs` reads the statuses of the documents that `Evidence` makes; `TaskMirror`
starts from a roadmap that `Roadmaps` finalized. Tables that
two modules share are written by one of them and abstracted to a status in the other,
so the modules are not multiplied into one state machine.

**The common pattern.** Most operations load a row, decide, and update it in a later
statement. Such an operation is two actions, `ReadX` with the guards of the code's
early returns and `WriteX` with the guard of the UPDATE's WHERE and the commit; an
`op` entry holds what was read. A single guarded UPDATE is one action. `Fail` drops what an
operation read: a refused statement, a lost connection or an abandoned request. Where a
property of the code is only true while operations on a record do not overlap,
the module records the overlap in a history variable (`contended`, `overtaken`, `crossed`), and the
property, whose name mostly ends in `Alone`, speaks of the records without one; section 5 says what the overlap does.

Operators prefixed with "Variant" in a comment are broken forms of the definition
after them (a dropped guard, an off-by-one). No specification uses them; they are
there to show that a property does notice the bug (`mutants` in `PROJECT.json`).

### MutationGate

A call is one invocation of `runMutation`. `pc[c]` is where it is: `idle`,
`queued` (waits for a connection), inside the transaction (`claiming`, `taken`,
`handling`, `nested`, `handled`, `audited`, `completed`), `done`.
`txn[c]` is what its open transaction has written; `Commit` publishes it at once,
every other way out (`Leave`) drops it. `table`, `effects` and `audit` are the committed
`idempotency_keys`, handler writes and `audit_log`. `answer[c]` is what the caller heard;
`lost` covers a dead process and an answer lost on the way.

| Action | Code |
|---|---|
| `Deny` | identity, permission, body size, lines 87-97 |
| `Admit`, `Limit`, `ResetWindow` | the limiter, 99-107, and `redis/ratelimit.ts` |
| `Begin` | `withTenant` takes one of the pool's connections |
| `ClaimKey`, `KeyTaken` | `INSERT ... ON CONFLICT DO NOTHING`, which waits for an uncommitted row of the same key |
| `Replay`, `Conflict` | `SELECT ... FOR UPDATE` and the branches on it |
| `RunHandler` / `BeginNested`, `CommitNested` | a handler that writes through `ctx.tx` / through `withSystem`, on a second connection, committing on its own |
| `Reject` | the handler throws, the transaction rolls back |
| `WriteAudit`, `CompleteKey`, `Commit` | 162-197 |
| `Crash` | the process or its connection dies |
| `Sweep` | `runRetentionOp` deletes a completed key |

`sweeps` and `era` are history: they say in which life of a key a call claimed it,
so that "once per key" can be stated across sweeps. Abstracted: a request body is
its hash, a key is one (tenant, key) pair, a handler's work is one write.
`hits` holds the set of counted calls; the code holds the count.

### Membership

`user` and `invite` are the tables of one tenant. A settings request or a sign-in
is split at the point where others can come in between: the read with its
checks (`ReadRole`, `ReadStatus`, `ReadErase`, `ReadInvite`, `ReadSynced`,
`ReadPending`) and the write with its commit (`WriteRole`, ...); `op[t]` is what it
remembers. Operations that are one guarded statement are one action
(`RevokeInvite`, `ScimSetActive`, `RevokeSessions`). Unique indexes are guards of
the writes; `ScimCreate`, which looks the person up and then inserts, is one action
too, because the index repeats at the INSERT what the look-up found. `crossed` is history: a role was
written between the check and the write of another change of a role. `manages` is the set of users with a live token whose role may manage
members: a token keeps its role after a demotion. A person is one email and one
subject at the identity provider. `Roles` is a parameter: of the workspace's roles only
owner and admin make a difference here, by what they may do.

### Sessions

`cookie[b]` is the token in a browser. Navigation replaces it in one step. The
keepalive's refresh runs in the background: `Refresh` verifies the cookie and
computes the answer, `Land` sets it whenever it arrives, whatever the cookie is by then, or
`LoseReply` drops it. Each tab of a browser may have an answer on its way, `reply[b][t]`. Time is counted in ticks, `Tick` advances it. The history
fields of a token (`person`, `born`, `acted`) only serve the properties.

### Mdf

`request` is the table, `op` what operations in flight have read. A transition is
`ReadStage` (load the row, compare the new amount with the stage before) and
`Advance` (the UPDATE guarded by the status); an edit is `ReadEdit` and
`WriteEdit`, an UPDATE by id alone; `BulkApprove` and `Reject` are single guarded
statements. A row's amounts are one function from stages to numbers; 0 stands for
NULL, which the code reads as 0. `ready` stands for the preflight's checks and the
AWS rules other than the amount's. The actions call `createRequestOp` without an owner,
so a fresh draft is not ready.

### Playbooks

`playbook`, `run` and `note` are the tables; a run and its notification are
identified by the pair of rule and decision, as their unique indexes do. A pass
(`materializePlaybookRunsOp`, one transaction) is `BeginPass` (read the mode and the
rules, plan), then `Skip` or `Fire` for each planned pair, and `CommitPass` or
`FailPass`. `Fire` waits for another pass that has inserted the pair, which is
the index's behaviour under `ON CONFLICT DO NOTHING`, and needs the rule to exist, which is the
foreign key's; `Delete` waits for passes that hold the rule. What a dispatched action
does elsewhere is one number, `fired`. An approval is `ReadApprove` and
`WriteApprove`, since a dismissal or a deletion can come between; `Dismiss` is a
single UPDATE. A delivery reads its batch, sends and marks one message at a time,
and commits all marks together. `approved` and `handed` are history variables. The mode is
an input of `BeginPass`: it is read in a statement before the rules, and an
administrator sets it at will.

### ActionKeys

One record of some family and the pages that show it. A family is its verbs (`submitMdfRequest`,
`completeTask`, ...): the statuses from which each leads where, and its key, which is `Fixed`
(of record and decision) or `Drawn` (the token of the form). `Open` renders a
form, `Click` is a submission, `Serve` is `runMutation` for the first click that waits,
with the page's state after it (`Answered`), `Close` leaves the page (the error boundary does, after a
lost answer), `Sweep` is the retention. `hollow` records the verbs of which a fresh click was
answered and not carried out. `Returning` names the families for which that happens.

### PortfolioLinks

`existing`, `agency` and `request` are tables; `service` is who has a service user where. Every
operation checks and then writes by id: `ReadLink`/`WriteLink`, `ReadApprove`/`WriteApprove`,
`ReadReject`/`WriteReject`, `ReadManaged` with `Switch` or `SetPlan`. `consent` and
`acted` are history: whom an owner approved, and who acted inside.

### Funding, PrivateOffers, Reports and Lifecycle

Three tables with a `TRANSITIONS` graph each. Funding and offers have the shape of `Mdf`; the offers' sync
matches agreements that AWS has with offers that were sent and accepts many at once. A
report's narrative is written by a language model between `ReadDraft` and `WriteNarrative`,
and its snapshot may be regenerated meanwhile. `Lifecycle` says what they have in common, and each
defines its refinement mapping (`L`) and states `L!Spec` as a property.

### MdfPlan and FundRules

A conversion reads the items and inserts the requests of those that no rule blocks, one or all.
`FundRules` is `compliance.ts` on dates: the derived deadline and the checks, on a year that is scaled down.

### Evidence

`PutBytes` stores the bytes before anything is committed, `CommitUpload` writes the object's
row and links it, `Verdict` is the scanner's callback. A download is `FindFile`,
`AssertObjectIsClean`, `Stream`. `cleared` and `served` are history.

### Metering and Listings

Both talk to AWS before the gated mutation that records the answer, so each request is two actions and
`Lose` or `Fail` in between is a mutation that never came. In `Metering`, `Resend` matches the results of
`BatchMeterUsage` to the batch by position. In `Listings`, `Decide` is AWS, `Describe` asks it, and
`WriteRefresh` writes the verdict by id.

### Roadmaps, TaskMirror and Schedule

`Roadmaps` is the structure: sequence numbers, predecessors, origins, under create, compose, duplicate,
add, reorder, remove (with the healing of dependencies), re-point, finalize and reopen, by any number of editors.
`crossed` is history: the roadmaps of which two edits have overlapped.
`TaskMirror` is the status of a milestone and of its task under `updateTask`, bulk updates,
`updateMilestone`, the roll-up and the reconciliation. Its steps are single SQL
statements: `work` has the statements that a transaction still has to run and the rows it has locked,
a statement waits for a locked row (`Blocks`), and PostgreSQL's deadlock detector rolls back a transaction that waits for itself (`Ahead`). `Schedule` is
the dates: planned over a horizon, set by hand, analysed.

### Ace, Applications, Assessments, Programs, Tiers

Tables with a roll-up or a hand-over: an opportunity's routing and follow-up task beside the
two transactions of the AWS sync; an application's count of accepted controls; an assessment's
score, recommendations and their tasks; a program's readiness gate over requirements and
documents; a tier plan's advancement and the onboarding that estimates the first tier.

### Benchmarks and Percentiles

`Contributions`/`Latest` is the aggregation's query, `Read` and `Write` are a job, several of which may
overlap; `Seen` is what the loader shows. `Percentiles` is the arithmetic: R-7 percentiles and the
rank of a value, with fractions kept as numerators.

### CommandCenter, Projection, Completions

Pure functions, as operators over a state that enumerates their inputs: a workspace is a bag
of kinds of rows (rows are numbered within their kind, and counting them is a cardinality), a roadmap a sequence of milestones, a simulation a sorted list
of runs. The properties compare functions that the code computes apart from each other (the queue,
the score, the projected effect of a move, the outlook; a verdict and its list; a date and its odds).

## 3. Properties and runs

Each run finishes in under five minutes with two workers. `CHECK_DEADLOCK FALSE`
is stated everywhere: all calls may be done, the clock may be at its bound, all
requests may be decided. Where stopping would be a fault it is a property
(`NoGridlock`, `EveryCallAnswered`, `EveryEditEnds`).

| Run | Instance | Shows |
|---|---|---|
| `MCMutationGate` | 3 calls, 2 keys, 2 bodies, 1 actor, both kinds of handler, pool of 2, limit of 2, 1 sweep per key; 380 000 states | `AtMostOnce`, `AuditAtomic`, `AnswerIsCommitted`, `RefusalLeavesNoTrace`, `CommittedKeysComplete`, `WindowBudget`, `NoGridlock` |
| `MCLive` | gate: 3 calls on 1 key, handlers through `ctx.tx`, pool of 2; mirror: 2 links, 2 transactions | `ImplementsLedger`, `EveryCallAnswered`, `ChangeMirrors`, `EveryEditEnds` |
| `MCMutationGateSystem` | pool of 3 | refutes `AuditAtomicForAll` |
| `MCAccounts` | members: 3 rows, 2 persons, 2 roles, 1 invitation, 2 settings requests, 1 sign-in, directory sync; sessions: 2 operators, 1 workspace, 1 browser with 2 tabs, 3 instants, 1 revocation per account; 540 000 states | `OneAccountPerPerson`, `RetainsOwnerUncrossed`; `RevokedMustSignIn`, `IdleLapses`, `PersonStaysPut` |
| `MCAccountsOwner` | 2 founding owners, 2 settings requests | refutes `RetainsOwner` |
| `MCAccountsActive` | 2 founding owners, 1 settings request | refutes `RetainsActiveOwner` |
| `MCAccountsStamp` | 1 operator | refutes `AuditNamesOperator` |
| `MCMdfAsk` | amounts to 2 | refutes `ApprovedWithinAsk` |
| `MCPlaybooks` | 1 rule, 2 decisions, 2 passes, 2 approvals, 2 deliveries, at most two of these six at work at a time; a notifying or a routing rule | `FiresOnce`, `RunTellsTruth`, `ExternalSendsApproved`, `SentWasSent`, `DecidedStaysDecided` |
| `MCPlaybooksTerminal` | 1 rule that approves within a cap, 1 decision | refutes `TerminalIsTerminal` |
| `MCRecords` | the other modules, each with 2 operations in flight, see below; 331 000 states | the 15 properties below |
| `MCMetering` | 4 records, 2 receipts, 2 usages, 2 calls | refutes `AcceptedOnce` |

**MCRecords** checks modules that share no state. A behaviour picks one of them, its
`part`, and the others rest in one initial state; so the state space is the sum of theirs, not the
product, and a conjunct of a property that begins `part = ...` is about that module. `PartsAssumption`
evaluates each module's `ConstantsOK` for the values it is given. `MCAccounts` and `MCLive` put two parts together in the
same way.

| Property | Of the modules |
|---|---|
| `AllTyped` | every part's `TypeOK` |
| `Waterfall`, `ClaimedHasProof`, `FollowsLifecycle` | `Mdf` |
| `RoadmapSound` | `Roadmaps`, where no two edits overlapped: dependencies lead backward, sequence numbers are compact, one milestone per origin, a finalized roadmap has every task |
| `LinksAgreed` | `PortfolioLinks`: consent first, a service user where an agency manages |
| `ServedClean` | `Evidence`: what is streamed was cleared; a linked file has its bytes |
| `RecordsAgree` | `PrivateOffers`, `Programs`, `Tiers`, `Assessments`: a status and the trace of how it came about |
| `HandedOverOnce` | `Metering`, `MdfPlan`, `Tiers`, `Assessments`, `ActionKeys`: what is handed over, and what is clicked for, is done once |
| `SoundAlone` | `Funding`, `Reports`, `Ace`, `Applications`, `Assessments`: a decision stands on what was decided, where no two operations overlapped |
| `VerdictsAreAws` | `Listings`: a change set that a refresh settled on AWS's word is settled so at AWS |
| `CohortsSound` | `Benchmarks`, `Percentiles` |
| `DatesAgree` | `Schedule`, `Projection`, `Completions`, `FundRules` |
| `AdviceSound` | `CommandCenter` |
| `LifecyclesFollowed` | `PrivateOffers`, `Funding`, `Reports` implement `Lifecycle`; `Roadmaps`' `FinalizedFrozen`, `Programs`' `SubmittedReadyAlone`, `Listings`' `SettledStaysAlone`, `FundRules`' `BlocksStay` |

`TypeOK` of the gate and of `Playbooks` is checked by the module's first run, `AccountsTyped` is that of
`Membership` and `Sessions`; that of `TaskMirror` by none, though what it says of transactions is a part of `MirrorInv` (section 4).

Why the bounds are enough:

- Gate: three calls on two keys allow a duplicate beside an unrelated call, a
  retry of a retry, and a loser that waits while a third call is refused. Calls meet only through a key, a
  window or the pool. With a pool of 2, two handlers that need a second connection
  exhaust it; pool 3 in the violating run keeps gridlock out of the picture. The theorems
  hold for all sizes.
- Membership: an owner is lost by two requests about two rows; a duplicate account
  takes two creations of one person, beside the founder: three rows. One sign-in
  races directory sync here; two sign-ins that race each other are covered by the
  theorem `OneAccount`, as are further roles. Two settings requests overlap where both change
  roles, while there is no invitation and a row is left, and until they have crossed (`Overlaps`): two demotions are the overlap that loses
  the last owner, and `MCAccountsOwner` shows it. Disabling, erasing and inviting come one at a
  time, and one row is erased. A sign-in overlaps an erasure if it binds an account, and an
  invitation's changes if it joins by one; the theorem `OwnerRetained` has all of them overlap.
- Sessions: browsers share nothing but the accounts, which their owners' actions
  do not change, so one suffices. Of its two tabs both have an answer under way while at most one account has been
  disabled or revoked (`OverlapOfAnswers`); the theorems have any number of tabs. No action reads `audit`, so
  `ExceptAudit` leaves it out of what distinguishes states; only `MCAccountsStamp`, which is about it, keeps it in. With `Idle` of 1 tick the last instant lies beyond the timeout of
  the first. An age limit of 3 ticks is never reached within the bound, and cannot
  matter: a token has one time, and the idle limit is the shorter one.
- MDF: an operation touches one row, and the rows of a bulk are independent, so one
  request shows what many do. Two operations in flight and the bulk statements between
  them cover every overlap of a check and two updates. Amounts to 3 let
  each stage be smaller, equal, or one too large. The preflight's own cap of
  50 000 lies above any bound here. The same holds of funding submissions.
- Playbooks: two decisions make a pass, and a delivery, a batch of which part is
  done when it fails; two passes, two approvals or two deliveries are the overlaps there
  are. `AtMostTwoBusy` leaves out three at a time; the theorems do not. A second
  rule adds nothing: rules share no row. Routing is the action that may
  fail by itself when automatic, notification the one whose risk depends on the channels.
- Mirror: a deadlock takes two rows and two transactions. The milestones start with one
  status, whichever it is.
- Roadmaps: two editors, which is what an overlap takes. Two roadmaps with two milestones between them, or three
  milestones in one before any task exists: the least that a reorder, a removal from the middle and a diamond of
  dependencies need. Once a roadmap is crossed nothing is said of its structure (section 5), and one milestone is
  kept, which shows that the other roadmap is not disturbed. The theorem has no bound.
- Records with an id that AWS or the database gives out and never takes back (usage records, receipts, controls,
  listings) are given out in order, since ids are interchangeable. Metering: three records are a
  submission, its rejection's retry, and another. Listings: two rows, one entity, one change set; with two rows one
  request at a time, since requests meet through a row. Ace: one opportunity,
  synced or not. Applications: three controls, drafted again at any time, until the first overlap, after
  which the properties say nothing.
- Links: two agencies and one customer, two requests: two approvals that race. Programs: one program of two requirements and one document that
  proves both. Tiers: 0 to 2, two requirements, of which one is computed.
- Benchmarks: two workspaces are the least that a cohort of `MIN_COHORT` = 2 needs, and
  that one workspace's leaving makes thin; two jobs overlap across a midnight. Percentiles: samples of up to
  five values from 0 to 5 have ties at either end and every residue of the rank's denominator 4.
- Engines: workspaces of up to three rows of any kinds, five of deals and relationships alone (the kinds whose
  effects on the score have thresholds on counts); `RepScore` of 33 puts a relationship where
  winning its deal can cool it. Schedules and projections have three milestones; a diamond,
  a chain and a fork are among them. A projection has every first snapshot, up to three days ago and with up to
  three milestones done, or none. A simulation has six runs, so that the median and the ninetieth
  percentile fall on different ones and between two. A year of twelve days, with a lead of three and
  a cut-off on the eighth, has every order of an event's dates, its deadline and the ends of two years.
- ActionKeys: two pages of one record and three tokens: a form used twice, and another beside it. One
  double click at a time: the gate serves calls one by one.

**Fairness.** Only `MCLive` needs any: weak fairness of each gate call's own
server steps, and of each mirror transaction's (`Progress`). An admitted call is a chain of awaited promises in a
running process, and PostgreSQL wakes a waiter when the row's transaction ends, so a
step that stays possible is taken; its deadlock detector runs after `deadlock_timeout` and aborts one
transaction of a cycle. Nothing is assumed of clients, of
crashes, of the window's reset, or of the sweep. Weak fairness is enough since a
waiting call can proceed for good once it can proceed: nothing re-claims a
key for ever, as every call ends.

## 4. Proofs

What follows is proved by TLAPS for all values of the constants, under the
assumptions named in the modules, or `ConstantsOK` where a module has one (sorts do not overlap, bounds are naturals).
None limits the number of calls, users, requests, editors or operations.

**Gate** (`MutationGateProofs`). `AtMostOnce` and `AuditAtomic` say nothing of open
transactions, and so are not inductive. `GateInv` adds: what an open
transaction has written depends only on where the call is (`PendingWrites`); a key has at most one
claimant, and none while a row is committed, so that the claim is a lock (`ClaimsHold`); a
committed row is complete, its call is committed and audited, and both
carry the same body and era (`RowsHold`); a committed effect of the current era has the
row (`EffectsHold`); and a call is done iff it was answered (`AnswersHold`). Each
of the 18 actions has a lemma, and the theorems follow. `WindowsKeepTheirBudget` adds that a
window is a finite set of calls (`WindowInv`): a call passes only if the count with it is within the limit, so the calls that passed
are at most `MaxHits`, however many are counted after them.

**Waiting** (also in `MutationGateProofs`). `NoGridlock` has two conjuncts: while a connection is free or no
handler asks for a second one, some call in the gate waits for nobody (`SomeoneGoesOn`); and not
to wait (`~Waits`) is exactly to have a step that is ENABLED. `WaitingHasAnEnd` proves the first: a call
that waits for a key waits for the call that claimed it, which waits at most for a connection
(`HolderGoesOn`), and when connections are what is missing, those who hold them go on (`IdlePool`). The second
speaks of ENABLED and is checked by TLC.

**Mirror** (also in `MutationGateProofs`). `MirrorInv` says of each transaction that it has one status for both tables, and that
among the rows it has written or has still to write are both rows of a link or neither. Keeping it is a matter of what
the code sends: an UPDATE of many rows reaches each of them in some order (an injection of a finite set into itself
is onto, hence `LinksAssumption`: a workspace has finitely many milestones), and the statements of a reconciliation, one after the other,
reach what each of them does (`FlattenPaired`, by the first of them that would not). Row locks are not needed for
`ChangeMirrors`: a transaction that commits writes both rows of each of its pairs in one step. They are
what `EveryEditEnds` is about.

**Refinement** (also in `MutationGateProofs`). Under `Kinds = {"tenant"}` (every handler writes
through `ctx.tx`), `Init` maps to the ledger's, `Commit` to `Execute`, `Replay` to
`Replay`, all refusals and crashes to `Refuse`, `Sweep` to `Forget`, and every other
step to a stutter. Without the assumption it is false: that is what
`MCMutationGateSystem` shows.

**Membership** (`MembershipProofs`). `OneAccount` assumes `~MixedCase`, the case in
which the unique index compares like with like. The proof needs the pending
operations to carry real rows and persons (`OpsHold`). `OwnerRetained` has any
number of settings requests in flight; its invariant `OwnerInv` says that until two changes of roles have crossed
a demotion that passed the count still leaves an owner *now* (`DemotionsHold`): a disabling, an
erasure, a sign-in or directory sync takes the owner's role from nobody. That crossing is the only way to lose
the last owner is what the theorem adds to `MCAccountsOwner`. The theorems about sessions at the end are those of
`SessionsProofs` for the values that `MCAccounts` gives its parameters.

**MDF** (`CommerceProofs`). The update repeats the check of the status but not that of
the amount. It is right nevertheless, for a reason spread over several functions, which is
the invariant: the figure of a stage that is not reached is 0 (`Unreached`), so
whoever passed a comparison with it saw it decided; a decided figure never
changes; hence what a pending operation compared with still stands
(`PendingFits`). The ask of a draft is the one figure that can change, and
`ApprovedWithinAsk` is the one inequality that fails. `LifecycleFollowed` is an
action property from the same invariant.

**Playbooks** (`PlaybooksProofs`). `FiresOnce` rests on `LedgerInv`: a dispatch can
only come from a pair that has no run while its rule exists, from the one uncommitted run of
such a pair (`WritesAreNew`), or from the one approval that read it
(`ApprovalsHold`); whichever it is, the pair has not fired before. An
approval whose run was deleted stays harmless because the rule is gone for
good, so no pass can insert the pair again. `ExternalSendsApproved` rests on
`MailInv`, which follows an email from the plan (never automatic) through the pass
and the notification to the delivery's batch. `DecisionsStay` is an action property from
`LedgerInv`.

**Sessions** (`SessionsProofs`). A cookie, and an answer on its way to a browser, are tokens, and the
invariant says the same of both (`Held`): its time is not after the browser's last activity; a token that
never acted inside a workspace is its person's own, with the epoch it was born with; one that is an operator's
account is its person's; and one that names an operator is a workspace's, and names its person. `BrowserHolds`
says so of the cookie and of the answer under way, so landing an answer late replaces one such token by another.

**Portfolio links** (`PortfolioLinksProofs`). Nothing in the code takes a consent or a service user back, so what an
operation has read remains true while it waits. `LinkInv` says so of each operation in
flight (`InFlight`: an approval under way is of a request that was made; `Trusted`: who was found managing has
consent), beside the two properties, which are inductive with it. They hold for any number of
racing approvals, although only the last of them manages.

**The parts of MCRecords.** `CommerceProofs`, `ProgramsProofs` and `RecordsProofs` extend `MCRecords`, whose
constants are parameters here: any sets of ids, any number of editors, any bounds. Each part has an inductive
invariant of its own, named for it. Since `Rest` keeps the parts apart, a behaviour of `SpecRecords` is a behaviour of
every part (`StepOfOnePart`, `InitOfEachPart` and the lemmas `PartIs...`), so the theorems at the end of `RecordsProofs`
are about the very properties that the run checks. What each rests on:

- Funding (`SubmissionInv`): on a submission on which no two operations overlap there is at most one operation
  (`FundingOneAtATime`), so what it read stands (`FundingReadingsStand`), and whatever is beyond a draft was asked for
  first (`AskedFirst`). The approval's comparison is then with the ask that is committed. `FundingLifecycle` is the
  refinement of `Lifecycle`, without that restriction: every write repeats the status check. The same shape, with
  the operation's reading of the row, serves reports (`ReportsInv`), opportunities (`AceInv`), applications
  (`ApplicationsInv`, where the reading is the whole table of controls, and a control drafted again since
  the last count stays in it) and assessments (`AssessmentsInv`).
- Offers (`OfferInv`): a sync matches rows that are there, and what it matches is accepted in the same UPDATE.
- Metering (`MeteringInv`): a receipt that an answer in flight carries was billed for the usage beside it, and is on no record and in no
  other answer (`CarriedOnce`); the record that a retry names as its source is there and marked (`SourcesClaimed`). The lemma `PlaceIsOnto`
  says that every position in what AWS answered is the place of one that it processed.
- Listings (`ListingsInv`): a change set that a row or a request names is known to AWS (`SetsTaken`); two refreshes of one row
  in flight have been noted (`RefreshesNoted`); a verdict that a refresh carries is AWS's, and stands once it is a decision (`CallSound`).
- The planner (`PlanInv`): an item without a request was converted by nobody; a conversion that is alone on
  an item has not been preceded. Programs (`ProgramsInv`): a submission that was not overtaken still finds its gate met.
  Tiers (`TiersInv`): a plan leads above tier 0, which is why an estimate does not undo an advancement made before it; the
  wizard is completed iff it is at its last step.
- Roadmaps (`RoadmapsInv`): a roadmap that is not crossed is a chain (`Chain`: sequence numbers 1 to n, each once, with
  dependencies to smaller ones) whose tasks are linked (`Linked`), there is at most one edit in flight on it (`Lone`), and what
  that edit has read is exact (`Exact`: the last milestone, the new places, the heir and dependents of a removal, the
  milestones to finalize). An edit of a crossed roadmap writes only milestones of that roadmap (`Mine`), so the disorder does not
  spread. That places are compact again after a removal, and that an appended milestone is the last, goes by the least
  and the greatest element of a set of numbers (`LeastNat`, `GreatestNat`, `RanksRise`, `LastComes`): the library's
  induction takes an operator, its well-founded order on the naturals does not.
- Evidence (`EvidenceInv`): the object of a download that passed the check was cleared, and a new file is a new object; an upload
  in flight has its bytes.
- Keys (`KeysInv`): a token is of one form, and a fixed key that is used tells how far the record has come, which is
  why its verb is not offered again. That the families outside `Returning` only move forward (`FamiliesSound`) is a fact about their table of verbs.
- Benchmarks (`BenchmarksInv`): a job counts every workspace once, so its count is of distinct members.
  Percentiles (`SampleInv`): for ascending samples of every length the percentiles lie between their neighbours, ascend,
  and split the sample as they should (`SplitsAll`), and ranks follow the values (`RanksAll`).
- Schedules (`DatesInv`): a predecessor is an earlier milestone, a float is not negative, and a planned date is where the plan put
  it. The critical path is a recursive function; its existence is shown from the longest one that exists (`PathsExist`), and
  that it is a chain without slack by the least number of steps after which it would not be (`PathSound`).
- Forecasts: a verdict compares a ceiling of a quotient with a date, and its list compares the same for each milestone;
  `CeilingBounds` puts both between their neighbours, without dividing. Simulations (`RunsInv`): runs ascend, so the share that
  ends by a date and the date by which a share ends are one rank read in two directions (`OddsAll`).
  Deadlines (`DeadlineAll`): all of it follows from the types of a year, a lead and a cut-off.
- The command center: a workspace is a bag of finitely many rows (`Workspace`), and turning a row takes one from each count that
  it leaves and adds one to each that it joins (`Moved`). So at most one driver of the score moves (`OneDriver`),
  in a known direction: quotients are compared before they are rounded (`ShareOrder`, `ShareOfFewer`), and the weighted sum follows
  (`HealthOrder`). `ShareStep` is where the proof found what the bounds of the run do not reach: a requirement that is met moves a
  rounded percentage only among at most a hundred, so beyond that it need not be offered. `MovesHelp` names this exception.

**Model-checked only.** Liveness (`EveryCallAnswered`, `EveryEditEnds`) and the conjunct of `NoGridlock` that speaks of
`ENABLED` are outside the prover's reach. Every other property of a passing run is a theorem.

## 5. Where the code and its comments disagree

Seven runs show it; the violated property quotes the sentence.

1. `AuditAtomicForAll`: "The audit row commits atomically with the mutation"
   (`gate/mutation-gate.ts:32`). `setCustomerPlanOp` and its siblings in
   `domain/portfolio/operations.ts` write in a transaction of their own, committed first. If
   the gate's is lost afterwards, the change has no audit row, and a retry runs the handler again.
2. `RetainsActiveOwner`: "must keep at least one active owner"
   (`domain/settings/operations.ts:81`). The demotion's count (line 65) includes
   disabled owners.
3. `AuditNamesOperator`: every action of an acting operator "is stamped with the
   agency" (`app/settings/page.tsx:328`). The refresh route drops the agency context
   on the first keepalive.
4. `ApprovedWithinAsk`: "approvedAmount <= requestedAmount"
   (`domain/mdf/operations.ts:182`). An edit that found a draft writes by id after
   the approval.
5. `TerminalIsTerminal`: "Terminal: executed / failed / dismissed."
   (`domain/playbooks/lifecycle.ts:7`). `dismissRunOp` has no guard: a dismissal from
   a page that still showed the run as pending ends an executed run as dismissed,
   and an approval that had read it pending executes a dismissed one.
6. `AcceptedOnce`: the source row is annotated, "which is what blocks a
   double-resubmit" (`domain/marketplace/operations.ts:357`). `resubmitMetering` sends the batch to
   AWS before the mutation that annotates it (`domain/marketplace/actions.ts:518`), so two
   retries that overlap, or one whose mutation was lost and its repetition, both reach AWS. Only the books are
   kept from holding both.

7. `RetainsOwner`: "A tenant must always retain at least one owner"
   (`domain/settings/operations.ts:48`). Two demotions of different owners at once each count the other one (line 62)
   and both commit; nobody may then manage the members. Uncrossed, role changes keep an owner: `RetainsOwnerUncrossed`.

Two more comments promise what the code does not do. No run states them:

- "We gate StartChangeSet(Publish) on the same rules so the user gets the failure up front instead of an async
  change-set rejection" (`domain/marketplace/changeset.ts:33-35`). The form is offered for every listing that is not
  published (`app/marketplace/[id]/page.tsx:286`), and `changeAction` calls AWS first (`domain/marketplace/actions.ts:315`); the
  rules are applied in the mutation after it (`domain/marketplace/operations.ts:294`). So AWS is asked to publish
  what is not ready, and the change set it begins has no record here. In `Listings`, `StartChange` has no
  check, and `WriteChange` has it.
- "Roll the count of accepted controls onto the parent" (`domain/applications/operations.ts:150`). Drafting the answer
  of an accepted control again takes the acceptance back by id and counts nothing
  (`domain/applications/generate-actions.ts:142-159`), so the count, and with it "ready", stay too high until
  the next edit. `Draft` is that action; `RollupAlone` counts such controls (`redrafted`) as accepted until then.

The models contain, and the properties step around, further behaviours of the code
that nobody promised otherwise in so many words:

- a member reactivated during an erasure is erased (`:247`), a sign-in that
  found a synced row binds it after its erasure (`auth/provision.ts:93`), and a
  sign-in that read an invitation consumes it after its revocation (`:120`);
- a mixed-case email claim passes the unique index beside the synced lower-case
  one (`auth/provision.ts:113`): hence `~MixedCase` for `OneAccount`;
- an operator who is disabled while acting inside a workspace goes on, since only
  the service user's row is checked (`auth/session.ts:169`), and the exit route then
  mints a session with the current epoch: hence "has not acted" in
  `RevokedMustSignIn`;
- a refresh's answer that lands after a logout signs the browser in again
  (`SessionKeepalive.tsx:27`), and the eight-hour limit restarts with each refresh;
- a bulk approval may approve 0, when an edit empties the ask between a
  submission's check and its update (`domain/mdf/operations.ts:159`), and such a request can go no further;
- a call whose gate key is fixed by its action is replayed, not run, when its user
  repeats it within seven days. That is harmless where the record cannot come back to where the
  call applies, which `ClicksAreCarriedOut` shows for MDF, funding, reports,
  runs, assessments, recommendations, routing, tiers, onboarding and exports. It is not where it can
  (`Returning` in `ActionKeys`): a reopened task (`complete-task:<id>`), the switches of playbooks, webhooks and
  connectors, a program returned to pending (`submit-program:<id>`), a case study attached again
  (`detach-cs:<application>:<study>`). `create-tier-plan`, with another target, ends in a conflict. The gate does
  what it says; the key does not tell the two apart. `domain/roadmaps/actions.ts:39-41` still describes finalize as one of
  these; lines 404-407 explain why it draws a token instead;
- a statement that fails inside an automatic action undoes the whole pass
  (`domain/playbooks/operations.ts:256`): the catch's own UPDATE meets an aborted
  transaction. Only errors the operation throws by itself stay on the run; a failed approval
  leaves no trace on it either (`:296`), since the error is thrown on to the gate;
- a message is sent before its status commits with the batch, so a crash or an
  overlapping delivery sends it again (`domain/playbooks/deliver-run.ts:28`); the
  later commit may then record as failed what was sent;
- an approved notification goes to the channels the rule has when it is approved, not to
  those it was evaluated with (`domain/playbooks/operations.ts:282`);
- two agencies' requests approved at once both pass the check that nobody manages the workspace
  (`domain/portfolio/operations.ts:172`): the later one manages, the earlier keeps its service user. A
  rejection that overlaps an approval may leave the request rejected and the link made (`:196`);
- two conversions of a plan item that overlap make two requests (`domain/mdf/plan-operations.ts:197`);
  the item leads to the later;
- a draft of a submission that is edited while another operation submits it may be
  approved beyond its ask, as in 4;
- a narrative that was begun before a regeneration and ends after it is saved beside the new snapshot, and a report may be
  approved on a snapshot that a regeneration replaces;
- an approval "requires an assigned owner" (`domain/ace/operations.ts:213-215`), but one whose opportunity
  loses its owner to a bulk edit in between goes through, and an edit that overlaps an approval routes it again; accepting
  AWS's side and the sales-org sync close an opportunity without `closed_at`, which
  `drizzle/0051_win_loss.sql:6` describes as the day it was closed;
- two edits of an application's controls that overlap each miss the other's uncommitted rows, so
  count and status stay wrong until the next edit; one that overlaps an export may take the
  status back;
- a save that overlaps the submission of an assessment changes answers that were already scored;
- a review of evidence approves whatever file is linked by then, not the one that was looked at;
- two edits of one roadmap that overlap guarantee nothing of its structure: nothing locks the roadmap, so both pass
  `assertDraftRoadmap` and write by id. The comments that removal and reordering "re-wire the linear chain"
  (`domain/roadmaps/operations.ts:791`, `:929`) describe more than the code does, which heals only the references
  that would dangle or lead forward (`:830-831`, `:1001`);
- finalizing gives an open task to a milestone of whatever status (`domain/roadmaps/operations.ts:1064`), so the two may
  start apart, and a milestone that is reconciled may have been edited since it was read: hence
  `ChangeMirrors` speaks of what a step leaves, and not of all states;
- a retried batch is matched with AWS's results by position (`domain/marketplace/actions.ts:528`). If AWS leaves a record
  unprocessed, the results shift: a rejected record is annotated as resubmitted for another's result, and
  the last is recorded as rejected once more. The retry's row describes the usage
  that AWS answered for, which is what `ReceiptOnce` shows;
- a local listing "until a sync replaces it" (`domain/marketplace/operations.ts:135-137`) is not
  replaced: the sync adds a second row. A change set refreshed without a connection is recorded as succeeded;
  two refreshes that overlap may take a settled change set back to in progress. Nothing
  sets the status `changing`;
- a program's submission answers "submitted" although the result of its guarded UPDATE is not looked at
  (`domain/programs/operations.ts:422-432`), and the gate is not evaluated again in it;
- a cohort that has become too thin keeps its last row, and members are shown the newest there is, however old. A
  member of a cohort of equals is in the "top quartile" with percentile 25;
- a deal that is won may cool its relationship, so that the queue does not shrink as
  `domain/command/impact.ts:54-56` says of every move; resolving the only blocked task may lower the health
  score, and is then not offered: hence `MovesHelp` says nothing of the score and the offer of any blocked task; a document that was never approved leaves the queue once its date is past;
- progress may put a forecast off. The page ends the series of snapshots with what is done today
  (`app/plan/roadmaps/[id]/page.tsx:175-186`), so the first milestone finished since the first snapshot turns a
  projection by dates into one at a velocity. With 4 milestones of which 2 were done in a snapshot ten days ago, the first
  of them due yesterday, the end is tomorrow; finishing a third puts it ten days away. `ProgressNeverDelays`
  exempts that step, and holds of every other one;
- a forecast's division is rounded up in floating point, and can be a day late; without a history it
  measures from the earliest target date. The date to claim by, capped on December 15, can precede the event's end;
- by an advancement "the workspace's tier actually moves up" (`domain/tiers/operations.ts:329`), but a plan made
  from the lowest tier may be achieved after an onboarding has estimated a higher one, which it then replaces.

## 6. Plan

Done: the gate with its ledger and keys, membership, sessions, MDF requests and their planner, playbooks, portfolio
links, evidence, funding, the marketplace, roadmaps with their tasks and dates, opportunities, applications,
assessments, programs, tiers and onboarding, reports, benchmarks, and the engines of the command center and
the forecasts; proofs of their safety properties.

Left, most important first:

1. Webhook deliveries of playbooks, and that a pending notification is eventually handed over, which needs a
   scheduler whose ticks do not crash for ever.
2. The budget optimizer and an item's figures (`domain/mdf/mdf-optimizer.ts`, whose comment gives the rounding remainder to
   the top-ranked activity and whose code to the last).
3. The other projections of `domain/forecast/project.ts`; goals of `domain/ace-goals`.

## 7. Not modelled

Authorization is a fixed table and row-level security a fixed set of policies;
the gate's refusal stands for both. Of the gate's limiter the in-memory form is
modelled; the adapter a deployment with Redis uses is a library's sliding window. Database
failover, isolation anomalies below READ COMMITTED, and clock skew between
processes are left out. SAML and OIDC messages are left out; a
sign-in begins with a verified claim.

About half of the repository's implementation renders pages and components; what of it bears on state,
the forms and their tokens, is in `ActionKeys`. Of the rest, the loaders assemble rows for pages, catalogues and
schemas are data, and clients of AWS, of the language model and of the identity providers are I/O. The content
of case studies and solutions, saved views, exports and demo data are single-row edits where no two steps
depend on each other. `PROJECT.json` gives the reason for each component, and for a component that is partly
modelled what is left out of it.
