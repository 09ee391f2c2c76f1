----------------------------- MODULE ActionKeys -----------------------------
(***************************************************************************)
(* The keys that the server actions (src/domain/*/actions.ts) hand to the  *)
(* mutation gate.  A form in a page carries a token, which it renews when  *)
(* its action has succeeded (src/components/ui/MutationForm.tsx); an       *)
(* action passes the token as the gate's key, or a key of its own that     *)
(* depends on the record and the decision alone.  A completed key replays  *)
(* its answer for as long as retention keeps it.                           *)
(*                                                                         *)
(* One record, of some family, and the pages that show it; a mutation is   *)
(* one step, as MutationGate allows.  A family is its verbs: from which    *)
(* statuses an action leads to which, by what key.  Other conditions of    *)
(* the operations, and the fields of a form, are left out.                 *)
(***************************************************************************)
EXTENDS Naturals

CONSTANTS
    Pages,      \* pages that people have open
    MaxTokens,  \* bound: how many tokens are drawn
    None        \* no form

VARIABLES
    family,  \* what the record is
    status,  \* its status
    keys,    \* idempotency_keys: the completed ones
    page,    \* the form in use on each page
    drawn,   \* how many tokens have been drawn
    hollow   \* history: verbs of which a fresh click was only answered

vars == <<family, status, keys, page, drawn, hollow>>

-----------------------------------------------------------------------------
(* Families.  Fixed: a key of the record and the decision; Drawn: the       *)
(* form's token.                                                           *)

Fixed(name, from, to) == [name |-> name, fixed |-> TRUE, from |-> from, to |-> to]

Drawn(name, from, to) == [name |-> name, fixed |-> FALSE, from |-> from, to |-> to]

MdfVerbs ==
    {Fixed("submit", {"draft"}, "requested"), Fixed("approve", {"requested"}, "approved"),
     Fixed("reject", {"requested"}, "rejected"), Fixed("deploy", {"approved"}, "deployed"),
     Fixed("claim", {"deployed"}, "claimed"), Fixed("reimburse", {"claimed"}, "reimbursed")}

FundingVerbs ==
    {Fixed("submit", {"draft"}, "submitted"), Fixed("review", {"submitted"}, "in_review"),
     Fixed("approve", {"submitted", "in_review"}, "approved"),
     Fixed("reject", {"submitted", "in_review"}, "rejected"),
     Fixed("fund", {"approved"}, "funded"),
     Fixed("withdraw", {"draft", "submitted", "in_review"}, "withdrawn")}

ReportVerbs ==
    {Fixed("review", {"draft"}, "reviewed"), Fixed("approve", {"reviewed"}, "approved"),
     Fixed("export", {"approved"}, "exported")}

\* dismissRunOp takes a run of any status.
RunVerbs ==
    {Fixed("approve", {"pending"}, "executed"),
     Fixed("dismiss", {"pending", "executed", "dismissed"}, "dismissed")}

AssessmentVerbs ==
    {Fixed("submit", {"draft"}, "scored"), Drawn("save", {"draft"}, "draft")}

RecommendationVerbs ==
    {Fixed("approve", {"pending"}, "approved"), Fixed("reject", {"pending"}, "rejected"),
     Drawn("approveAll", {"pending"}, "approved")}

RoutingVerbs ==
    {Drawn("route", {"unrouted"}, "routed"), Fixed("approve", {"routed"}, "approved")}

TierVerbs ==
    {Fixed("create", {"absent"}, "active"), Fixed("advance", {"active"}, "achieved")}

OnboardingVerbs ==
    {Fixed("start", {"absent"}, "in_progress"), Fixed("complete", {"in_progress"}, "completed")}

\* markExportedOp asks for no status; later edits leave "exported" alone.
ApplicationVerbs ==
    {Fixed("export", {"draft", "ready", "exported"}, "exported"),
     Drawn("accept", {"draft"}, "ready"), Drawn("edit", {"ready"}, "draft")}

RoadmapVerbs ==
    {Drawn("finalize", {"draft"}, "finalized"), Drawn("reopen", {"finalized"}, "draft")}

\* Every row it writes is one more.
CreateVerbs == {Drawn("create", {"any"}, "any")}

TaskVerbs ==
    {Fixed("complete", {"open"}, "done"), Drawn("update", {"open", "done"}, "open"),
     Drawn("bulkComplete", {"open", "done"}, "done")}

\* Playbooks, webhooks and connectors
SwitchVerbs ==
    {Fixed("enable", {"on", "off"}, "on"), Fixed("disable", {"on", "off"}, "off")}

ProgramVerbs ==
    {Fixed("submit", {"pending"}, "submitted"),
     Drawn("return", {"pending", "submitted", "active"}, "pending"),
     Drawn("activate", {"pending", "submitted", "active"}, "active")}

\* A case study on an application
AttachVerbs == {Drawn("attach", {"off"}, "on"), Fixed("detach", {"on"}, "off")}

Verbs ==
    [mdf |-> MdfVerbs, funding |-> FundingVerbs, report |-> ReportVerbs,
     run |-> RunVerbs, assessment |-> AssessmentVerbs, recommendation |-> RecommendationVerbs,
     routing |-> RoutingVerbs, tier |-> TierVerbs, onboarding |-> OnboardingVerbs,
     application |-> ApplicationVerbs, roadmap |-> RoadmapVerbs, row |-> CreateVerbs,
     task |-> TaskVerbs, switch |-> SwitchVerbs,
     program |-> ProgramVerbs, attachment |-> AttachVerbs]

Families == DOMAIN Verbs

\* Families with a fixed key whose record can come back to where it was.
Returning == {"task", "switch", "program", "attachment"}

First ==
    [f \in Families |->
        CASE f \in {"mdf", "funding", "report", "assessment", "application", "roadmap"} -> "draft"
          [] f \in {"run", "recommendation", "program"} -> "pending"
          [] f \in {"tier", "onboarding"} -> "absent"
          [] f = "routing" -> "unrouted"
          [] f = "row" -> "any"
          [] f = "task" -> "open"
          [] f \in {"switch", "attachment"} -> "off"]

Statuses(f) == {First[f]} \cup {v.to : v \in Verbs[f]}

-----------------------------------------------------------------------------

Tokens == 1..MaxTokens

Key(v, token) == IF v.fixed THEN <<v.name, 0>> ELSE <<"token", token>>

\* token: 0 in the form of an action that leaves it aside.  clicks: not yet
\* answered; again: the next of them was preceded by another one, with the same
\* token; runs: history, how often the action has run since the first of them.
Form(f) == [verb: Verbs[f], token: 0..MaxTokens, clicks: 0..2, again: BOOLEAN, runs: 0..2]

\* What the constants satisfy.
ConstantsOK ==
    /\ MaxTokens \in Nat \ {0}
    /\ \A f \in Families : None \notin Form(f)

TypeOK ==
    /\ family \in Families
    /\ status \in Statuses(family)
    /\ keys \subseteq {Key(v, t) : v \in Verbs[family], t \in Tokens}
    /\ page \in [Pages -> Form(family) \cup {None}]
    /\ drawn \in 0..MaxTokens
    /\ hollow \subseteq Verbs[family]

Init ==
    /\ family \in Families
    /\ status = First[family]
    /\ keys = {}
    /\ page = [p \in Pages |-> None]
    /\ drawn = 0
    /\ hollow = {}

-----------------------------------------------------------------------------

\* A page is rendered, with the form of an action that is possible now.
Open(p, v) ==
    /\ page[p] = None
    /\ v \in Verbs[family]
    /\ status \in v.from
    /\ v.fixed \/ drawn < MaxTokens
    /\ drawn' = IF v.fixed THEN drawn ELSE drawn + 1
    /\ page' = [page EXCEPT ![p] =
          [verb |-> v, token |-> IF v.fixed THEN 0 ELSE drawn', clicks |-> 0,
           again |-> FALSE, runs |-> 0]]
    /\ UNCHANGED <<family, status, keys, hollow>>

\* The button is disabled while an action is pending, as soon as that shows: a
\* double click gets through, and its answers come one after the other.
Click(p) ==
    /\ page[p] # None
    /\ page[p].clicks < 2
    /\ ~page[p].again
    /\ page' = [page EXCEPT ![p].clicks = @ + 1,
                            ![p].runs = IF page[p].clicks = 0 THEN 0 ELSE @]
    /\ UNCHANGED <<family, status, keys, drawn, hollow>>

\* The form after an answer: the token is renewed once all is well.
Answered(form, ok, runs) ==
    [form EXCEPT !.clicks = @ - 1, !.again = form.clicks = 2,
                 !.token = IF ok /\ form.clicks = 1 /\ @ # 0 THEN drawn + 1 ELSE @,
                 !.runs = IF runs THEN @ + 1 ELSE @]

\* runMutation for the first click that waits: a completed key is answered
\* from the table; otherwise the operation runs, or refuses and leaves nothing.
\* The page then shows the answer, or has moved on, or never got it.
Serve(p, stays) ==
    LET form == page[p]
        v == form.verb
        k == Key(v, form.token)
        replayed == k \in keys
        runs == ~replayed /\ status \in v.from
        next == Answered(form, replayed \/ runs, runs)
    IN  /\ form # None
        /\ form.clicks > 0
        /\ status' = IF runs THEN v.to ELSE status
        /\ keys' = IF runs THEN keys \cup {k} ELSE keys
        /\ hollow' = IF /\ replayed /\ ~form.again
                        /\ v.fixed => status \in v.from \ {v.to}
                     THEN hollow \cup {v} ELSE hollow
        /\ stays => next.token <= MaxTokens
        /\ drawn' = IF stays /\ next.token > drawn THEN next.token ELSE drawn
        /\ page' = [page EXCEPT ![p] = IF stays THEN next ELSE None]
        /\ UNCHANGED family

\* The page is left, or its clicks do not reach the server.
Close(p) ==
    /\ page[p] # None
    /\ page' = [page EXCEPT ![p] = None]
    /\ UNCHANGED <<family, status, keys, drawn, hollow>>

\* runRetentionOp, seven days after: no click waits that long.
Sweep(k) ==
    /\ k \in keys
    /\ \A p \in Pages : page[p] # None =>
          page[p].clicks = 0 \/ Key(page[p].verb, page[p].token) # k
    /\ keys' = keys \ {k}
    /\ UNCHANGED <<family, status, page, drawn, hollow>>

-----------------------------------------------------------------------------

Next ==
    \/ \E p \in Pages :
          \/ \E v \in Verbs[family] : Open(p, v)
          \/ Click(p)
          \/ \E stays \in BOOLEAN : Serve(p, stays)
          \/ Close(p)
    \/ \E k \in keys : Sweep(k)

Spec == Init /\ [][Next]_vars

-----------------------------------------------------------------------------
(* Properties *)

\* "While a fresh edit is a new operation" (MutationForm.tsx:18): a fresh click
\* that is answered well has been carried out, although the form's key, or the
\* record's, was used before.  With a fixed key that means that nothing is left
\* to do, which fails where a record can come back within the seven days.
ClicksAreCarriedOut ==
    \A v \in hollow : v.fixed /\ family \in Returning

\* Nothing runs more often than somebody clicked for it: the second click of a
\* double click is replayed or refused, whatever it was for.
OncePerClick == \A p \in Pages : page[p] # None => page[p].runs <= 1
=============================================================================
