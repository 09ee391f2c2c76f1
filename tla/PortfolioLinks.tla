--------------------------- MODULE PortfolioLinks ---------------------------
(***************************************************************************)
(* Agencies and the workspaces they manage                                 *)
(* (src/domain/portfolio/operations.ts, src/auth/agency.ts): an agency     *)
(* creates workspaces or asks the owner of one to be linked; once linked   *)
(* it acts inside the workspace as a service user, and sets its package.   *)
(*                                                                         *)
(* Every operation checks in one statement and writes in later ones by id, *)
(* at READ COMMITTED: the checks are one action here and the writes, with  *)
(* the commit, another.                                                    *)
(*                                                                         *)
(* Slugs, invitations, the seeded onboarding row and the package's value   *)
(* are left out.  Nothing in the code clears agency_id or changes          *)
(* is_agency.                                                              *)
(***************************************************************************)
CONSTANTS
    Agencies,   \* tenants with is_agency
    Customers,  \* the other tenants' ids
    Requests,   \* ids of agency_link_requests rows
    Visits,     \* operations in flight
    None        \* not managed, no row, nothing in flight

VARIABLES
    existing,  \* tenants rows
    agency,    \* tenants.agency_id
    service,   \* users rows: <<a, t>>, the service user of a in t
    request,   \* the agency_link_requests table
    visit,     \* what each operation in flight has read
    consent,   \* history: <<a, t>>, t was approved for a by its owner or made by a
    acted      \* history: <<a, t>>, a has acted in t or set its package

vars == <<existing, agency, service, request, visit, consent, acted>>

-----------------------------------------------------------------------------

Tenants == Agencies \cup Customers

Links == Agencies \X Tenants

Row == [agency: Agencies, target: Tenants, status: {"pending", "approved", "rejected"}]

Visit == [kind: {"link", "switch", "plan"}, agency: Agencies, target: Tenants]
         \cup [kind: {"approve", "reject"}, request: Requests]

\* What the constants satisfy.
ConstantsOK ==
    /\ Agencies \cap Customers = {}
    /\ None \notin Agencies \cup Customers
    /\ None \notin Row
    /\ None \notin Visit

TypeOK ==
    /\ existing \subseteq Tenants
    /\ agency \in [Tenants -> Agencies \cup {None}]
    /\ service \subseteq Links
    /\ request \in [Requests -> Row \cup {None}]
    /\ visit \in [Visits -> Visit \cup {None}]
    /\ consent \subseteq Links
    /\ acted \subseteq Links

\* The agencies and any of the customers; the others' workspaces do not exist.
Init ==
    /\ \E S \in SUBSET Customers : existing = Agencies \cup S
    /\ agency = [t \in Tenants |-> None]
    /\ service = {}
    /\ request = [q \in Requests |-> None]
    /\ visit = [v \in Visits |-> None]
    /\ consent = {}
    /\ acted = {}

-----------------------------------------------------------------------------

Rows == {q \in Requests : request[q] # None}

Pending(q) == q \in Rows /\ request[q].status = "pending"

Read(v, what) ==
    /\ visit[v] = None
    /\ visit' = [visit EXCEPT ![v] = what]
    /\ UNCHANGED <<existing, agency, service, request, consent, acted>>

Done(v) == visit' = [visit EXCEPT ![v] = None]

Doing(v, kind) == visit[v] # None /\ visit[v].kind = kind

\* assertManages, and the check that ensureAgencyServiceUser repeats.
Manages(a, t) == t \in existing /\ agency[t] = a

-----------------------------------------------------------------------------

\* createManagedWorkspaceOp, in a transaction of its own.
CreateManaged(a, t) ==
    /\ t \in Customers \ existing
    /\ existing' = existing \cup {t}
    /\ agency' = [agency EXCEPT ![t] = a]
    /\ service' = service \cup {<<a, t>>}
    /\ consent' = consent \cup {<<a, t>>}
    /\ UNCHANGED <<request, visit, acted>>

\* requestLinkOp: an agency asks for a workspace nobody manages; a pending
\* request of the pair is found again instead.
ReadLink(v, a, t) ==
    /\ t \in existing
    /\ t # a
    /\ t \notin Agencies
    /\ agency[t] = None
    /\ \A q \in Rows : ~(Pending(q) /\ request[q].agency = a /\ request[q].target = t)
    /\ Read(v, [kind |-> "link", agency |-> a, target |-> t])

WriteLink(v) ==
    /\ Doing(v, "link")
    /\ \E q \in Requests \ Rows :
          request' = [request EXCEPT ![q] = [agency |-> visit[v].agency,
                                             target |-> visit[v].target,
                                             status |-> "pending"]]
    /\ Done(v)
    /\ UNCHANGED <<existing, agency, service, consent, acted>>

\* approveLinkOp, by an owner of the target: the request is pending and the
\* workspace is not managed.
ReadApprove(v, q) ==
    /\ Pending(q)
    /\ request[q].target \notin Agencies
    /\ agency[request[q].target] = None
    /\ Read(v, [kind |-> "approve", request |-> q])

\* ensureAgencyServiceUser sees the link that the transaction itself has set.
WriteApprove(v) ==
    LET q == visit[v].request
        a == request[q].agency
        t == request[q].target
    IN  /\ Doing(v, "approve")
        /\ agency' = [agency EXCEPT ![t] = a]
        /\ service' = service \cup {<<a, t>>}
        /\ request' = [request EXCEPT ![q].status = "approved"]
        /\ consent' = consent \cup {<<a, t>>}
        /\ Done(v)
        /\ UNCHANGED <<existing, acted>>

\* rejectLinkOp
ReadReject(v, q) ==
    /\ Pending(q)
    /\ Read(v, [kind |-> "reject", request |-> q])

WriteReject(v) ==
    /\ Doing(v, "reject")
    /\ request' = [request EXCEPT ![visit[v].request].status = "rejected"]
    /\ Done(v)
    /\ UNCHANGED <<existing, agency, service, consent, acted>>

\* Variant: a pending request will do.
ReadAsked(v, kind, a, t) ==
    /\ t \in existing
    /\ Manages(a, t) \/ \E q \in Rows : request[q].agency = a /\ request[q].target = t
    /\ Read(v, [kind |-> kind, agency |-> a, target |-> t])

\* The act-as switch: ensureAgencyServiceUser checks the link in the
\* transaction that finds or makes the service user; then the session is
\* minted.  setCustomerPlanOp: the check and the update are two transactions.
ReadManaged(v, kind, a, t) ==
    /\ Manages(a, t)
    /\ Read(v, [kind |-> kind, agency |-> a, target |-> t])

Switch(v) ==
    LET link == <<visit[v].agency, visit[v].target>>
    IN  /\ Doing(v, "switch")
        /\ service' = service \cup {link}
        /\ acted' = acted \cup {link}
        /\ Done(v)
        /\ UNCHANGED <<existing, agency, request, consent>>

SetPlan(v) ==
    /\ Doing(v, "plan")
    /\ acted' = acted \cup {<<visit[v].agency, visit[v].target>>}
    /\ Done(v)
    /\ UNCHANGED <<existing, agency, service, request, consent>>

\* A connection is lost, or a statement fails: nothing is left.
Fail(v) ==
    /\ visit[v] # None
    /\ Done(v)
    /\ UNCHANGED <<existing, agency, service, request, consent, acted>>

Next ==
    \/ \E a \in Agencies, t \in Tenants :
          \/ CreateManaged(a, t)
          \/ \E v \in Visits :
                \/ ReadLink(v, a, t)
                \/ \E kind \in {"switch", "plan"} : ReadManaged(v, kind, a, t)
    \/ \E v \in Visits :
          \/ \E q \in Requests : ReadApprove(v, q) \/ ReadReject(v, q)
          \/ WriteLink(v)
          \/ WriteApprove(v)
          \/ WriteReject(v)
          \/ Switch(v)
          \/ SetPlan(v)
          \/ Fail(v)

Spec == Init /\ [][Next]_vars

-----------------------------------------------------------------------------
(* Properties *)

\* The agency that manages a workspace has its service user there, even where
\* two agencies' requests were approved at once and the later link replaced
\* the earlier.
ManagedHasService ==
    \A t \in Tenants : agency[t] # None => <<agency[t], t>> \in service

\* No agency manages a workspace, has a service user in it, acts inside it or
\* sets its package unless the workspace's owner approved a request of that
\* agency, or the agency made the workspace.
ConsentFirst ==
    /\ service \cup acted \subseteq consent
    /\ \A t \in Tenants : agency[t] # None => <<agency[t], t>> \in consent
=============================================================================
