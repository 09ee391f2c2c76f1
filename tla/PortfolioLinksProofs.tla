------------------------- MODULE PortfolioLinksProofs -------------------------
(***************************************************************************)
(* Who manages whom, for every number of agencies, workspaces, requests    *)
(* and operations.                                                         *)
(*                                                                         *)
(* The invariant adds to the properties what an operation in flight may    *)
(* rely on of what it has read: the request of a decision is still a row   *)
(* (InFlight), and whoever was found to manage a workspace has its consent *)
(* for good, though perhaps no longer the link (Trusted).                  *)
(***************************************************************************)
EXTENDS PortfolioLinks, TLAPS

InFlight ==
    \A v \in Visits :
        Doing(v, "approve") \/ Doing(v, "reject") => visit[v].request \in Rows

Trusted ==
    \A v \in Visits :
        Doing(v, "switch") \/ Doing(v, "plan") =>
            <<visit[v].agency, visit[v].target>> \in consent

LinkInv == TypeOK /\ InFlight /\ Trusted /\ ManagedHasService /\ ConsentFirst

-----------------------------------------------------------------------------

\* What an operation in flight has read, by its kind (a visit has the fields
\* of portfolio/operations.ts' inputs).
LEMMA VisitFields ==
    ASSUME ConstantsOK, TypeOK, NEW v \in Visits, visit[v] # None
    PROVE  /\ visit[v] \in Visit
           /\ Doing(v, "link") \/ Doing(v, "switch") \/ Doing(v, "plan") =>
                 visit[v].agency \in Agencies /\ visit[v].target \in Tenants
           /\ Doing(v, "approve") \/ Doing(v, "reject") => visit[v].request \in Requests
<1>1. visit[v] \in Visit
  BY DEF TypeOK
<1>2. CASE visit[v] \in [kind: {"link", "switch", "plan"}, agency: Agencies, target: Tenants]
  BY <1>1, <1>2 DEF Doing
<1>3. CASE visit[v] \in [kind: {"approve", "reject"}, request: Requests]
  BY <1>1, <1>3 DEF Doing
<1> QED
  BY <1>1, <1>2, <1>3 DEF Visit

\* A request's row has its agency and its target.
LEMMA RowFields ==
    ASSUME ConstantsOK, TypeOK, NEW q \in Requests, q \in Rows
    PROVE  /\ request[q] \in Row
           /\ request[q].agency \in Agencies
           /\ request[q].target \in Tenants
<1>1. request[q] \in Row
  BY DEF TypeOK, Rows
<1> QED
  BY <1>1 DEF Row

\* The empty tables.
LEMMA InitEstablishes == ASSUME ConstantsOK, Init PROVE LinkInv
<1>1. TypeOK
  BY DEF ConstantsOK, Init, TypeOK, Tenants, Links
<1>2. InFlight /\ Trusted
  BY DEF Init, InFlight, Trusted, Doing
<1>3. ManagedHasService /\ ConsentFirst
  BY DEF Init, ManagedHasService, ConsentFirst
<1> QED
  BY <1>1, <1>2, <1>3 DEF LinkInv

\* An operation that reads changes nothing but its own visit.
LEMMA ReadPreserves ==
    ASSUME ConstantsOK, LinkInv, NEW v \in Visits, NEW what \in Visit, Read(v, what),
           what.kind \in {"approve", "reject"} => what.request \in Rows,
           what.kind \in {"switch", "plan"} => <<what.agency, what.target>> \in consent
    PROVE  LinkInv'
<1> USE DEF LinkInv
<1>1. visit' = [visit EXCEPT ![v] = what] /\ visit'[v] = what
  BY DEF Read, TypeOK
<1>2. UNCHANGED <<existing, agency, service, request, consent, acted>>
  BY DEF Read
<1>3. TypeOK'
  BY <1>1, <1>2 DEF TypeOK
<1>4. InFlight'
  BY <1>1, <1>2 DEF InFlight, Doing, Rows, TypeOK
<1>5. Trusted'
  BY <1>1, <1>2 DEF Trusted, Doing, TypeOK
<1>6. ManagedHasService' /\ ConsentFirst'
  BY <1>2 DEF ManagedHasService, ConsentFirst
<1> QED
  BY <1>3, <1>4, <1>5, <1>6

\* An operation that ends leaves the others' readings to them.
LEMMA DonePreserves ==
    ASSUME ConstantsOK, LinkInv, NEW v \in Visits, Done(v),
           Rows \subseteq Rows', consent \subseteq consent'
    PROVE  visit' \in [Visits -> Visit \cup {None}] /\ InFlight' /\ Trusted'
<1>1. visit' \in [Visits -> Visit \cup {None}]
  BY DEF Done, LinkInv, TypeOK
<1>2. visit'[v] = None /\ \A w \in Visits \ {v} : visit'[w] = visit[w]
  BY DEF Done, LinkInv, TypeOK
<1>3. InFlight'
  BY <1>2 DEF LinkInv, InFlight, Doing
<1>4. Trusted'
  BY <1>2 DEF LinkInv, Trusted, Doing
<1> QED
  BY <1>1, <1>3, <1>4

LEMMA CreateManagedPreserves ==
    ASSUME ConstantsOK, LinkInv, NEW a \in Agencies, NEW t \in Tenants, CreateManaged(a, t)
    PROVE  LinkInv'
<1> USE DEF LinkInv, CreateManaged
<1>1. TypeOK'
  BY DEF TypeOK, Tenants, Links
<1>2. InFlight' /\ Trusted'
  BY DEF InFlight, Trusted, Doing, Rows
<1>3. ManagedHasService' /\ ConsentFirst'
  BY DEF ManagedHasService, ConsentFirst, TypeOK
<1> QED
  BY <1>1, <1>2, <1>3

LEMMA ReadLinkPreserves ==
    ASSUME ConstantsOK, LinkInv, NEW v \in Visits, NEW a \in Agencies, NEW t \in Tenants,
           ReadLink(v, a, t)
    PROVE  LinkInv'
<1> DEFINE what == [kind |-> "link", agency |-> a, target |-> t]
<1>1. what \in Visit /\ what.kind = "link"
  BY DEF Visit
<1>2. Read(v, what)
  BY DEF ReadLink
<1> HIDE DEF what
<1> QED
  BY <1>1, <1>2, ReadPreserves

LEMMA ReadManagedPreserves ==
    ASSUME ConstantsOK, LinkInv, NEW v \in Visits, NEW kind \in {"switch", "plan"},
           NEW a \in Agencies, NEW t \in Tenants, ReadManaged(v, kind, a, t)
    PROVE  LinkInv'
<1> DEFINE what == [kind |-> kind, agency |-> a, target |-> t]
<1>1. what \in Visit /\ what.kind = kind /\ what.agency = a /\ what.target = t
  BY DEF Visit
<1>2. Read(v, what)
  BY DEF ReadManaged
<1>3. <<a, t>> \in consent
  BY DEF ReadManaged, Manages, LinkInv, ConsentFirst, ConstantsOK
<1> HIDE DEF what
<1> QED
  BY <1>1, <1>2, <1>3, ReadPreserves

LEMMA ReadDecisionPreserves ==
    ASSUME ConstantsOK, LinkInv, NEW v \in Visits, NEW q \in Requests,
           ReadApprove(v, q) \/ ReadReject(v, q)
    PROVE  LinkInv'
<1>1. PICK kind \in {"approve", "reject"} : Read(v, [kind |-> kind, request |-> q])
  BY DEF ReadApprove, ReadReject
<1> DEFINE what == [kind |-> kind, request |-> q]
<1>2. what \in Visit /\ what.kind = kind /\ what.request = q
  BY DEF Visit
<1>3. q \in Rows
  BY DEF ReadApprove, ReadReject, Pending
<1>4. Read(v, what)
  BY <1>1
<1> HIDE DEF what
<1> QED
  BY <1>2, <1>3, <1>4, ReadPreserves

LEMMA WriteLinkPreserves ==
    ASSUME ConstantsOK, LinkInv, NEW v \in Visits, WriteLink(v) PROVE LinkInv'
<1>1. visit[v] # None /\ visit[v].agency \in Agencies /\ visit[v].target \in Tenants
  BY VisitFields DEF WriteLink, Doing, LinkInv
<1> DEFINE row == [agency |-> visit[v].agency, target |-> visit[v].target, status |-> "pending"]
<1>2. row \in Row
  BY <1>1 DEF Row
<1>3. PICK q \in Requests \ Rows : request' = [request EXCEPT ![q] = row]
  BY DEF WriteLink
<1> HIDE DEF row
<1>4. request' \in [Requests -> Row \cup {None}]
  BY <1>2, <1>3 DEF LinkInv, TypeOK
<1>5. Rows \subseteq Rows'
  BY <1>2, <1>3 DEF LinkInv, TypeOK, Rows, ConstantsOK
<1>6. visit' \in [Visits -> Visit \cup {None}] /\ InFlight' /\ Trusted'
  BY <1>5, DonePreserves DEF WriteLink
<1>7. TypeOK'
  BY <1>4, <1>6 DEF WriteLink, LinkInv, TypeOK
<1>8. ManagedHasService' /\ ConsentFirst'
  BY DEF WriteLink, LinkInv, ManagedHasService, ConsentFirst
<1> QED
  BY <1>6, <1>7, <1>8 DEF LinkInv

LEMMA WriteApprovePreserves ==
    ASSUME ConstantsOK, LinkInv, NEW v \in Visits, WriteApprove(v) PROVE LinkInv'
<1> DEFINE q == visit[v].request
           a == request[q].agency
           t == request[q].target
<1>1. q \in Requests /\ q \in Rows
  BY VisitFields DEF WriteApprove, Doing, LinkInv, InFlight
<1>2. request[q] \in Row /\ a \in Agencies /\ t \in Tenants
  BY <1>1, RowFields DEF LinkInv
<1>3. [request[q] EXCEPT !.status = "approved"] \in Row
  BY <1>2 DEF Row
<1>4. /\ agency' = [agency EXCEPT ![t] = a]
      /\ service' = service \cup {<<a, t>>}
      /\ request' = [request EXCEPT ![q] = [request[q] EXCEPT !.status = "approved"]]
      /\ consent' = consent \cup {<<a, t>>}
      /\ UNCHANGED <<existing, acted>>
  BY DEF WriteApprove
<1> HIDE DEF q, a, t
<1>5. request' \in [Requests -> Row \cup {None}]
  BY <1>1, <1>3, <1>4 DEF LinkInv, TypeOK
<1>6. Rows \subseteq Rows'
  BY <1>1, <1>3, <1>4 DEF LinkInv, TypeOK, Rows, ConstantsOK
<1>7. visit' \in [Visits -> Visit \cup {None}] /\ InFlight' /\ Trusted'
  BY <1>4, <1>6, DonePreserves DEF WriteApprove
<1>8. TypeOK'
  BY <1>2, <1>4, <1>5, <1>7 DEF LinkInv, TypeOK, Links
<1>9. ManagedHasService' /\ ConsentFirst'
  BY <1>2, <1>4 DEF LinkInv, TypeOK, ManagedHasService, ConsentFirst
<1> QED
  BY <1>7, <1>8, <1>9 DEF LinkInv

LEMMA WriteRejectPreserves ==
    ASSUME ConstantsOK, LinkInv, NEW v \in Visits, WriteReject(v) PROVE LinkInv'
<1> DEFINE q == visit[v].request
<1>1. q \in Requests /\ q \in Rows
  BY VisitFields DEF WriteReject, Doing, LinkInv, InFlight
<1>2. [request[q] EXCEPT !.status = "rejected"] \in Row
  BY <1>1, RowFields DEF LinkInv, Row
<1>3. /\ request' = [request EXCEPT ![q] = [request[q] EXCEPT !.status = "rejected"]]
      /\ UNCHANGED <<existing, agency, service, consent, acted>>
  BY DEF WriteReject
<1> HIDE DEF q
<1>4. request' \in [Requests -> Row \cup {None}]
  BY <1>1, <1>2, <1>3 DEF LinkInv, TypeOK
<1>5. Rows \subseteq Rows'
  BY <1>1, <1>2, <1>3 DEF LinkInv, TypeOK, Rows, ConstantsOK
<1>6. visit' \in [Visits -> Visit \cup {None}] /\ InFlight' /\ Trusted'
  BY <1>3, <1>5, DonePreserves DEF WriteReject
<1>7. TypeOK'
  BY <1>3, <1>4, <1>6 DEF LinkInv, TypeOK
<1>8. ManagedHasService' /\ ConsentFirst'
  BY <1>3 DEF LinkInv, ManagedHasService, ConsentFirst
<1> QED
  BY <1>6, <1>7, <1>8 DEF LinkInv

LEMMA ActPreserves ==
    ASSUME ConstantsOK, LinkInv, NEW v \in Visits, Switch(v) \/ SetPlan(v) PROVE LinkInv'
<1> DEFINE link == <<visit[v].agency, visit[v].target>>
<1>1. link \in Links /\ link \in consent
  BY VisitFields DEF Switch, SetPlan, Doing, LinkInv, Links, Trusted
<1>2. /\ service' \in {service, service \cup {link}}
      /\ acted' = acted \cup {link}
      /\ UNCHANGED <<existing, agency, request, consent>>
  BY DEF Switch, SetPlan
<1> HIDE DEF link
<1>3. visit' \in [Visits -> Visit \cup {None}] /\ InFlight' /\ Trusted'
  <2>1. Done(v) /\ Rows \subseteq Rows' /\ consent \subseteq consent'
    BY <1>2 DEF Switch, SetPlan, Rows
  <2> QED
    BY <2>1, DonePreserves
<1>4. TypeOK'
  BY <1>1, <1>2, <1>3 DEF LinkInv, TypeOK
<1>5. ManagedHasService' /\ ConsentFirst'
  BY <1>1, <1>2 DEF LinkInv, ManagedHasService, ConsentFirst
<1> QED
  BY <1>3, <1>4, <1>5 DEF LinkInv

LEMMA FailPreserves ==
    ASSUME ConstantsOK, LinkInv, NEW v \in Visits, Fail(v) PROVE LinkInv'
<1>1. UNCHANGED <<existing, agency, service, request, consent, acted>>
  BY DEF Fail
<1>2. visit' \in [Visits -> Visit \cup {None}] /\ InFlight' /\ Trusted'
  <2>1. Done(v) /\ Rows \subseteq Rows' /\ consent \subseteq consent'
    BY <1>1 DEF Fail, Rows
  <2> QED
    BY <2>1, DonePreserves
<1>3. TypeOK' /\ ManagedHasService' /\ ConsentFirst'
  BY <1>1, <1>2 DEF LinkInv, TypeOK, ManagedHasService, ConsentFirst
<1> QED
  BY <1>2, <1>3 DEF LinkInv

\* Every step of the portfolio's operations keeps the invariant.
LEMMA StepPreserves == ASSUME ConstantsOK, LinkInv, [Next]_vars PROVE LinkInv'
<1>1. ASSUME NEW a \in Agencies, NEW t \in Tenants, CreateManaged(a, t) PROVE LinkInv'
  BY <1>1, CreateManagedPreserves
<1>2. ASSUME NEW a \in Agencies, NEW t \in Tenants, NEW v \in Visits, ReadLink(v, a, t)
      PROVE  LinkInv'
  BY <1>2, ReadLinkPreserves
<1>3. ASSUME NEW a \in Agencies, NEW t \in Tenants, NEW v \in Visits,
             NEW kind \in {"switch", "plan"}, ReadManaged(v, kind, a, t)
      PROVE  LinkInv'
  BY <1>3, ReadManagedPreserves
<1>4. ASSUME NEW v \in Visits, NEW q \in Requests, ReadApprove(v, q) \/ ReadReject(v, q)
      PROVE  LinkInv'
  BY <1>4, ReadDecisionPreserves
<1>5. ASSUME NEW v \in Visits, WriteLink(v) PROVE LinkInv'
  BY <1>5, WriteLinkPreserves
<1>6. ASSUME NEW v \in Visits, WriteApprove(v) PROVE LinkInv'
  BY <1>6, WriteApprovePreserves
<1>7. ASSUME NEW v \in Visits, WriteReject(v) PROVE LinkInv'
  BY <1>7, WriteRejectPreserves
<1>8. ASSUME NEW v \in Visits, Switch(v) \/ SetPlan(v) PROVE LinkInv'
  BY <1>8, ActPreserves
<1>9. ASSUME NEW v \in Visits, Fail(v) PROVE LinkInv'
  BY <1>9, FailPreserves
<1>10. CASE UNCHANGED vars
  BY <1>10 DEF vars, LinkInv, TypeOK, InFlight, Trusted, ManagedHasService, ConsentFirst,
               Doing, Rows
<1> QED
  BY <1>1, <1>2, <1>3, <1>4, <1>5, <1>6, <1>7, <1>8, <1>9, <1>10 DEF Next

-----------------------------------------------------------------------------

LEMMA Invariance == ASSUME ConstantsOK PROVE Spec => []LinkInv
<1>1. Init => LinkInv
  BY InitEstablishes
<1>2. LinkInv /\ [Next]_vars => LinkInv'
  BY StepPreserves
<1> QED
  BY <1>1, <1>2, PTL DEF Spec

\* The tables of portfolio/operations.ts and auth/agency.ts keep their types.
THEOREM TypeCorrect == ASSUME ConstantsOK PROVE Spec => []TypeOK
<1>1. LinkInv => TypeOK
  BY DEF LinkInv
<1> QED
  BY <1>1, Invariance, PTL

\* No agency manages a workspace, has a service user in it, acts inside it or
\* sets its package without the consent of its owner, unless it made it.
THEOREM ConsentComesFirst == ASSUME ConstantsOK PROVE Spec => []ConsentFirst
<1>1. LinkInv => ConsentFirst
  BY DEF LinkInv
<1> QED
  BY <1>1, Invariance, PTL

\* Whoever manages a workspace has its service user in it, whichever of two
\* overlapping approvals was last.
THEOREM ManagerHasService == ASSUME ConstantsOK PROVE Spec => []ManagedHasService
<1>1. LinkInv => ManagedHasService
  BY DEF LinkInv
<1> QED
  BY <1>1, Invariance, PTL
=============================================================================
