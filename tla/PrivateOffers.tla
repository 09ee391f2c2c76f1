---------------------------- MODULE PrivateOffers ----------------------------
(***************************************************************************)
(* Private offers on AWS Marketplace                                       *)
(* (src/domain/marketplace/offer-operations.ts): an offer is drafted,      *)
(* sent, decided by hand or accepted when the billing sync finds a         *)
(* matching agreement on AWS.                                              *)
(*                                                                         *)
(* An operation reads in one statement and writes in a later one of its    *)
(* transaction at READ COMMITTED: two actions.                             *)
(*                                                                         *)
(* The synced agreements carry no listing, so an offer's listing never     *)
(* decides a match and is left out; so are values, discounts, dates and    *)
(* charges.                                                                *)
(***************************************************************************)
CONSTANTS
    Offers,      \* ids of marketplace_private_offers rows
    Agreements,  \* AWS's agreement ids
    Customers,   \* AWS's customer identifiers
    Editors,     \* operations in flight that read and then write
    None         \* no row, no customer, no agreement

VARIABLES
    offer,      \* the marketplace_private_offers table
    agreement,  \* the synced agreements: the customer of each
    op          \* what each operation in flight has read

vars == <<offer, agreement, op>>

-----------------------------------------------------------------------------

Statuses == {"draft", "sent", "accepted", "declined", "expired", "withdrawn"}

Transitions == {<<"draft", "sent">>, <<"draft", "withdrawn">>, <<"sent", "accepted">>,
                <<"sent", "declined">>, <<"sent", "expired">>, <<"sent", "withdrawn">>}

Row == [status: Statuses, customer: Customers \cup {None}, agreement: Agreements \cup {None}]

\* What the constants satisfy.
ConstantsOK ==
    /\ None \notin Agreements \cup Customers
    /\ None \notin Row

Synced == [Agreements -> Customers \cup {None}]

Idle == [kind |-> "idle"]

Op == {Idle}
      \cup [kind: {"edit"}, offer: Offers, customer: Customers \cup {None}]
      \cup [kind: {"move"}, offer: Offers, from: Statuses, to: Statuses]
      \cup [kind: {"sync"}, synced: Synced, match: [Offers -> Agreements \cup {None}]]

TypeOK ==
    /\ offer \in [Offers -> Row \cup {None}]
    /\ agreement \in Synced
    /\ op \in [Editors -> Op]

Init ==
    /\ offer = [f \in Offers |-> None]
    /\ agreement = [a \in Agreements |-> None]
    /\ op = [e \in Editors |-> Idle]

-----------------------------------------------------------------------------

Rows == {f \in Offers : offer[f] # None}

Begin(e, o) ==
    /\ op[e] = Idle
    /\ op' = [op EXCEPT ![e] = o]
    /\ UNCHANGED <<offer, agreement>>

End(e) == op' = [op EXCEPT ![e] = Idle]

\* createPrivateOfferOp
Create(f, c) ==
    /\ f \notin Rows
    /\ offer' = [offer EXCEPT ![f] = [status |-> "draft", customer |-> c, agreement |-> None]]
    /\ UNCHANGED <<agreement, op>>

\* updatePrivateOfferOp: only a draft, and then by id alone.
ReadEdit(e, f, c) ==
    /\ f \in Rows
    /\ offer[f].status = "draft"
    /\ Begin(e, [kind |-> "edit", offer |-> f, customer |-> c])

WriteEdit(e) ==
    /\ op[e].kind = "edit"
    /\ offer' = [offer EXCEPT ![op[e].offer].customer = op[e].customer]
    /\ End(e)
    /\ UNCHANGED agreement

\* setPrivateOfferStatusOp: the update repeats the status that was read.
ReadMove(e, f, to) ==
    /\ f \in Rows
    /\ <<offer[f].status, to>> \in Transitions
    /\ Begin(e, [kind |-> "move", offer |-> f, from |-> offer[f].status, to |-> to])

WriteMove(e) ==
    /\ op[e].kind = "move"
    /\ offer[op[e].offer].status = op[e].from
    /\ offer' = [offer EXCEPT ![op[e].offer].status = op[e].to]
    /\ End(e)
    /\ UNCHANGED agreement

\* matchAgreementForOffer: one of the customer's agreements; which one, AWS's
\* offer types and the order of the rows decide.
Candidates(f, table) ==
    {a \in Agreements : offer[f].customer # None /\ table[a] = offer[f].customer}

\* The agreements with those that AWS has returned, in which None stands for
\* one that it has not.
Upserted(synced) ==
    [a \in Agreements |-> IF synced[a] # None THEN synced[a] ELSE agreement[a]]

\* syncBillingOp upserts what AWS has returned; reconcilePrivateOffersOp then
\* matches the offers that are sent.
ReadSync(e, synced) ==
    LET sent == {f \in Rows : offer[f].status = "sent"}
        table == Upserted(synced)
    IN  /\ \E match \in [Offers -> Agreements \cup {None}] :
              /\ \A f \in Offers :
                    IF f \in sent /\ Candidates(f, table) # {}
                    THEN match[f] \in Candidates(f, table)
                    ELSE match[f] = None
              /\ Begin(e, [kind |-> "sync", synced |-> synced, match |-> match])

\* Variant: an offer that was sent when the sync read it is accepted.
ReconcileStale(e) ==
    /\ op[e].kind = "sync"
    /\ agreement' = Upserted(op[e].synced)
    /\ offer' = [f \in Offers |->
          IF op[e].match[f] # None
          THEN [offer[f] EXCEPT !.agreement = op[e].match[f]]
          ELSE offer[f]]
    /\ End(e)

WriteSync(e) ==
    /\ op[e].kind = "sync"
    /\ agreement' = Upserted(op[e].synced)
    /\ offer' = [f \in Offers |->
          IF op[e].match[f] # None /\ offer[f].status = "sent"
          THEN [offer[f] EXCEPT !.status = "accepted", !.agreement = op[e].match[f]]
          ELSE offer[f]]
    /\ End(e)

\* The guard of an update fails, or the transaction is lost.
Fail(e) ==
    /\ op[e] # Idle
    /\ End(e)
    /\ UNCHANGED <<offer, agreement>>

-----------------------------------------------------------------------------

Next ==
    \/ \E f \in Offers, c \in Customers \cup {None} : Create(f, c)
    \/ \E e \in Editors :
          \/ \E f \in Offers :
                \/ \E c \in Customers \cup {None} : ReadEdit(e, f, c)
                \/ \E to \in Statuses : ReadMove(e, f, to)
          \/ \E synced \in Synced : ReadSync(e, synced)
          \/ WriteEdit(e)
          \/ WriteMove(e)
          \/ WriteSync(e)
          \/ Fail(e)

Spec == Init /\ [][Next]_vars

-----------------------------------------------------------------------------
(* Properties *)

StatusOf(f) == IF f \in Rows THEN offer[f].status ELSE "absent"

L == INSTANCE Lifecycle WITH
        Ids <- Offers, First <- "draft", Absent <- "absent", Edges <- Transitions,
        status <- [f \in Offers |-> StatusOf(f)]

\* Manual decisions, withdrawals and the sync's acceptance of many offers at
\* once may overlap: an offer moves along TRANSITIONS, and what is decided
\* stays decided.
OffersFollowLifecycle == L!Spec

\* An offer that names an AWS agreement is accepted: none was withdrawn or
\* declined by hand while the sync was accepting it.
LinkedIsAccepted ==
    \A f \in Rows : offer[f].agreement # None => offer[f].status = "accepted"
=============================================================================
