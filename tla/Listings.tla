------------------------------ MODULE Listings ------------------------------
(***************************************************************************)
(* Product listings on AWS Marketplace (src/domain/marketplace/            *)
(* operations.ts and actions.ts): a mirror of what AWS has, edited by      *)
(* change sets.  A request talks to AWS first, outside any transaction and *)
(* before the mutation gate; a gated mutation then writes the mirror and   *)
(* records the change set.  Each request is therefore two actions.  Within *)
(* the mutation the listing is read, its prices are read, and it is        *)
(* updated by id: one action, since a price, once given, stays.            *)
(*                                                                         *)
(* AWS is external: it takes or rejects a change set at once, decides it   *)
(* later, and says which products are live.  Texts, types, visibility,     *)
(* amounts and the links to solutions are left out; a publication whose    *)
(* listing lacks a text ends in Fail.  Nothing in the code sets the status *)
(* "changing".                                                             *)
(***************************************************************************)
EXTENDS Naturals

CONSTANTS
    Listings,    \* ids of marketplace_listings rows
    Entities,    \* products at AWS
    Changes,     \* ids of marketplace_change_sets rows
    ChangeSets,  \* ids of change sets at AWS
    Calls,       \* server actions in flight
    None         \* no row, nothing at AWS

VARIABLES
    listing,    \* the marketplace_listings table
    change,     \* the marketplace_change_sets table
    connected,  \* awsConnection.marketplaceEnabled
    decided,    \* AWS's side: the status of every change set it took
    call,       \* the server actions in flight
    contended   \* history: rows of which two refreshes overlapped

vars == <<listing, change, connected, decided, call, contended>>

-----------------------------------------------------------------------------

Settled == {"succeeded", "failed", "cancelled"}

\* "applying" stands for "preparing", too.
Statuses == Settled \cup {"applying"}

\* "update": update_details and update_visibility.
Intents == {"update", "publish", "add_dimension"}

\* entity None: a local draft, entity:local:<uuid>.
Row == [entity: Entities \cup {None}, published: BOOLEAN, priced: BOOLEAN]

\* set None: recorded without AWS.  asked: history, the status is AWS's word.
Change == [set: ChangeSets \cup {None}, status: Statuses, asked: BOOLEAN]

\* What the constants satisfy.
ConstantsOK ==
    /\ None \notin Row
    /\ None \notin Change
    /\ None \notin Entities \cup ChangeSets \cup Statuses

Idle == [kind |-> "idle"]

Call == {Idle}
        \cup [kind: {"change"}, listing: Listings, intent: Intents,
              set: ChangeSets \cup {None}]
        \cup [kind: {"refresh"}, change: Changes, status: Statuses, asked: BOOLEAN]
        \cup [kind: {"sync"}, live: [Entities -> BOOLEAN]]

TypeOK ==
    /\ listing \in [Listings -> Row \cup {None}]
    /\ change \in [Changes -> Change \cup {None}]
    /\ connected \in BOOLEAN
    /\ decided \in [ChangeSets -> Statuses \cup {None}]
    /\ call \in [Calls -> Call]
    /\ contended \subseteq Changes

Init ==
    /\ listing = [l \in Listings |-> None]
    /\ change = [c \in Changes |-> None]
    /\ connected \in BOOLEAN
    /\ decided = [s \in ChangeSets |-> None]
    /\ call = [c \in Calls |-> Idle]
    /\ contended = {}

-----------------------------------------------------------------------------

Rows == {l \in Listings : listing[l] # None}

Recorded == {c \in Changes : change[c] # None}

Begin(k, what) ==
    /\ call[k] = Idle
    /\ call' = [call EXCEPT ![k] = what]

End(k) == call' = [call EXCEPT ![k] = Idle]

\* createListingDraftOp: no AWS call.
CreateDraft(l) ==
    /\ l \notin Rows
    /\ listing' = [listing EXCEPT ![l] =
          [entity |-> None, published |-> FALSE, priced |-> FALSE]]
    /\ UNCHANGED <<change, connected, decided, call, contended>>

\* saveMarketplaceConnectionOp
Connect(on) ==
    /\ connected # on
    /\ connected' = on
    /\ UNCHANGED <<listing, change, decided, call, contended>>

-----------------------------------------------------------------------------
(* Changes *)

\* publishReadiness
Ready(row) == row.priced /\ ~row.published

\* addPricingDimension and changeAction, phase 1: StartChangeSet, when
\* connected.  Publishing is asked for whether or not the row is ready, though
\* changeset.ts (lines 33-35) means to gate "StartChangeSet(Publish)": only
\* phase 2 looks.  An error of AWS ends the request.
StartChange(k, l, intent) ==
    /\ l \in Rows
    /\ \E set \in ChangeSets \cup {None} :
          /\ connected <=> set # None
          /\ set # None => decided[set] = None
          /\ decided' = IF set = None THEN decided
                        ELSE [decided EXCEPT ![set] = "applying"]
          /\ Begin(k, [kind |-> "change", listing |-> l, intent |-> intent,
                       set |-> set])
    /\ UNCHANGED <<listing, change, connected, contended>>

\* What applyListingChangeOp and addPricingDimensionOp write.
Applied(row, intent) ==
    CASE intent = "update" -> row
      [] intent = "publish" -> [row EXCEPT !.published = TRUE]
      [] intent = "add_dimension" -> [row EXCEPT !.priced = TRUE]

\* Phase 2: the mirror and the record of the change set.
WriteChange(k, c) ==
    LET op == call[k]
    IN  /\ op.kind = "change"
        /\ c \notin Recorded
        /\ op.intent = "publish" => Ready(listing[op.listing])
        /\ listing' = [listing EXCEPT ![op.listing] = Applied(@, op.intent)]
        /\ change' = [change EXCEPT ![c] =
              [set |-> op.set, status |-> IF op.set = None THEN "succeeded" ELSE "applying",
               asked |-> op.set # None]]
        /\ End(k)
        /\ UNCHANGED <<connected, decided, contended>>

\* AWS decides a change set.
Decide(set, status) ==
    /\ decided[set] = "applying"
    /\ status \in Settled
    /\ decided' = [decided EXCEPT ![set] = status]
    /\ UNCHANGED <<listing, change, connected, call, contended>>

\* refreshChangeSet, phase 1: DescribeChangeSet; without a connection or an
\* id at AWS the change set is taken to have succeeded.
\* Variant: a change set that AWS calls cancelled is over.
DescribeRoughly(k, c) ==
    /\ c \in Recorded
    /\ LET set == change[c].set
           asked == connected /\ set # None
       IN  Begin(k, [kind |-> "refresh", change |-> c, asked |-> asked,
                     status |-> IF asked /\ decided[set] # "cancelled"
                                THEN decided[set] ELSE "succeeded"])
    /\ contended' = IF \E j \in Calls : call[j].kind = "refresh" /\ call[j].change = c
                    THEN contended \cup {c} ELSE contended
    /\ UNCHANGED <<listing, change, connected, decided>>

Describe(k, c) ==
    /\ c \in Recorded
    /\ LET set == change[c].set
           asked == connected /\ set # None
       IN  Begin(k, [kind |-> "refresh", change |-> c, asked |-> asked,
                     status |-> IF asked THEN decided[set] ELSE "succeeded"])
    /\ contended' = IF \E j \in Calls : call[j].kind = "refresh" /\ call[j].change = c
                    THEN contended \cup {c} ELSE contended
    /\ UNCHANGED <<listing, change, connected, decided>>

\* refreshChangeSetOp
WriteRefresh(k) ==
    LET op == call[k]
    IN  /\ op.kind = "refresh"
        /\ change' = [change EXCEPT ![op.change].status = op.status,
                                    ![op.change].asked = op.asked]
        /\ End(k)
        /\ UNCHANGED <<listing, connected, decided, contended>>

-----------------------------------------------------------------------------
(* The sync *)

\* syncListings, phase 1: ListEntities says which products are live.
ReadEntities(k, live) ==
    /\ connected
    /\ Begin(k, [kind |-> "sync", live |-> live])
    /\ UNCHANGED <<listing, change, connected, decided, contended>>

Mirror(e) == {l \in Rows : listing[l].entity = e}

\* What syncListingsOp makes of a row: text and prices stay.
Synced(row, live) == [row EXCEPT !.published = live]

\* syncListingsOp: an upsert by AWS's id, which no local draft has; "row" says
\* which row a product without one gets.
WriteSync(k, row) ==
    LET op == call[k]
        Id(e) == IF Mirror(e) # {} THEN CHOOSE l \in Mirror(e) : TRUE ELSE row[e]
    IN  /\ op.kind = "sync"
        /\ \A e \in Entities : Mirror(e) = {} => row[e] \notin Rows
        /\ \A d, e \in Entities : Id(d) = Id(e) => d = e
        /\ listing' = [l \in Listings |->
              IF \E e \in Entities : Id(e) = l
              THEN LET e == CHOOSE f \in Entities : Id(f) = l
                   IN  Synced(IF l \in Rows THEN listing[l]
                              ELSE [entity |-> e, published |-> FALSE, priced |-> FALSE],
                              op.live[e])
              ELSE listing[l]]
        /\ End(k)
        /\ UNCHANGED <<change, connected, decided, contended>>

\* The gate refuses or replays the call, the check of a publication fails, or
\* the process dies: what AWS was told stays.
Fail(k) ==
    /\ call[k] # Idle
    /\ End(k)
    /\ UNCHANGED <<listing, change, connected, decided, contended>>

-----------------------------------------------------------------------------

Next ==
    \/ \E on \in BOOLEAN : Connect(on)
    \/ \E l \in Listings : CreateDraft(l)
    \/ \E set \in ChangeSets, status \in Statuses : Decide(set, status)
    \/ \E k \in Calls :
          \/ \E l \in Listings, intent \in Intents : StartChange(k, l, intent)
          \/ \E c \in Changes :
                \/ WriteChange(k, c)
                \/ Describe(k, c)
          \/ WriteRefresh(k)
          \/ \E live \in [Entities -> BOOLEAN] : ReadEntities(k, live)
          \/ \E row \in [Entities -> Listings] : WriteSync(k, row)
          \/ Fail(k)

Spec == Init /\ [][Next]_vars

-----------------------------------------------------------------------------
(* Properties *)

\* A change set that a refresh settled on AWS's word is settled so at AWS,
\* however refreshes, decisions and switches of the connection interleave
\* (refreshChangeSet).
VerdictIsAws ==
    \A c \in Recorded :
        LET row == change[c]
        IN  row.set # None /\ row.asked /\ row.status \in Settled =>
                decided[row.set] = row.status

\* A change set that AWS settled stays settled, unless two refreshes of it
\* overlap: then the one that asked first may write last (refreshChangeSetOp).
\* One that was only taken to have succeeded may turn out to be in progress.
SettledStaysAlone ==
    [][\A c \in Recorded \ contended' :
           change[c].asked /\ change[c].status \in Settled =>
               change'[c].status \in Settled]_vars
=============================================================================
