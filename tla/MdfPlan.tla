------------------------------- MODULE MdfPlan -------------------------------
(***************************************************************************)
(* The MDF event planner (src/domain/mdf/plan-operations.ts): a plan holds *)
(* candidate events, and those that no AWS rule blocks are converted, one  *)
(* at a time or all at once, into draft MDF requests; Mdf models what      *)
(* becomes of a request.                                                   *)
(*                                                                         *)
(* A conversion reads the items, decides, and then writes rows by id: two  *)
(* actions.  One plan; titles, notes, dates and amounts are left out, save *)
(* whether they block an item.                                             *)
(***************************************************************************)
EXTENDS Functions

CONSTANTS
    Items,     \* ids of mdf_plan_items rows
    Requests,  \* ids of mdf_requests rows
    Editors,   \* conversions in flight
    None       \* no row, not converted

VARIABLES
    item,      \* the mdf_plan_items table
    request,   \* mdf_requests: the item that each was made from, as a history
    op,        \* the items that each conversion in flight has read
    contended  \* history: items on which two conversions overlapped

vars == <<item, request, op, contended>>

-----------------------------------------------------------------------------

Row == [blocked: BOOLEAN, request: Requests \cup {None}]

\* What the constants satisfy.
ConstantsOK ==
    /\ None \notin Requests \cup Items \cup Row

TypeOK ==
    /\ item \in [Items -> Row \cup {None}]
    /\ request \in [Requests -> Items \cup {None}]
    /\ op \in [Editors -> SUBSET Items]
    /\ contended \subseteq Items

Init ==
    /\ item = [i \in Items |-> None]
    /\ request = [q \in Requests |-> None]
    /\ op = [e \in Editors |-> {}]
    /\ contended = {}

-----------------------------------------------------------------------------

Rows == {i \in Items : item[i] # None}

\* An id that no row, request or conversion knows is as good as a new one.
Known == Rows \cup {request[q] : q \in Requests} \cup UNION {op[e] : e \in Editors}

\* addPlanItemOp
AddItem(i, blocked) ==
    /\ i \notin Known
    /\ item' = [item EXCEPT ![i] = [blocked |-> blocked, request |-> None]]
    /\ UNCHANGED <<request, op, contended>>

\* updatePlanItemOp: a converted item, too
UpdateItem(i, blocked) ==
    /\ i \in Rows
    /\ item' = [item EXCEPT ![i].blocked = blocked]
    /\ UNCHANGED <<request, op, contended>>

\* removePlanItemOp: the request stays.
RemoveItem(i) ==
    /\ i \in Rows
    /\ item' = [item EXCEPT ![i] = None]
    /\ UNCHANGED <<request, op, contended>>

Eligible == {i \in Rows : item[i].request = None /\ ~item[i].blocked}

Busy == UNION {op[e] : e \in Editors}

Begin(e, S) ==
    /\ op[e] = {}
    /\ S # {}
    /\ op' = [op EXCEPT ![e] = S]
    /\ contended' = contended \cup (S \cap Busy)
    /\ UNCHANGED <<item, request>>

\* convertPlanItemToRequestOp
ReadOne(e, i) == Begin(e, {i} \cap Eligible)

\* bulkConvertPlanItemsOp
ReadAll(e) == Begin(e, Eligible)

LinkBack(ids) ==
    item' = [i \in Items |-> IF i \in Rows \cap DOMAIN ids
                             THEN [item[i] EXCEPT !.request = ids[i]] ELSE item[i]]

\* convertItem, for each that was read: a request from the item as it was
\* then, and the item's link, which finds no row if the item was removed.
Convert(e) ==
    /\ op[e] # {}
    /\ \E ids \in Injection(op[e], {q \in Requests : request[q] = None}) :
          /\ request' = [q \in Requests |->
                IF \E i \in op[e] : ids[i] = q THEN CHOOSE i \in op[e] : ids[i] = q
                ELSE request[q]]
          /\ LinkBack(ids)
    /\ op' = [op EXCEPT ![e] = {}]
    /\ UNCHANGED contended

Fail(e) ==
    /\ op[e] # {}
    /\ op' = [op EXCEPT ![e] = {}]
    /\ UNCHANGED <<item, request, contended>>

Next ==
    \/ \E i \in Items :
          \/ \E blocked \in BOOLEAN : AddItem(i, blocked) \/ UpdateItem(i, blocked)
          \/ RemoveItem(i)
    \/ \E e \in Editors :
          \/ \E i \in Items : ReadOne(e, i)
          \/ ReadAll(e)
          \/ Convert(e)
          \/ Fail(e)

Spec == Init /\ [][Next]_vars

-----------------------------------------------------------------------------
(* Properties *)

\* A conversion "refuses ... a double-convert" (line 186): an item has one
\* request at the most, unless two conversions of it overlap; both then have
\* read an item without a request, and nothing stops the second.
ConvertedOnceAlone ==
    \A p, q \in Requests :
        request[p] = request[q] /\ request[p] # None /\ request[p] \notin contended => p = q

\* The request that an item leads to was made from that item, in a batch, too,
\* and when overlapping conversions have made two.
LinkIsOwn ==
    \A i \in Rows : item[i].request # None => request[item[i].request] = i
=============================================================================
