------------------------------ MODULE Metering ------------------------------
(***************************************************************************)
(* Usage metering on AWS Marketplace (submitMetering, resubmitMetering and *)
(* the operations they call): usage goes to AWS first, outside any         *)
(* transaction and before the mutation gate; a gated mutation then records *)
(* AWS's answers.  A record that AWS rejected can be sent again.           *)
(*                                                                         *)
(* AWS is external: it accepts usage and names it by a receipt, rejects    *)
(* it, or leaves some of a batch unprocessed.  Its results are matched     *)
(* with the batch by their position.                                       *)
(***************************************************************************)
EXTENDS Naturals, Sequences, FiniteSets

CONSTANTS
    Records,   \* ids of marketplace_metering_records rows
    Usages,    \* what a customer has used and is to be charged for, once
    Receipts,  \* AWS's metering record ids
    Calls,     \* server actions in flight
    MaxBatch,  \* bound: the largest bulk (25 in the code)
    None       \* no row, no receipt

VARIABLES
    record,  \* the marketplace_metering_records table
    call,    \* the server actions in flight
    billed   \* AWS's side: the receipts it has given for each usage

vars == <<record, call, billed>>

-----------------------------------------------------------------------------

\* MeteringResultRow; a workspace without a connection accepts without receipt.
Outcome == [usage: Usages, accepted: BOOLEAN, receipt: Receipts \cup {None}]

Rejected(u) == [usage |-> u, accepted |-> FALSE, receipt |-> None]

\* retried: result = 'Resubmitted'; source: history, the record it retries.
Row == [outcome: Outcome, retried: BOOLEAN, source: Records \cup {None}]

\* What the constants satisfy.
ConstantsOK ==
    /\ None \notin Records \cup Receipts
    /\ MaxBatch \in Nat
    /\ None \notin Row

Batches == UNION {[1..n -> Records] : n \in 1..MaxBatch}

Item == [source: Records, outcome: Outcome]

Idle == [kind |-> "idle"]

Call == {Idle}
        \cup [kind: {"submitted"}, outcome: Outcome]
        \cup [kind: {"eligible"}, batch: Batches]
        \cup [kind: {"answered"}, items: SUBSET Item]

TypeOK ==
    /\ record \in [Records -> Row \cup {None}]
    /\ \A c \in Calls : call[c] \in Call
    /\ billed \in [Usages -> SUBSET Receipts]

Init ==
    /\ record = [r \in Records |-> None]
    /\ call = [c \in Calls |-> Idle]
    /\ billed = [u \in Usages |-> {}]

-----------------------------------------------------------------------------

Rows == {r \in Records : record[r] # None}

Unused == Receipts \ UNION {billed[u] : u \in Usages}

Eligible(r) ==
    /\ r \in Rows
    /\ ~record[r].outcome.accepted
    /\ ~record[r].retried

UsageOf(r) == record[r].outcome.usage

\* Nobody sends the same usage by hand twice.
Unsent(u) ==
    /\ billed[u] = {}
    /\ \A r \in Rows : UsageOf(r) # u
    /\ \A c \in Calls : call[c].kind = "submitted" => call[c].outcome.usage # u

Begin(c, what) ==
    /\ call[c] = Idle
    /\ call' = [call EXCEPT ![c] = what]

End(c) == call' = [call EXCEPT ![c] = Idle]

-----------------------------------------------------------------------------
(* One usage *)

\* submitMetering, phase 1: the one result, or a rejection without any.
Submit(c, u) ==
    /\ Unsent(u)
    /\ \E receipt \in Unused \cup {None} :
          /\ billed' = [billed EXCEPT ![u] = @ \cup ({receipt} \ {None})]
          /\ Begin(c, [kind |-> "submitted",
                       outcome |-> [usage |-> u, accepted |-> receipt # None,
                                    receipt |-> receipt]])
    /\ UNCHANGED record

\* The same without a connection to AWS
SubmitLocally(c, u) ==
    /\ Unsent(u)
    /\ Begin(c, [kind |-> "submitted",
                 outcome |-> [usage |-> u, accepted |-> TRUE, receipt |-> None]])
    /\ UNCHANGED <<record, billed>>

\* submitMeteringOp
Record(c) ==
    /\ call[c].kind = "submitted"
    /\ \E r \in Records \ Rows :
          record' = [record EXCEPT ![r] =
              [outcome |-> call[c].outcome, retried |-> FALSE, source |-> None]]
    /\ End(c)
    /\ UNCHANGED billed

-----------------------------------------------------------------------------
(* The bulk retry of rejected records *)

\* resubmitMetering reads the records that are eligible now.
ReadEligible(c, batch) ==
    /\ \A i, j \in DOMAIN batch : batch[i] = batch[j] => i = j
    /\ \A i \in DOMAIN batch : Eligible(batch[i])
    /\ Begin(c, [kind |-> "eligible", batch |-> batch])
    /\ UNCHANGED <<record, billed>>

\* Where a position comes among the positions that AWS has processed.
Place(i, processed) == Cardinality({j \in processed : j <= i})

\* AWS's results, in the order of the batch, without the unprocessed records.
Results(batch, processed, receipt) ==
    [k \in 1..Cardinality(processed) |->
        LET i == CHOOSE j \in processed : Place(j, processed) = k
        IN  [usage |-> UsageOf(batch[i]), accepted |-> receipt[i] # None,
             receipt |-> receipt[i]]]

\* batch.forEach((r, i) => res.results[i] ...)
Matched(batch, results) ==
    {[source |-> batch[i], outcome |-> IF i \in DOMAIN results THEN results[i]
                                       ELSE Rejected(UsageOf(batch[i]))] : i \in DOMAIN batch}

\* Phase 1: AWS processes some of the batch and accepts some of that.
Resend(c) ==
    /\ call[c].kind = "eligible"
    /\ LET batch == call[c].batch
       IN  \E processed \in SUBSET DOMAIN batch :
           \E receipt \in [DOMAIN batch -> Unused \cup {None}] :
              /\ \A i, j \in DOMAIN batch : receipt[i] = receipt[j] => i = j \/ receipt[i] = None
              /\ \A i \in DOMAIN batch \ processed : receipt[i] = None
              /\ billed' = [u \in Usages |-> billed[u] \cup
                     {receipt[i] : i \in {j \in processed : UsageOf(batch[j]) = u /\ receipt[j] # None}}]
              /\ call' = [call EXCEPT ![c] =
                     [kind |-> "answered", items |-> Matched(batch, Results(batch, processed, receipt))]]
    /\ UNCHANGED record

\* Variant: the source is not claimed.
InsertRetries(c, ids) ==
    LET items == call[c].items
        own(r) == CHOOSE i \in items : ids[i.source] = r
    IN  /\ DOMAIN ids = {i.source : i \in items}
        /\ record' = [r \in Records |->
              IF r \in {ids[s] : s \in DOMAIN ids}
              THEN [outcome |-> own(r).outcome, retried |-> FALSE, source |-> own(r).source]
              ELSE IF r \in DOMAIN ids THEN [record[r] EXCEPT !.retried = TRUE]
              ELSE record[r]]

\* Each source that is still eligible is claimed and gets a retry; the others
\* are skipped.
ClaimAndInsert(c, ids) ==
    LET items == {i \in call[c].items : Eligible(i.source)}
        own(r) == CHOOSE i \in items : ids[i.source] = r
    IN  /\ DOMAIN ids = {i.source : i \in items}
        /\ record' = [r \in Records |->
              IF r \in {ids[s] : s \in DOMAIN ids}
              THEN [outcome |-> own(r).outcome, retried |-> FALSE, source |-> own(r).source]
              ELSE IF r \in DOMAIN ids THEN [record[r] EXCEPT !.retried = TRUE]
              ELSE record[r]]

\* resubmitMeteringOp
RecordRetries(c) ==
    /\ call[c].kind = "answered"
    /\ \E S \in SUBSET {i.source : i \in call[c].items} : \E ids \in [S -> Records \ Rows] :
          /\ \A s, t \in S : ids[s] = ids[t] => s = t
          /\ ClaimAndInsert(c, ids)
    /\ End(c)
    /\ UNCHANGED billed

\* AWS does not answer, or the process ends before the mutation commits.
Lose(c) ==
    /\ call[c] # Idle
    /\ End(c)
    /\ UNCHANGED <<record, billed>>

-----------------------------------------------------------------------------

Next ==
    \E c \in Calls :
        \/ \E u \in Usages : Submit(c, u) \/ SubmitLocally(c, u)
        \/ Record(c)
        \/ \E batch \in Batches : ReadEligible(c, batch)
        \/ Resend(c)
        \/ RecordRetries(c)
        \/ Lose(c)

Spec == Init /\ [][Next]_vars

-----------------------------------------------------------------------------
(* Properties *)

\* "A concurrent resubmit can't double-insert" (operations.ts:369): a rejected
\* record has one retry at the most, whichever bulk retries overlap.
RetriedOnce ==
    \A r, s \in Rows : record[r].source = record[s].source /\ record[r].source # None => r = s

\* A receipt of AWS is on one record, which is about the usage that it was
\* given for, although results and records are matched by their position.
ReceiptOnce ==
    \A r \in Rows : record[r].outcome.receipt # None =>
        /\ record[r].outcome.receipt \in billed[UsageOf(r)]
        /\ \A s \in Rows : record[s].outcome.receipt = record[r].outcome.receipt => r = s

\* "Which is what blocks a double-resubmit" (operations.ts:357-358): AWS accepts
\* a rejected usage that is sent again once.
AcceptedOnce == \A u \in Usages : Cardinality(billed[u]) <= 1
=============================================================================
