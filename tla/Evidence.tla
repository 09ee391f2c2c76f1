------------------------------ MODULE Evidence ------------------------------
(***************************************************************************)
(* Evidence and its files (src/domain/evidence/operations.ts,              *)
(* src/storage/malware-scan.ts and the download route): an upload stores   *)
(* the bytes and then commits the rows, an external scanner reports its    *)
(* verdicts, and a download finds the linked file, checks its verdict and  *)
(* fetches its bytes, each at a time of its own.                           *)
(*                                                                         *)
(* An object stands for its row and for its key in the store, which both   *)
(* come from fresh random ids.  Titles, owners, dates, scores and notes    *)
(* are left out.                                                           *)
(***************************************************************************)
CONSTANTS
    Items,     \* ids of evidence rows
    Objects,   \* ids of storage_objects rows, with their keys
    Visits,    \* uploads and downloads in flight
    None       \* no row, no file

VARIABLES
    evidence,  \* the evidence table
    scan,      \* storage_objects.scan_status
    stored,    \* the keys with bytes in the store
    visit,     \* the uploads and downloads in flight
    cleared,   \* history: the objects that a verdict has called clean
    served     \* history: the objects whose bytes were sent to a browser

vars == <<evidence, scan, stored, visit, cleared, served>>

-----------------------------------------------------------------------------

Open == {"missing", "collected", "in_review"}

Decisions == {"approved", "rejected"}

Verdicts == {"clean", "infected", "error"}

Row == [status: Open \cup Decisions, object: Objects \cup {None}]

\* What the constants satisfy.
ConstantsOK ==
    /\ None \notin Objects
    /\ None \notin Row

Visit == [kind: {"idle"}] \cup [kind: {"upload", "found", "allowed"}, item: Items, object: Objects]

Idle == [kind |-> "idle"]

TypeOK ==
    /\ evidence \in [Items -> Row \cup {None}]
    /\ scan \in [Objects -> Verdicts \cup {"pending", "absent"}]
    /\ stored \subseteq Objects
    /\ visit \in [Visits -> Visit]
    /\ cleared \subseteq Objects
    /\ served \subseteq Objects

Init ==
    /\ evidence = [i \in Items |-> None]
    /\ scan = [o \in Objects |-> "absent"]
    /\ stored = {}
    /\ visit = [v \in Visits |-> Idle]
    /\ cleared = {}
    /\ served = {}

-----------------------------------------------------------------------------

Rows == {i \in Items : evidence[i] # None}

WithStatus(S, s) ==
    evidence' = [i \in Items |-> IF i \in S THEN [evidence[i] EXCEPT !.status = s]
                                 ELSE evidence[i]]

\* createEvidenceOp; createSourcedEvidence inserts the row of a source once,
\* so it makes no more of a row that is there.
Create(i) ==
    /\ i \notin Rows
    /\ evidence' = [evidence EXCEPT ![i] = [status |-> "missing", object |-> None]]
    /\ UNCHANGED <<scan, stored, visit, cleared, served>>

\* updateEvidenceOp and bulkUpdateEvidenceOp with a status
Update(S, s) ==
    /\ S # {} /\ S \subseteq Rows
    /\ WithStatus(S, s)
    /\ UNCHANGED <<scan, stored, visit, cleared, served>>

\* reviewEvidenceOp: whatever the row's status and file
Review(i, decision) ==
    /\ i \in Rows
    /\ WithStatus({i}, decision)
    /\ UNCHANGED <<scan, stored, visit, cleared, served>>

-----------------------------------------------------------------------------
(* uploadEvidenceFileOp: one transaction, with the store in the middle *)

FreshObject(o) ==
    /\ o \notin stored
    /\ \A v \in Visits : visit[v].kind = "upload" => visit[v].object # o

PutBytes(v, i, o) ==
    /\ visit[v] = Idle
    /\ i \in Rows
    /\ FreshObject(o)
    /\ stored' = stored \cup {o}
    /\ visit' = [visit EXCEPT ![v] = [kind |-> "upload", item |-> i, object |-> o]]
    /\ UNCHANGED <<evidence, scan, cleared, served>>

CommitUpload(v) ==
    /\ visit[v].kind = "upload"
    /\ scan' = [scan EXCEPT ![visit[v].object] = "pending"]
    /\ evidence' = [evidence EXCEPT ![visit[v].item] =
                        [status |-> "in_review", object |-> visit[v].object]]
    /\ visit' = [visit EXCEPT ![v] = Idle]
    /\ UNCHANGED <<stored, cleared, served>>

-----------------------------------------------------------------------------

\* applyScanWebhook: verdicts arrive in any order and more than once; the last
\* one stands.
Verdict(o, verdict) ==
    /\ scan[o] # "absent"
    /\ scan' = [scan EXCEPT ![o] = verdict]
    /\ cleared' = IF verdict = "clean" THEN cleared \cup {o} ELSE cleared
    /\ UNCHANGED <<evidence, stored, visit, served>>

-----------------------------------------------------------------------------
(* The download route *)

FindFile(v, i) ==
    /\ visit[v] = Idle
    /\ i \in Rows
    /\ evidence[i].object # None
    /\ visit' = [visit EXCEPT ![v] =
                    [kind |-> "found", item |-> i, object |-> evidence[i].object]]
    /\ UNCHANGED <<evidence, scan, stored, cleared, served>>

\* Variant: the file that the evidence has by now.
CurrentIsClean(v) ==
    /\ visit[v].kind = "found"
    /\ scan[evidence[visit[v].item].object] = "clean"
    /\ visit' = [visit EXCEPT ![v].kind = "allowed"]
    /\ UNCHANGED <<evidence, scan, stored, cleared, served>>

\* assertObjectIsClean
AssertObjectIsClean(v) ==
    /\ visit[v].kind = "found"
    /\ scan[visit[v].object] = "clean"
    /\ visit' = [visit EXCEPT ![v].kind = "allowed"]
    /\ UNCHANGED <<evidence, scan, stored, cleared, served>>

Stream(v) ==
    /\ visit[v].kind = "allowed"
    /\ visit[v].object \in stored
    /\ served' = served \cup {visit[v].object}
    /\ visit' = [visit EXCEPT ![v] = Idle]
    /\ UNCHANGED <<evidence, scan, stored, cleared>>

\* A download is refused (403), the store fails, or a connection is lost.  An
\* upload that ends here leaves bytes without a row.
Fail(v) ==
    /\ visit[v] # Idle
    /\ visit' = [visit EXCEPT ![v] = Idle]
    /\ UNCHANGED <<evidence, scan, stored, cleared, served>>

-----------------------------------------------------------------------------

Next ==
    \/ \E i \in Items :
          \/ Create(i)
          \/ \E decision \in Decisions : Review(i, decision)
    \/ \E S \in SUBSET Items, s \in Open : Update(S, s)
    \/ \E o \in Objects, verdict \in Verdicts : Verdict(o, verdict)
    \/ \E v \in Visits :
          \/ \E i \in Items :
                \/ \E o \in Objects : PutBytes(v, i, o)
                \/ FindFile(v, i)
          \/ CommitUpload(v)
          \/ AssertObjectIsClean(v)
          \/ Stream(v)
          \/ Fail(v)

Spec == Init /\ [][Next]_vars

-----------------------------------------------------------------------------
(* Properties *)

\* "Fail-closed" (download/route.ts:10-14): what a browser gets was called
\* clean by a verdict of its own, even when the evidence's file is replaced
\* while a download is between its look-up, its check and its stream.
OnlyCleanServed == served \subseteq cleared

\* Uploads that fail half-way leave bytes without a row, never a row without
\* bytes: a file that a committed row names can be fetched.
FileHasBytes ==
    \A i \in Rows : evidence[i].object # None =>
        /\ evidence[i].object \in stored
        /\ scan[evidence[i].object] # "absent"
=============================================================================
