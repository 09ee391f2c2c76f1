--------------------------- MODULE RecordsProofs ----------------------------
(***************************************************************************)
(* What holds of the remaining parts of MCRecords for all sets of ids,     *)
(* numbers of editors and bounds, and of all parts together.               *)
(*                                                                         *)
(* Each part has an inductive invariant of its own, named for it.  A       *)
(* behaviour of MCRecords is a behaviour of every part (the lemmas         *)
(* PartIs...), so the theorems at the end put the parts together as the    *)
(* run of MCRecords checks them.                                           *)
(***************************************************************************)
EXTENDS CommerceProofs, ProgramsProofs, FiniteSetTheorems, NaturalsInduction, Integers, Sequences, TLAPS

-----------------------------------------------------------------------------
(* Evidence: only clean bytes are served *)

\* A scan status "clean" was a verdict; an upload in flight has its bytes in
\* the store; the object of a download that passed the check was cleared.
EvidenceInv ==
    /\ E!TypeOK
    /\ E!OnlyCleanServed
    /\ E!FileHasBytes
    /\ \A o \in Two : scan[o] = "clean" => o \in cleared
    /\ \A v \in Editors :
          /\ transfer[v].kind = "upload" => transfer[v].object \in stored
          /\ transfer[v].kind = "allowed" => transfer[v].object \in cleared

LEMMA EvidenceInit == ASSUME E!ConstantsOK, E!Init PROVE EvidenceInv
  BY DEF E!Init, E!Idle, E!Visit, E!Rows, EvidenceInv, E!TypeOK, E!OnlyCleanServed,
         E!FileHasBytes, E!Verdicts

\* Of a transfer that is not idle its item and object are known.
LEMMA TransferFields ==
    ASSUME E!TypeOK, NEW v \in Editors
    PROVE  /\ transfer[v] = E!Idle \/ transfer[v].kind \in {"upload", "found", "allowed"}
           /\ transfer[v].kind # "idle" =>
                 /\ transfer[v].kind \in {"upload", "found", "allowed"}
                 /\ transfer[v].item \in One /\ transfer[v].object \in Two
                 /\ transfer[v] = [kind |-> transfer[v].kind, item |-> transfer[v].item,
                                   object |-> transfer[v].object]
           /\ E!Idle.kind = "idle"
  BY DEF E!TypeOK, E!Visit, E!Idle

\* Create, Update and Review leave every row's object, so they keep the
\* invariant.
LEMMA EvidenceRowsPreserve ==
    ASSUME E!ConstantsOK, EvidenceInv,
           UNCHANGED <<scan, stored, transfer, cleared, served>>,
           evidence' \in [One -> E!Row \cup {None}],
           \A i \in One : evidence'[i] # None =>
               \/ evidence'[i].object = None
               \/ evidence[i] # None /\ evidence'[i].object = evidence[i].object
    PROVE  EvidenceInv'
  BY DEF EvidenceInv, E!TypeOK, E!OnlyCleanServed, E!FileHasBytes, E!Rows

LEMMA EvidenceStatusPreserves ==
    ASSUME E!ConstantsOK, EvidenceInv, NEW I \in SUBSET E!Rows,
           NEW s \in E!Open \cup E!Decisions, E!WithStatus(I, s),
           UNCHANGED <<scan, stored, transfer, cleared, served>>
    PROVE  EvidenceInv'
<1>1. \A i \in One : evidence[i] \in E!Row \/ evidence[i] = None
  BY DEF EvidenceInv, E!TypeOK
<1>2. \A i \in I : i \in One /\ evidence[i] # None
  BY DEF E!Rows
<1>3. \A i \in One : evidence[i] # None =>
          /\ [evidence[i] EXCEPT !.status = s] \in E!Row
          /\ [evidence[i] EXCEPT !.status = s].object = evidence[i].object
  BY <1>1 DEF E!Row
<1>4. QED
  BY <1>1, <1>2, <1>3, EvidenceRowsPreserve DEF E!WithStatus, E!ConstantsOK

LEMMA EvidenceStep == ASSUME E!ConstantsOK, EvidenceInv, [E!Next]_E!vars PROVE EvidenceInv'
<1>1. ASSUME NEW i \in One, E!Create(i) PROVE EvidenceInv'
  <2>1. [status |-> "missing", object |-> None] \in E!Row
    BY DEF E!Row, E!Open
  <2>2. QED
    BY <1>1, <2>1, EvidenceRowsPreserve DEF E!Create, EvidenceInv, E!TypeOK
<1>2. ASSUME NEW i \in One, NEW d \in E!Decisions, E!Review(i, d) PROVE EvidenceInv'
  BY <1>2, EvidenceStatusPreserves DEF E!Review
<1>3. ASSUME NEW I \in SUBSET One, NEW s \in E!Open, E!Update(I, s) PROVE EvidenceInv'
  BY <1>3, EvidenceStatusPreserves DEF E!Update
<1>4. ASSUME NEW o \in Two, NEW verdict \in E!Verdicts, E!Verdict(o, verdict)
      PROVE  EvidenceInv'
  BY <1>4 DEF E!Verdict, E!Verdicts, EvidenceInv, E!TypeOK, E!OnlyCleanServed, E!FileHasBytes,
              E!Rows, E!Row
<1>5. ASSUME NEW v \in Editors, NEW i \in One, NEW o \in Two, E!PutBytes(v, i, o)
      PROVE  EvidenceInv'
  <2>1. [kind |-> "upload", item |-> i, object |-> o] \in E!Visit
    BY DEF E!Visit
  <2>2. QED
    BY <1>5, <2>1 DEF E!PutBytes, EvidenceInv, E!TypeOK, E!OnlyCleanServed, E!FileHasBytes, E!Rows
<1>6. ASSUME NEW v \in Editors, NEW i \in One, E!FindFile(v, i) PROVE EvidenceInv'
  <2>1. evidence[i].object \in Two
    BY <1>6 DEF E!FindFile, E!Rows, EvidenceInv, E!TypeOK, E!Row
  <2>2. [kind |-> "found", item |-> i, object |-> evidence[i].object] \in E!Visit
    BY <2>1 DEF E!Visit
  <2>3. QED
    BY <1>6, <2>2 DEF E!FindFile, EvidenceInv, E!TypeOK, E!OnlyCleanServed, E!FileHasBytes, E!Rows
<1>7. ASSUME NEW v \in Editors, E!CommitUpload(v) PROVE EvidenceInv'
  <2> DEFINE i == transfer[v].item
             o == transfer[v].object
             row == [status |-> "in_review", object |-> o]
  <2>1. /\ i \in One /\ o \in Two
        /\ o \in stored
    BY <1>7, TransferFields DEF E!CommitUpload, EvidenceInv
  <2>2. row \in E!Row
    BY <2>1 DEF E!Row, E!Open
  <2>3. /\ evidence' = [evidence EXCEPT ![i] = row]
        /\ scan' = [scan EXCEPT ![o] = "pending"]
    BY <1>7 DEF E!CommitUpload
  <2>4. E!TypeOK'
    BY <1>7, <2>1, <2>2, <2>3 DEF E!CommitUpload, EvidenceInv, E!TypeOK, E!Visit, E!Idle
  <2>5. E!FileHasBytes'
    BY <1>7, <2>1, <2>2, <2>3 DEF E!CommitUpload, EvidenceInv, E!TypeOK, E!FileHasBytes, E!Rows
  <2>6. QED
    BY <1>7, <2>1, <2>3, <2>4, <2>5
    DEF E!CommitUpload, EvidenceInv, E!TypeOK, E!OnlyCleanServed, E!Idle
<1>8. ASSUME NEW v \in Editors, E!AssertObjectIsClean(v) PROVE EvidenceInv'
  <2>1. /\ transfer[v].object \in Two
        /\ transfer' = [transfer EXCEPT ![v] = [kind |-> "allowed", item |-> transfer[v].item,
                                                object |-> transfer[v].object]]
        /\ [kind |-> "allowed", item |-> transfer[v].item, object |-> transfer[v].object]
               \in E!Visit
    <3>1. /\ transfer[v].item \in One /\ transfer[v].object \in Two
          /\ transfer[v] = [kind |-> "found", item |-> transfer[v].item,
                            object |-> transfer[v].object]
      BY <1>8, TransferFields DEF E!AssertObjectIsClean, EvidenceInv
    <3>2. [transfer[v] EXCEPT !.kind = "allowed"]
              = [kind |-> "allowed", item |-> transfer[v].item, object |-> transfer[v].object]
      BY <3>1
    <3>3. QED
      BY <1>8, <3>1, <3>2 DEF E!AssertObjectIsClean, E!Visit
  <2>2. QED
    <3>1. scan[transfer[v].object] = "clean" /\ UNCHANGED <<evidence, scan, stored, cleared, served>>
      BY <1>8 DEF E!AssertObjectIsClean
    <3>2. QED
      BY <2>1, <3>1
      DEF EvidenceInv, E!TypeOK, E!OnlyCleanServed, E!FileHasBytes, E!Rows
<1>9. ASSUME NEW v \in Editors, E!Stream(v) \/ E!Fail(v) PROVE EvidenceInv'
  <2>1. served' \subseteq Two /\ served' \subseteq cleared
    BY <1>9, TransferFields DEF E!Stream, E!Fail, EvidenceInv, E!TypeOK, E!OnlyCleanServed
  <2>2. E!Idle \in E!Visit /\ E!Idle.kind = "idle"
    BY DEF E!Idle, E!Visit
  <2>3. /\ transfer' = [transfer EXCEPT ![v] = E!Idle]
        /\ UNCHANGED <<evidence, scan, stored, cleared>>
    BY <1>9 DEF E!Stream, E!Fail
  <2>4. QED
    BY <2>1, <2>2, <2>3
    DEF EvidenceInv, E!TypeOK, E!OnlyCleanServed, E!FileHasBytes, E!Rows
<1>10. CASE UNCHANGED E!vars
  BY <1>10 DEF E!vars, EvidenceInv, E!TypeOK, E!OnlyCleanServed, E!FileHasBytes, E!Rows
<1>11. QED
  BY <1>1, <1>2, <1>3, <1>4, <1>5, <1>6, <1>7, <1>8, <1>9, <1>10 DEF E!Next

LEMMA EvidenceInvariance == ASSUME E!ConstantsOK PROVE E!Spec => []EvidenceInv
  BY EvidenceInit, EvidenceStep, PTL DEF E!Spec

-----------------------------------------------------------------------------
(* Reports: a narrative and an approval stand on the snapshot *)

WorksOn(e, r) == reportOp[e] # N!Idle /\ reportOp[e].report = r

\* The only operation in flight on a report has read the snapshot that it has,
\* in a status that still allows for what it is about to write.
ReportAlone(e, r) ==
    /\ \A d \in Editors : WorksOn(d, r) => d = e
    /\ reportOp[e].kind = "narrate" => reportOp[e].snapshot = report[r].snapshot
    /\ reportOp[e].kind = "regenerate" => report[r].status \in {"draft", "reviewed"}
    /\ reportOp[e].kind = "approve" => report[r].ready

ReportsInv ==
    /\ N!TypeOK
    /\ N!SoundAlone
    /\ \A e \in Editors : reportOp[e] # N!Idle => reportOp[e].report \in N!Rows
    /\ \A e \in Editors, r \in One \ reportContended : WorksOn(e, r) => ReportAlone(e, r)

LEMMA ReportsInit == ASSUME N!ConstantsOK, N!Init PROVE ReportsInv
<1>1. N!Idle \in N!Op
  BY DEF N!Op
<1>2. QED
  BY <1>1 DEF N!Init, ReportsInv, N!TypeOK, N!SoundAlone, N!Rows, WorksOn

LEMMA ReportFields ==
    ASSUME N!TypeOK
    PROVE  /\ \A r \in N!Rows : r \in One /\ report[r] \in N!Row
           /\ \A e \in Editors :
                 /\ reportOp[e].kind \in {"regenerate", "approve", "narrate"} =>
                       reportOp[e] # N!Idle
                 /\ reportOp[e] # N!Idle =>
                       /\ reportOp[e].report \in One
                       /\ reportOp[e].snapshot \in N!Snapshots
                       /\ reportOp[e].kind \in {"regenerate", "approve", "narrate"}
           /\ N!Idle \in N!Op /\ N!Idle.kind = "idle"
  BY DEF N!TypeOK, N!Rows, N!Op, N!Idle

\* An operation begins with the snapshot it reads.
LEMMA ReportReadPreserves ==
    ASSUME ReportsInv, NEW e \in Editors, NEW r \in N!Rows,
           NEW kind \in {"regenerate", "approve", "narrate"}, N!Begin(e, kind, r),
           kind = "regenerate" => report[r].status = "draft",
           kind = "approve" => report[r].ready
    PROVE  ReportsInv'
<1> DEFINE what == [kind |-> kind, report |-> r, snapshot |-> report[r].snapshot]
<1>1. /\ what \in N!Op /\ what # N!Idle /\ what.report = r /\ what.kind = kind
      /\ what.snapshot = report[r].snapshot
  BY ReportFields DEF ReportsInv, N!Row, N!Op, N!Idle
<1>2. /\ reportOp[e] = N!Idle /\ reportOp' = [reportOp EXCEPT ![e] = what] /\ report' = report
      /\ reportContended \subseteq reportContended' /\ reportContended' \subseteq One
      /\ \A d \in Editors : reportOp[d] # N!Idle /\ reportOp[d].report = r => r \in reportContended'
  BY ReportFields DEF N!Begin, ReportsInv, N!TypeOK
<1> HIDE DEF what
<1>3. /\ N!Rows' = N!Rows
      /\ \A d \in Editors : reportOp'[d] = IF d = e THEN what ELSE reportOp[d]
      /\ N!TypeOK'
  BY <1>1, <1>2 DEF N!Rows, ReportsInv, N!TypeOK
<1>4. ASSUME NEW d \in Editors, NEW s \in One \ reportContended', WorksOn(d, s)'
      PROVE  ReportAlone(d, s)'
  <2>1. \A c \in Editors : WorksOn(c, s)' => (c = e /\ s = r) \/ (c # e /\ WorksOn(c, s))
    BY <1>1, <1>3 DEF WorksOn
  <2>2. CASE d = e
    <3>1. s = r /\ \A c \in Editors : ~WorksOn(c, r)
      BY <1>2, <1>4, <2>1, <2>2 DEF WorksOn
    <3>2. QED
      BY <1>1, <1>2, <1>3, <1>4, <2>1, <2>2, <3>1 DEF ReportAlone
  <2>3. CASE d # e
    <3>1. WorksOn(d, s) /\ s # r
      BY <1>2, <1>4, <2>1, <2>3 DEF WorksOn
    <3>2. ReportAlone(d, s)
      BY <1>2, <1>4, <3>1 DEF ReportsInv
    <3>3. QED
      BY <1>2, <1>3, <2>1, <2>3, <3>1, <3>2 DEF ReportAlone
  <2>4. QED
    BY <2>2, <2>3
<1>5. QED
  BY <1>1, <1>2, <1>3, <1>4 DEF ReportsInv, N!SoundAlone

\* An operation writes and ends, or only ends.
LEMMA ReportWritePreserves ==
    ASSUME N!ConstantsOK, ReportsInv, NEW e \in Editors, reportOp[e] # N!Idle,
           NEW row \in N!Row, N!End(e),
           report' = [report EXCEPT ![reportOp[e].report] = row],
           reportOp[e].report \notin reportContended =>
              /\ row.narrative \in {0, row.snapshot}
              /\ row.status \in {"approved", "exported"} => row.ready
    PROVE  ReportsInv'
<1> DEFINE r == reportOp[e].report
<1>1. r \in N!Rows /\ r \in One /\ row # None
  BY ReportFields DEF ReportsInv, N!ConstantsOK
<1>2. /\ report'[r] = row /\ \A s \in One \ {r} : report'[s] = report[s]
      /\ report' \in [One -> N!Row \cup {None}]
  BY <1>1 DEF ReportsInv, N!TypeOK
<1>3. N!Rows' = N!Rows
  BY <1>1, <1>2 DEF N!Rows
<1>4. /\ reportOp' \in [Editors -> N!Op] /\ reportContended' = reportContended
      /\ \A d \in Editors : reportOp'[d] = IF d = e THEN N!Idle ELSE reportOp[d]
  BY ReportFields DEF N!End, ReportsInv, N!TypeOK
<1>5. ASSUME NEW d \in Editors, NEW s \in One \ reportContended', WorksOn(d, s)'
      PROVE  ReportAlone(d, s)'
  <2>1. \A c \in Editors : WorksOn(c, s)' => c # e /\ WorksOn(c, s)
    BY <1>4 DEF WorksOn
  <2>2. ReportAlone(d, s) /\ d # e
    BY <1>4, <1>5, <2>1 DEF ReportsInv
  <2>3. s # r
    BY <2>2 DEF ReportAlone, WorksOn
  <2>4. QED
    BY <1>2, <1>4, <2>1, <2>2, <2>3 DEF ReportAlone
<1>6. N!SoundAlone'
  BY <1>1, <1>2, <1>3, <1>4, ReportFields DEF ReportsInv, N!SoundAlone
<1>7. QED
  BY <1>2, <1>3, <1>4, <1>5, <1>6 DEF ReportsInv, N!TypeOK

LEMMA ReportsStep == ASSUME N!ConstantsOK, ReportsInv, [N!Next]_N!vars PROVE ReportsInv'
<1>1. ASSUME NEW r \in One, NEW ready \in BOOLEAN, N!Generate(r, ready) PROVE ReportsInv'
  <2> DEFINE row == [status |-> "draft", snapshot |-> 1, ready |-> ready, narrative |-> 0]
  <2>1. row \in N!Row /\ row # None /\ row.status = "draft" /\ row.narrative = 0
    <3>1. row \in N!Row
      BY <1>1 DEF N!Generate, N!Row, N!Statuses, N!Snapshots, N!ConstantsOK
    <3>2. QED
      BY <3>1 DEF N!ConstantsOK
  <2>2. /\ r \notin N!Rows /\ report' = [report EXCEPT ![r] = row]
        /\ UNCHANGED <<reportOp, reportContended>>
    BY <1>1 DEF N!Generate
  <2> HIDE DEF row
  <2>3. /\ report'[r] = row /\ \A s \in One \ {r} : report'[s] = report[s]
        /\ N!Rows' = N!Rows \cup {r}
    BY <2>1, <2>2 DEF ReportsInv, N!TypeOK, N!Rows
  <2>4. N!TypeOK'
    BY <2>1, <2>2 DEF ReportsInv, N!TypeOK
  <2>5. N!SoundAlone'
    BY <2>1, <2>2, <2>3, ReportFields DEF ReportsInv, N!SoundAlone
  <2>6. \A e \in Editors, t \in One : WorksOn(e, t) => t # r
    BY <2>2 DEF ReportsInv, WorksOn
  <2>7. \A e \in Editors, t \in One : WorksOn(e, t)' <=> WorksOn(e, t)
    BY <2>2 DEF WorksOn
  <2>8. \A e \in Editors, t \in One : WorksOn(e, t) /\ ReportAlone(e, t) => ReportAlone(e, t)'
    BY <2>2, <2>3, <2>6, <2>7 DEF ReportAlone
  <2>9. QED
    BY <2>2, <2>3, <2>4, <2>5, <2>7, <2>8 DEF ReportsInv
<1>2. ASSUME NEW r \in One, NEW to \in N!Statuses, N!Move(r, to) PROVE ReportsInv'
  <2> DEFINE row == [report[r] EXCEPT !.status = to]
  <2>1. r \in N!Rows /\ report[r] \in N!Row
    BY <1>2, ReportFields DEF N!Move, ReportsInv
  <2>2. /\ row \in N!Row /\ row.status = to /\ row.snapshot = report[r].snapshot
        /\ row.ready = report[r].ready /\ row.narrative = report[r].narrative
    BY <2>1 DEF N!Row
  <2>3. row # None
    BY <2>2 DEF N!ConstantsOK
  <2>4. /\ \/ to = "reviewed" /\ report[r].status = "draft"
           \/ to = "exported" /\ report[r].status = "approved"
        /\ report' = [report EXCEPT ![r] = row]
        /\ UNCHANGED <<reportOp, reportContended>>
    BY <1>2 DEF N!Move, N!Transitions
  <2> HIDE DEF row
  <2>5. /\ report'[r] = row /\ \A s \in One \ {r} : report'[s] = report[s]
        /\ N!Rows' = N!Rows
    BY <2>1, <2>3, <2>4 DEF ReportsInv, N!TypeOK, N!Rows
  <2>6. N!TypeOK'
    BY <2>2, <2>4 DEF ReportsInv, N!TypeOK
  <2>7. N!SoundAlone'
    BY <2>1, <2>2, <2>4, <2>5, ReportFields DEF ReportsInv, N!SoundAlone
  <2>8. \A e \in Editors, t \in One : WorksOn(e, t)' <=> WorksOn(e, t)
    BY <2>4 DEF WorksOn
  <2>9. ASSUME NEW e \in Editors, NEW t \in One, WorksOn(e, t), ReportAlone(e, t)
        PROVE  ReportAlone(e, t)'
    <3>1. CASE t = r
      BY <2>2, <2>4, <2>5, <2>8, <2>9, <3>1 DEF ReportAlone
    <3>2. CASE t # r
      BY <2>4, <2>5, <2>8, <2>9, <3>2 DEF ReportAlone
    <3>3. QED
      BY <3>1, <3>2
  <2>10. QED
    BY <2>4, <2>5, <2>6, <2>7, <2>8, <2>9 DEF ReportsInv
<1>3. ASSUME NEW e \in Editors, NEW r \in One, NEW kind \in {"regenerate", "narrate"},
             N!ReadDraft(e, kind, r)
      PROVE  ReportsInv'
  BY <1>3, ReportReadPreserves DEF N!ReadDraft
<1>4. ASSUME NEW e \in Editors, NEW r \in One, N!ReadApprove(e, r) PROVE ReportsInv'
  BY <1>4, ReportReadPreserves, SMTT(30) DEF N!ReadApprove
<1>5. ASSUME NEW e \in Editors, NEW ready \in BOOLEAN, N!WriteRegenerate(e, ready)
      PROVE  ReportsInv'
  <2> DEFINE r == reportOp[e].report
             row == [report[r] EXCEPT !.snapshot = @ + 1, !.ready = ready, !.narrative = 0]
  <2>1. /\ reportOp[e].kind = "regenerate" /\ report[r].snapshot < MaxSnapshots
        /\ report' = [report EXCEPT ![r].snapshot = @ + 1, ![r].ready = ready, ![r].narrative = 0]
        /\ N!End(e)
    BY <1>5 DEF N!WriteRegenerate
  <2>2. reportOp[e] # N!Idle /\ r \in N!Rows /\ report[r] \in N!Row
    BY <2>1, ReportFields DEF ReportsInv
  <2>3. report' = [report EXCEPT ![r] = row]
    BY <2>1
  <2>4. /\ row \in N!Row /\ row.narrative = 0 /\ row.status = report[r].status
    <3>1. report[r].snapshot + 1 \in N!Snapshots /\ 0 \in N!Snapshots
      BY <2>1, <2>2 DEF N!Row, N!Snapshots, N!ConstantsOK
    <3>2. QED
      BY <2>2, <3>1 DEF N!Row
  <2>5. r \notin reportContended => row.status \in {"draft", "reviewed"}
    BY <2>1, <2>2, <2>4, ReportFields DEF ReportsInv, ReportAlone, WorksOn
  <2> HIDE DEF row
  <2>6. QED
    BY <2>1, <2>2, <2>3, <2>4, <2>5, ReportWritePreserves
<1>6. ASSUME NEW e \in Editors, N!WriteNarrative(e) PROVE ReportsInv'
  <2> DEFINE r == reportOp[e].report
             row == [report[r] EXCEPT !.narrative = reportOp[e].snapshot]
  <2>1. /\ reportOp[e].kind = "narrate" /\ report[r].status = "draft"
        /\ report' = [report EXCEPT ![r] = row] /\ N!End(e)
    BY <1>6 DEF N!WriteNarrative
  <2>2. /\ reportOp[e] # N!Idle /\ r \in N!Rows /\ report[r] \in N!Row
        /\ reportOp[e].snapshot \in N!Snapshots
    BY <2>1, ReportFields DEF ReportsInv
  <2>3. /\ row \in N!Row /\ row.narrative = reportOp[e].snapshot /\ row.status = "draft"
        /\ row.snapshot = report[r].snapshot
    BY <2>1, <2>2 DEF N!Row
  <2>4. r \notin reportContended => row.narrative = row.snapshot
    BY <2>1, <2>2, <2>3, ReportFields DEF ReportsInv, ReportAlone, WorksOn
  <2> HIDE DEF row
  <2>5. QED
    BY <2>1, <2>2, <2>3, <2>4, ReportWritePreserves
<1>7. ASSUME NEW e \in Editors, N!WriteApprove(e) PROVE ReportsInv'
  <2> DEFINE r == reportOp[e].report
             row == [report[r] EXCEPT !.status = "approved"]
  <2>1. /\ reportOp[e].kind = "approve" /\ report[r].status = "reviewed"
        /\ report' = [report EXCEPT ![r] = row] /\ N!End(e)
    BY <1>7 DEF N!WriteApprove
  <2>2. reportOp[e] # N!Idle /\ r \in N!Rows /\ report[r] \in N!Row
    BY <2>1, ReportFields DEF ReportsInv
  <2>3. /\ row \in N!Row /\ row.narrative = report[r].narrative /\ row.ready = report[r].ready
        /\ row.snapshot = report[r].snapshot
    BY <2>2 DEF N!Row, N!Statuses
  <2>4. r \notin reportContended => row.ready /\ row.narrative \in {0, row.snapshot}
    BY <2>1, <2>2, <2>3, ReportFields, SMTT(30) DEF ReportsInv, ReportAlone, WorksOn, N!SoundAlone
  <2> HIDE DEF row
  <2>5. QED
    BY <2>1, <2>2, <2>3, <2>4, ReportWritePreserves
<1>8. ASSUME NEW e \in Editors, N!Fail(e) PROVE ReportsInv'
  <2> DEFINE r == reportOp[e].report
  <2>1. reportOp[e] # N!Idle /\ report' = report /\ N!End(e)
    BY <1>8 DEF N!Fail
  <2>2. r \in N!Rows /\ report[r] \in N!Row
    BY <2>1, ReportFields DEF ReportsInv
  <2>3. report' = [report EXCEPT ![r] = report[r]]
    BY <2>1, <2>2 DEF ReportsInv, N!TypeOK
  <2>4. QED
    BY <2>1, <2>2, <2>3, ReportWritePreserves DEF ReportsInv, N!SoundAlone
<1>9. CASE UNCHANGED N!vars
  BY <1>9 DEF N!vars, ReportsInv, N!TypeOK, N!SoundAlone, N!Rows, ReportAlone, WorksOn
<1>10. QED
  BY <1>1, <1>2, <1>3, <1>4, <1>5, <1>6, <1>7, <1>8, <1>9 DEF N!Next

LEMMA ReportsInvariance == ASSUME N!ConstantsOK PROVE N!Spec => []ReportsInv
  BY ReportsInit, ReportsStep, PTL DEF N!Spec

ReportStatus == [r \in One |-> N!StatusOf(r)]

\* What moves one report along an edge, or none, is a step of the lifecycle or
\* none.
LEMMA ReportMoves ==
    ASSUME \A r \in One :
               \/ N!StatusOf(r)' = N!StatusOf(r)
               \/ N!StatusOf(r) = "absent" /\ N!StatusOf(r)' = "draft"
               \/ <<N!StatusOf(r), N!StatusOf(r)'>> \in N!Transitions
    PROVE  [N!L!Next]_ReportStatus
<1> DEFINE moved == {r \in One : N!StatusOf(r)' # N!StatusOf(r)}
<1>1. moved \in SUBSET One /\ \A r \in moved : N!L!Step(r)
  BY DEF N!L!Step
<1>2. ReportStatus' = [r \in One |-> IF r \in moved THEN ReportStatus'[r] ELSE ReportStatus[r]]
  BY DEF ReportStatus
<1>3. QED
  BY <1>1, <1>2 DEF N!L!Next, ReportStatus

LEMMA ReportStepFollows ==
    ASSUME N!ConstantsOK, ReportsInv, [N!Next]_N!vars
    PROVE  [N!L!Next]_ReportStatus
<1>1. ASSUME UNCHANGED report PROVE [N!L!Next]_ReportStatus
  BY <1>1, ReportMoves DEF N!StatusOf, N!Rows
<1>2. ASSUME NEW r \in One, NEW row \in N!Row, report' = [report EXCEPT ![r] = row],
             \/ r \notin N!Rows /\ row.status = "draft"
             \/ /\ r \in N!Rows
                /\ \/ row.status = report[r].status
                   \/ <<report[r].status, row.status>> \in N!Transitions
      PROVE [N!L!Next]_ReportStatus
  <2>1. report'[r] = row /\ row # None /\ \A s \in One \ {r} : report'[s] = report[s]
    BY <1>2 DEF ReportsInv, N!TypeOK, N!ConstantsOK
  <2>2. \A s \in One \ {r} : N!StatusOf(s)' = N!StatusOf(s)
    BY <2>1 DEF N!StatusOf, N!Rows
  <2>3. N!StatusOf(r)' = row.status
    BY <2>1 DEF N!StatusOf, N!Rows
  <2>4. N!StatusOf(r) = IF r \in N!Rows THEN report[r].status ELSE "absent"
    BY DEF N!StatusOf
  <2>5. QED
    BY <1>2, <2>2, <2>3, <2>4, ReportMoves
<1>3. ASSUME NEW r \in One, NEW ready \in BOOLEAN, N!Generate(r, ready)
      PROVE [N!L!Next]_ReportStatus
  <2> DEFINE row == [status |-> "draft", snapshot |-> 1, ready |-> ready, narrative |-> 0]
  <2>1. row \in N!Row /\ row.status = "draft"
    BY <1>3 DEF N!Generate, N!Row, N!Statuses, N!Snapshots, N!ConstantsOK
  <2>2. report' = [report EXCEPT ![r] = row] /\ r \notin N!Rows
    BY <1>3 DEF N!Generate
  <2> HIDE DEF row
  <2>3. QED
    BY <1>2, <2>1, <2>2
<1>4. ASSUME NEW r \in N!Rows, NEW to \in N!Statuses, <<report[r].status, to>> \in N!Transitions,
             report' = [report EXCEPT ![r].status = to]
      PROVE [N!L!Next]_ReportStatus
  <2> DEFINE row == [report[r] EXCEPT !.status = to]
  <2>1. row \in N!Row /\ row.status = to /\ r \in One
    BY ReportFields DEF ReportsInv, N!Row
  <2>2. report' = [report EXCEPT ![r] = row] /\ <<report[r].status, row.status>> \in N!Transitions
    BY <1>4, <2>1
  <2> HIDE DEF row
  <2>3. QED
    BY <1>2, <2>1, <2>2
<1>5. ASSUME NEW r \in One, NEW to \in N!Statuses, N!Move(r, to) PROVE [N!L!Next]_ReportStatus
  BY <1>4, <1>5 DEF N!Move
<1>6. ASSUME NEW e \in Editors, N!WriteApprove(e) PROVE [N!L!Next]_ReportStatus
  <2>1. reportOp[e].report \in N!Rows
    BY <1>6, ReportFields DEF N!WriteApprove, ReportsInv
  <2>2. <<"reviewed", "approved">> \in N!Transitions /\ "approved" \in N!Statuses
    BY SMTT(30) DEF N!Transitions, N!Statuses
  <2>3. QED
    BY <1>4, <1>6, <2>1, <2>2 DEF N!WriteApprove
<1>7. ASSUME NEW e \in Editors,
             \/ N!WriteNarrative(e)
             \/ \E ready \in BOOLEAN : N!WriteRegenerate(e, ready)
      PROVE [N!L!Next]_ReportStatus
  <2> DEFINE r == reportOp[e].report
  <2>1. r \in N!Rows /\ r \in One /\ report[r] \in N!Row /\ reportOp[e].snapshot \in N!Snapshots
    BY <1>7, ReportFields, ZenonT(40) DEF N!WriteNarrative, N!WriteRegenerate, ReportsInv
  <2>2. PICK row : /\ report' = [report EXCEPT ![r] = row]
                   /\ \/ row = [report[r] EXCEPT !.narrative = reportOp[e].snapshot]
                      \/ \E ready \in BOOLEAN :
                            /\ row = [report[r] EXCEPT !.snapshot = @ + 1, !.ready = ready,
                                                       !.narrative = 0]
                            /\ report[r].snapshot < MaxSnapshots
    <3>1. CASE N!WriteNarrative(e)
      BY <3>1 DEF N!WriteNarrative
    <3>2. CASE \E ready \in BOOLEAN : N!WriteRegenerate(e, ready)
      <4>1. PICK ready \in BOOLEAN : N!WriteRegenerate(e, ready)
        BY <3>2
      <4>2. /\ report' = [report EXCEPT ![r] = [report[r] EXCEPT !.snapshot = @ + 1,
                                                   !.ready = ready, !.narrative = 0]]
            /\ report[r].snapshot < MaxSnapshots
        BY <4>1 DEF N!WriteRegenerate
      <4>3. QED
        BY <4>2
    <3>3. QED
      BY <1>7, <3>1, <3>2
  <2>3. row \in N!Row /\ row.status = report[r].status
    <3>1. /\ 0 \in N!Snapshots
          /\ report[r].snapshot < MaxSnapshots => report[r].snapshot + 1 \in N!Snapshots
      BY <2>1 DEF N!Row, N!Snapshots, N!ConstantsOK
    <3>2. QED
      BY <2>1, <2>2, <3>1 DEF N!Row
  <2>4. QED
    BY <1>2, <2>1, <2>2, <2>3, ZenonT(40)
<1>8. QED
  BY <1>1, <1>3, <1>5, <1>6, <1>7
  DEF N!Next, N!vars, N!ReadDraft, N!ReadApprove, N!Begin, N!Fail

\* Reports take the transitions of reports/operations.ts.
LEMMA ReportsFollow == ASSUME N!ConstantsOK PROVE N!Spec => N!ReportsFollowLifecycle
<1>1. N!Init => N!L!Init
  BY DEF N!Init, N!L!Init, N!StatusOf, N!Rows
<1>2. ReportsInv /\ [N!Next]_N!vars => [N!L!Next]_ReportStatus
  BY ReportStepFollows
<1>3. QED
  BY <1>1, <1>2, ReportsInvariance, PTL
  DEF N!Spec, N!ReportsFollowLifecycle, N!L!Spec, ReportStatus

-----------------------------------------------------------------------------
(* ActionKeys: nothing runs more often than somebody clicked for it *)

\* How far a record has come by its status, where none of its fixed keys can
\* be used again: a verb with a fixed key leads further, no verb leads back.
Progress(s) ==
    CASE s \in {"requested", "submitted", "executed", "scored", "routed", "active", "in_progress"} -> 1
      [] s \in {"in_review", "dismissed", "reviewed", "achieved", "completed"} -> 2
      [] s \in {"approved", "rejected"} -> 3
      [] s \in {"deployed", "exported"} -> 4
      [] s \in {"funded", "withdrawn", "claimed"} -> 5
      [] s = "reimbursed" -> 6
      [] OTHER -> 0

VerbsAdvance(V) ==
    \A v \in V : \A s \in v.from :
        /\ Progress(s) <= Progress(v.to)
        /\ v.fixed /\ s # v.to => Progress(s) < Progress(v.to)

VerbsNamed(V) ==
    \A v, w \in V : v.fixed /\ w.fixed /\ v.name = w.name => v.to = w.to

VerbsSound(f, V) ==
    /\ X!Verbs[f] = V
    /\ VerbsNamed(V)
    /\ f \notin X!Returning => VerbsAdvance(V)

LEMMA FamiliesSound ==
    ASSUME NEW f \in X!Families
    PROVE  /\ VerbsNamed(X!Verbs[f])
           /\ f \notin X!Returning => VerbsAdvance(X!Verbs[f])
<1>1. VerbsSound("mdf", X!MdfVerbs)
  <2>1. X!Verbs["mdf"] = X!MdfVerbs
    BY DEF X!Verbs
  <2>2. VerbsNamed(X!MdfVerbs)
    BY DEF VerbsNamed, X!MdfVerbs, X!Fixed, X!Drawn
  <2>3. "mdf" \notin X!Returning => VerbsAdvance(X!MdfVerbs)
    BY DEF VerbsAdvance, X!Returning, X!MdfVerbs, X!Fixed, X!Drawn, Progress
  <2>4. QED
    BY <2>1, <2>2, <2>3 DEF VerbsSound
<1>2. VerbsSound("funding", X!FundingVerbs)
  <2>1. X!Verbs["funding"] = X!FundingVerbs
    BY DEF X!Verbs
  <2>2. VerbsNamed(X!FundingVerbs)
    BY DEF VerbsNamed, X!FundingVerbs, X!Fixed, X!Drawn
  <2>3. "funding" \notin X!Returning => VerbsAdvance(X!FundingVerbs)
    BY DEF VerbsAdvance, X!Returning, X!FundingVerbs, X!Fixed, X!Drawn, Progress
  <2>4. QED
    BY <2>1, <2>2, <2>3 DEF VerbsSound
<1>3. VerbsSound("report", X!ReportVerbs)
  <2>1. X!Verbs["report"] = X!ReportVerbs
    BY DEF X!Verbs
  <2>2. VerbsNamed(X!ReportVerbs)
    BY DEF VerbsNamed, X!ReportVerbs, X!Fixed, X!Drawn
  <2>3. "report" \notin X!Returning => VerbsAdvance(X!ReportVerbs)
    BY DEF VerbsAdvance, X!Returning, X!ReportVerbs, X!Fixed, X!Drawn, Progress
  <2>4. QED
    BY <2>1, <2>2, <2>3 DEF VerbsSound
<1>4. VerbsSound("run", X!RunVerbs)
  <2>1. X!Verbs["run"] = X!RunVerbs
    BY DEF X!Verbs
  <2>2. VerbsNamed(X!RunVerbs)
    BY DEF VerbsNamed, X!RunVerbs, X!Fixed, X!Drawn
  <2>3. "run" \notin X!Returning => VerbsAdvance(X!RunVerbs)
    BY DEF VerbsAdvance, X!Returning, X!RunVerbs, X!Fixed, X!Drawn, Progress
  <2>4. QED
    BY <2>1, <2>2, <2>3 DEF VerbsSound
<1>5. VerbsSound("assessment", X!AssessmentVerbs)
  <2>1. X!Verbs["assessment"] = X!AssessmentVerbs
    BY DEF X!Verbs
  <2>2. VerbsNamed(X!AssessmentVerbs)
    BY DEF VerbsNamed, X!AssessmentVerbs, X!Fixed, X!Drawn
  <2>3. "assessment" \notin X!Returning => VerbsAdvance(X!AssessmentVerbs)
    BY DEF VerbsAdvance, X!Returning, X!AssessmentVerbs, X!Fixed, X!Drawn, Progress
  <2>4. QED
    BY <2>1, <2>2, <2>3 DEF VerbsSound
<1>6. VerbsSound("recommendation", X!RecommendationVerbs)
  <2>1. X!Verbs["recommendation"] = X!RecommendationVerbs
    BY DEF X!Verbs
  <2>2. VerbsNamed(X!RecommendationVerbs)
    BY DEF VerbsNamed, X!RecommendationVerbs, X!Fixed, X!Drawn
  <2>3. "recommendation" \notin X!Returning => VerbsAdvance(X!RecommendationVerbs)
    BY DEF VerbsAdvance, X!Returning, X!RecommendationVerbs, X!Fixed, X!Drawn, Progress
  <2>4. QED
    BY <2>1, <2>2, <2>3 DEF VerbsSound
<1>7. VerbsSound("routing", X!RoutingVerbs)
  <2>1. X!Verbs["routing"] = X!RoutingVerbs
    BY DEF X!Verbs
  <2>2. VerbsNamed(X!RoutingVerbs)
    BY DEF VerbsNamed, X!RoutingVerbs, X!Fixed, X!Drawn
  <2>3. "routing" \notin X!Returning => VerbsAdvance(X!RoutingVerbs)
    BY DEF VerbsAdvance, X!Returning, X!RoutingVerbs, X!Fixed, X!Drawn, Progress
  <2>4. QED
    BY <2>1, <2>2, <2>3 DEF VerbsSound
<1>8. VerbsSound("tier", X!TierVerbs)
  <2>1. X!Verbs["tier"] = X!TierVerbs
    BY DEF X!Verbs
  <2>2. VerbsNamed(X!TierVerbs)
    BY DEF VerbsNamed, X!TierVerbs, X!Fixed, X!Drawn
  <2>3. "tier" \notin X!Returning => VerbsAdvance(X!TierVerbs)
    BY DEF VerbsAdvance, X!Returning, X!TierVerbs, X!Fixed, X!Drawn, Progress
  <2>4. QED
    BY <2>1, <2>2, <2>3 DEF VerbsSound
<1>9. VerbsSound("onboarding", X!OnboardingVerbs)
  <2>1. X!Verbs["onboarding"] = X!OnboardingVerbs
    BY DEF X!Verbs
  <2>2. VerbsNamed(X!OnboardingVerbs)
    BY DEF VerbsNamed, X!OnboardingVerbs, X!Fixed, X!Drawn
  <2>3. "onboarding" \notin X!Returning => VerbsAdvance(X!OnboardingVerbs)
    BY DEF VerbsAdvance, X!Returning, X!OnboardingVerbs, X!Fixed, X!Drawn, Progress
  <2>4. QED
    BY <2>1, <2>2, <2>3 DEF VerbsSound
<1>10. VerbsSound("application", X!ApplicationVerbs)
  <2>1. X!Verbs["application"] = X!ApplicationVerbs
    BY DEF X!Verbs
  <2>2. VerbsNamed(X!ApplicationVerbs)
    BY DEF VerbsNamed, X!ApplicationVerbs, X!Fixed, X!Drawn
  <2>3. "application" \notin X!Returning => VerbsAdvance(X!ApplicationVerbs)
    BY DEF VerbsAdvance, X!Returning, X!ApplicationVerbs, X!Fixed, X!Drawn, Progress
  <2>4. QED
    BY <2>1, <2>2, <2>3 DEF VerbsSound
<1>11. VerbsSound("roadmap", X!RoadmapVerbs)
  <2>1. X!Verbs["roadmap"] = X!RoadmapVerbs
    BY DEF X!Verbs
  <2>2. VerbsNamed(X!RoadmapVerbs)
    BY DEF VerbsNamed, X!RoadmapVerbs, X!Fixed, X!Drawn
  <2>3. "roadmap" \notin X!Returning => VerbsAdvance(X!RoadmapVerbs)
    BY DEF VerbsAdvance, X!Returning, X!RoadmapVerbs, X!Fixed, X!Drawn, Progress
  <2>4. QED
    BY <2>1, <2>2, <2>3 DEF VerbsSound
<1>12. VerbsSound("row", X!CreateVerbs)
  <2>1. X!Verbs["row"] = X!CreateVerbs
    BY DEF X!Verbs
  <2>2. VerbsNamed(X!CreateVerbs)
    BY DEF VerbsNamed, X!CreateVerbs, X!Fixed, X!Drawn
  <2>3. "row" \notin X!Returning => VerbsAdvance(X!CreateVerbs)
    BY DEF VerbsAdvance, X!Returning, X!CreateVerbs, X!Fixed, X!Drawn, Progress
  <2>4. QED
    BY <2>1, <2>2, <2>3 DEF VerbsSound
<1>13. VerbsSound("task", X!TaskVerbs)
  <2>1. X!Verbs["task"] = X!TaskVerbs
    BY DEF X!Verbs
  <2>2. VerbsNamed(X!TaskVerbs)
    BY DEF VerbsNamed, X!TaskVerbs, X!Fixed, X!Drawn
  <2>3. "task" \notin X!Returning => VerbsAdvance(X!TaskVerbs)
    BY DEF VerbsAdvance, X!Returning, X!TaskVerbs, X!Fixed, X!Drawn, Progress
  <2>4. QED
    BY <2>1, <2>2, <2>3 DEF VerbsSound
<1>14. VerbsSound("switch", X!SwitchVerbs)
  <2>1. X!Verbs["switch"] = X!SwitchVerbs
    BY DEF X!Verbs
  <2>2. VerbsNamed(X!SwitchVerbs)
    BY DEF VerbsNamed, X!SwitchVerbs, X!Fixed, X!Drawn
  <2>3. "switch" \notin X!Returning => VerbsAdvance(X!SwitchVerbs)
    BY DEF VerbsAdvance, X!Returning, X!SwitchVerbs, X!Fixed, X!Drawn, Progress
  <2>4. QED
    BY <2>1, <2>2, <2>3 DEF VerbsSound
<1>15. VerbsSound("program", X!ProgramVerbs)
  <2>1. X!Verbs["program"] = X!ProgramVerbs
    BY DEF X!Verbs
  <2>2. VerbsNamed(X!ProgramVerbs)
    BY DEF VerbsNamed, X!ProgramVerbs, X!Fixed, X!Drawn
  <2>3. "program" \notin X!Returning => VerbsAdvance(X!ProgramVerbs)
    BY DEF VerbsAdvance, X!Returning, X!ProgramVerbs, X!Fixed, X!Drawn, Progress
  <2>4. QED
    BY <2>1, <2>2, <2>3 DEF VerbsSound
<1>16. VerbsSound("attachment", X!AttachVerbs)
  <2>1. X!Verbs["attachment"] = X!AttachVerbs
    BY DEF X!Verbs
  <2>2. VerbsNamed(X!AttachVerbs)
    BY DEF VerbsNamed, X!AttachVerbs, X!Fixed, X!Drawn
  <2>3. "attachment" \notin X!Returning => VerbsAdvance(X!AttachVerbs)
    BY DEF VerbsAdvance, X!Returning, X!AttachVerbs, X!Fixed, X!Drawn, Progress
  <2>4. QED
    BY <2>1, <2>2, <2>3 DEF VerbsSound
<1>17. f \in {"mdf", "funding", "report", "run", "assessment", "recommendation", "routing", "tier", "onboarding", "application", "roadmap", "row", "task", "switch", "program", "attachment"}
  BY DEF X!Families, X!Verbs
<1>18. QED
  BY <1>17, <1>1, <1>2, <1>3, <1>4, <1>5, <1>6, <1>7, <1>8, <1>9, <1>10, <1>11, <1>12, <1>13, <1>14, <1>15, <1>16
  DEF VerbsSound

\* A form's token, and what its clicks have done: the action has run at most
\* once since the first of them, and a second one finds its key.
FormSound(fm, last, ks) ==
    /\ fm.verb.fixed => fm.token = 0
    /\ ~fm.verb.fixed => fm.token \in 1..last
    /\ fm.runs <= 1
    /\ fm.again => fm.clicks = 1
    /\ fm.clicks > 0 /\ ~fm.again => fm.runs = 0
    /\ fm.clicks > 0 /\ fm.runs = 1 => X!Key(fm.verb, fm.token) \in ks
    /\ ~fm.verb.fixed /\ ~fm.again => <<"token", fm.token>> \notin ks

\* Tokens are drawn one after the other, for one form each; a fixed key that is
\* in use tells how far the record has come.
KeysInv ==
    /\ X!TypeOK
    /\ X!ClicksAreCarriedOut
    /\ \A e \in Editors : form[e] # None => FormSound(form[e], drawn, used)
    /\ \A e1, e2 \in Editors :
          /\ e1 # e2 /\ form[e1] # None /\ form[e2] # None
          /\ ~form[e1].verb.fixed
          /\ ~form[e2].verb.fixed
          => form[e1].token # form[e2].token
    /\ \A t \in X!Tokens : <<"token", t>> \in used => t <= drawn
    /\ family \notin X!Returning =>
          \A v \in X!Verbs[family] :
              v.fixed /\ <<v.name, 0>> \in used => Progress(v.to) <= Progress(standing)

LEMMA KeysInit == ASSUME X!ConstantsOK, X!Init PROVE KeysInv
  BY DEF X!ConstantsOK, X!Init, KeysInv, X!TypeOK, X!ClicksAreCarriedOut, X!Statuses, X!Tokens

LEMMA FormFields ==
    ASSUME X!TypeOK, NEW e \in Editors, form[e] # None
    PROVE  /\ form[e] \in X!Form(family)
           /\ form[e].verb \in X!Verbs[family]
           /\ form[e].token \in 0..MaxTokens
           /\ form[e].clicks \in 0..2
           /\ form[e].runs \in 0..2
           /\ form[e].again \in BOOLEAN
  BY DEF X!TypeOK, X!Form

\* A key that is added is the one of the click that ran.
LEMMA KeyAdded ==
    ASSUME X!ConstantsOK, NEW v \in X!Verbs[family], NEW t \in Nat, v.fixed => t = 0, ~v.fixed => t \in X!Tokens
    PROVE  /\ X!Key(v, t) \in {X!Key(v2, t2) : v2 \in X!Verbs[family], t2 \in X!Tokens}
           /\ ~v.fixed => X!Key(v, t) = <<"token", t>>
           /\ v.fixed => X!Key(v, t) = <<v.name, 0>>
<1>1. 1 \in X!Tokens
  BY DEF X!ConstantsOK, X!Tokens
<1>2. CASE v.fixed
  <2>1. X!Key(v, t) = X!Key(v, 1)
    BY <1>2 DEF X!Key
  <2>2. QED
    BY <1>1, <1>2, <2>1 DEF X!Key
<1>3. CASE ~v.fixed
  BY <1>3 DEF X!Key
<1>4. QED
  BY <1>2, <1>3

\* The pages other than one, when its form changes and no token is taken back.
LEMMA OtherForms ==
    ASSUME X!ConstantsOK, KeysInv, NEW e \in Editors, NEW row,
           form' = [form EXCEPT ![e] = row], drawn' \in 0..MaxTokens, drawn <= drawn',
           NEW K2, used' = used \cup K2,
           \A k \in K2 : form[e] # None /\ k = X!Key(form[e].verb, form[e].token),
           NEW e2 \in Editors, e2 # e, form'[e2] # None
    PROVE  FormSound(form[e2], drawn', used') /\ form'[e2] = form[e2]
<1>1. form'[e2] = form[e2]
  BY DEF KeysInv, X!TypeOK
<1>2. form[e2] # None /\ FormSound(form[e2], drawn, used)
  BY <1>1 DEF KeysInv
<1>3. X!TypeOK
  BY DEF KeysInv
<1>4. ~form[e2].verb.fixed /\ <<"token", form[e2].token>> \in K2 => <<"token", form[e2].token>> \in used
  <2>1. SUFFICES ASSUME ~form[e2].verb.fixed, <<"token", form[e2].token>> \in K2 PROVE FALSE
    OBVIOUS
  <2>2. form[e] # None /\ <<"token", form[e2].token>> = X!Key(form[e].verb, form[e].token)
    BY <2>1
  <2>3. form[e2].token \in 1..drawn /\ drawn \in Nat
    BY <1>2, <2>1, <1>3 DEF FormSound, X!TypeOK
  <2>4. form[e2].token # 0
    BY <2>3
  <2>5. ~form[e].verb.fixed
    BY <2>2, <2>4 DEF X!Key
  <2>6. form[e].token = form[e2].token
    BY <2>2, <2>5 DEF X!Key
  <2>7. QED
    BY <1>2, <2>1, <2>2, <2>5, <2>6 DEF KeysInv
<1>5. drawn \in Nat /\ drawn' \in Nat
  BY <1>3 DEF X!TypeOK
<1>6. QED
  <2> DEFINE fm == form[e2]
  <2>1. fm.token \in Nat
    BY <1>2, <1>3, FormFields
  <2>2. ~fm.verb.fixed => fm.token \in 1..drawn'
    BY <1>2, <1>5, <2>1 DEF FormSound
  <2>3. QED
    BY <1>1, <1>2, <1>4, <2>2 DEF FormSound

\* The form on one page changes, and keys are added or not.
LEMMA KeysWithForm ==
    ASSUME X!ConstantsOK, KeysInv, NEW e \in Editors, NEW row \in X!Form(family) \cup {None},
           form' = [form EXCEPT ![e] = row], drawn' \in 0..MaxTokens, drawn <= drawn',
           NEW K2, used' = used \cup K2,
           \A k \in K2 : form[e] # None /\ k = X!Key(form[e].verb, form[e].token),
           row # None => /\ FormSound(row, drawn', used')
                         /\ ~row.verb.fixed =>
                               \/ row.token > drawn
                               \/ form[e] # None /\ ~form[e].verb.fixed /\ row.token = form[e].token,
           X!TypeOK', X!ClicksAreCarriedOut',
           family' = family, standing' \in X!Statuses(family),
           family \notin X!Returning => Progress(standing) <= Progress(standing'),
           family \notin X!Returning =>
               \A v \in X!Verbs[family] : v.fixed /\ <<v.name, 0>> \in K2 => Progress(v.to) <= Progress(standing')
    PROVE  KeysInv'
<1>1. X!TypeOK
  BY DEF KeysInv
<1>2. form'[e] = row /\ \A e2 \in Editors \ {e} : form'[e2] = form[e2]
  BY <1>1 DEF X!TypeOK
<1>3. \A e2 \in Editors : form'[e2] # None => FormSound(form'[e2], drawn', used')
  <2>1. SUFFICES ASSUME NEW e2 \in Editors, form'[e2] # None PROVE FormSound(form'[e2], drawn', used')
    OBVIOUS
  <2>2. CASE e2 = e
    BY <1>2, <2>1, <2>2
  <2>3. CASE e2 # e
    BY <2>1, <2>3, OtherForms
  <2>4. QED
    BY <2>2, <2>3
<1>4. \A e2 \in Editors \ {e} :
          row # None /\ form[e2] # None /\ ~row.verb.fixed /\ ~form[e2].verb.fixed
          => row.token # form[e2].token
  <2>1. SUFFICES ASSUME NEW e2 \in Editors \ {e}, row # None, form[e2] # None,
                        ~row.verb.fixed, ~form[e2].verb.fixed
                 PROVE  row.token # form[e2].token
    OBVIOUS
  <2>2. row \in X!Form(family) /\ drawn \in Nat
    BY <1>1, <2>1 DEF X!TypeOK
  <2>4. row.token \in Nat
    BY <2>2 DEF X!Form
  <2>5. form[e2].token \in 1..drawn
    BY <2>1 DEF KeysInv, FormSound
  <2>6. QED
    BY <2>1, <2>2, <2>4, <2>5 DEF KeysInv
<1>5. \A e1, e2 \in Editors :
          /\ e1 # e2 /\ form'[e1] # None /\ form'[e2] # None
          /\ ~form'[e1].verb.fixed
          /\ ~form'[e2].verb.fixed
          => form'[e1].token # form'[e2].token
  <2>1. SUFFICES ASSUME NEW e1 \in Editors, NEW e2 \in Editors,
                        e1 # e2, form'[e1] # None, form'[e2] # None,
                        ~form'[e1].verb.fixed, ~form'[e2].verb.fixed
                 PROVE  form'[e1].token # form'[e2].token
    OBVIOUS
  <2>2. CASE e1 = e
    BY <1>2, <1>4, <2>1, <2>2
  <2>3. CASE e2 = e
    BY <1>2, <1>4, <2>1, <2>3
  <2>4. CASE e1 # e /\ e2 # e
    BY <1>2, <2>1, <2>4 DEF KeysInv
  <2>5. QED
    BY <2>2, <2>3, <2>4
<1>6. \A t \in X!Tokens : <<"token", t>> \in used' => t <= drawn'
  <2>1. SUFFICES ASSUME NEW t \in X!Tokens, <<"token", t>> \in K2 PROVE t <= drawn'
    BY <1>1 DEF KeysInv, X!TypeOK, X!Tokens
  <2>2. form[e] # None /\ <<"token", t>> = X!Key(form[e].verb, form[e].token)
    BY <2>1
  <2>3. ~form[e].verb.fixed /\ t = form[e].token
    BY <2>2 DEF X!Key, X!Tokens
  <2>4. t \in 1..drawn /\ drawn \in Nat /\ drawn' \in Nat
    BY <1>1, <2>2, <2>3 DEF KeysInv, FormSound, X!TypeOK
  <2>5. QED
    BY <2>4
<1>7. family \notin X!Returning =>
          \A v \in X!Verbs[family] :
              v.fixed /\ <<v.name, 0>> \in used' => Progress(v.to) <= Progress(standing')
  <2>1. SUFFICES ASSUME family \notin X!Returning, NEW v \in X!Verbs[family], v.fixed, <<v.name, 0>> \in used
                 PROVE  Progress(v.to) <= Progress(standing')
    OBVIOUS
  <2>2. Progress(v.to) <= Progress(standing)
    BY <2>1 DEF KeysInv
  <2>3. Progress(v.to) \in Nat /\ Progress(standing) \in Nat /\ Progress(standing') \in Nat
    BY DEF Progress
  <2>4. QED
    BY <2>1, <2>2, <2>3
<1>8. QED
  BY <1>3, <1>5, <1>6, <1>7 DEF KeysInv, X!Tokens

\* The form on one page changes, and nothing else but what is drawn.
LEMMA KeysWithFormOnly ==
    ASSUME X!ConstantsOK, KeysInv, NEW e \in Editors, NEW row \in X!Form(family) \cup {None},
           form' = [form EXCEPT ![e] = row], drawn' \in 0..MaxTokens, drawn <= drawn',
           UNCHANGED <<family, standing, used, hollow>>,
           row # None => /\ FormSound(row, drawn', used')
                         /\ ~row.verb.fixed =>
                               \/ row.token > drawn
                               \/ form[e] # None /\ ~form[e].verb.fixed /\ row.token = form[e].token
    PROVE  KeysInv'
<1>1. X!TypeOK' /\ X!ClicksAreCarriedOut'
  BY DEF KeysInv, X!TypeOK, X!ClicksAreCarriedOut
<1>2. standing' \in X!Statuses(family)
  BY DEF KeysInv, X!TypeOK
<1>3. Progress(standing) <= Progress(standing')
  <2>1. Progress(standing') = Progress(standing) /\ Progress(standing) \in Nat
    BY DEF Progress
  <2>2. QED
    BY <2>1
<1> DEFINE K2 == {}
<1>4. /\ used' = used \cup K2
      /\ \A k \in K2 : form[e] # None /\ k = X!Key(form[e].verb, form[e].token)
      /\ \A v \in X!Verbs[family] : v.fixed /\ <<v.name, 0>> \in K2 => Progress(v.to) <= Progress(standing')
  OBVIOUS
<1> HIDE DEF K2
<1>5. QED
  BY <1>1, <1>2, <1>3, <1>4, KeysWithForm

\* The form after an answer.
LEMMA AnsweredFields ==
    ASSUME NEW fm \in X!Form(family), drawn \in 0..MaxTokens, MaxTokens \in Nat,
           NEW ok \in BOOLEAN, NEW runs \in BOOLEAN,
           fm.clicks > 0, runs => fm.runs <= 1,
           NEW next, next = X!Answered(fm, ok, runs)
    PROVE  /\ next.verb = fm.verb
           /\ next.token = IF ok /\ fm.clicks = 1 /\ fm.token # 0 THEN drawn + 1 ELSE fm.token
           /\ next.clicks = fm.clicks - 1
           /\ next.again <=> fm.clicks = 2
           /\ next.runs = IF runs THEN fm.runs + 1 ELSE fm.runs
           /\ next.token <= MaxTokens => next \in X!Form(family)
<1>1. /\ fm.verb \in X!Verbs[family] /\ fm.token \in 0..MaxTokens /\ fm.clicks \in 0..2
      /\ fm.again \in BOOLEAN /\ fm.runs \in 0..2
  BY DEF X!Form
<1> DEFINE again == fm.clicks = 2
           token == IF ok /\ fm.clicks = 1 /\ fm.token # 0 THEN drawn + 1 ELSE fm.token
           count == IF runs THEN fm.runs + 1 ELSE fm.runs
<1>2. next = [fm EXCEPT !.clicks = fm.clicks - 1, !.again = again, !.token = token, !.runs = count]
  BY DEF X!Answered
<1>3. again \in BOOLEAN /\ token \in Nat /\ count \in 0..2 /\ fm.clicks - 1 \in 0..2
  BY <1>1
<1>4. /\ next.verb = fm.verb /\ next.token = token /\ next.clicks = fm.clicks - 1
      /\ next.runs = count
  BY <1>2 DEF X!Form
<1>5. next.again <=> fm.clicks = 2
  <2>1. next.again = again
    <3> HIDE DEF again, token, count
    <3>1. QED
      BY <1>2 DEF X!Form
  <2>2. QED
    BY <2>1
<1>6. token <= MaxTokens => next \in X!Form(family)
  <2> SUFFICES ASSUME token <= MaxTokens PROVE next \in X!Form(family)
    OBVIOUS
  <2>1. token \in 0..MaxTokens
    BY <1>3
  <2> HIDE DEF again, token, count
  <2>2. QED
    BY <1>1, <1>2, <1>3, <2>1 DEF X!Form
<1>7. QED
  BY <1>4, <1>5, <1>6

LEMMA KeysStep == ASSUME X!ConstantsOK, KeysInv, [X!Next]_X!vars PROVE KeysInv'
<1>0. X!TypeOK /\ X!ClicksAreCarriedOut /\ None \notin X!Form(family) /\ drawn \in 0..MaxTokens /\ MaxTokens \in Nat
  BY DEF KeysInv, X!ConstantsOK, X!TypeOK
<1>t. \A s1, s2 : s1 = s2 => Progress(s1) <= Progress(s2)
  BY DEF Progress
<1>1. ASSUME NEW e \in Editors, NEW v \in X!Verbs[family], X!Open(e, v) PROVE KeysInv'
  <2> DEFINE n == IF v.fixed THEN 0 ELSE drawn + 1
             fm == [verb |-> v, token |-> n, clicks |-> 0, again |-> FALSE, runs |-> 0]
  <2>1. /\ form[e] = None /\ form' = [form EXCEPT ![e] = fm]
        /\ drawn' = IF v.fixed THEN drawn ELSE drawn + 1
        /\ UNCHANGED <<family, standing, used, hollow>>
        /\ v.fixed \/ drawn < MaxTokens
    BY <1>1 DEF X!Open
  <2>2. /\ n \in 0..MaxTokens /\ drawn' \in 0..MaxTokens /\ drawn <= drawn'
        /\ ~v.fixed => n \in 1..drawn' /\ n > drawn
        /\ v.fixed => n = 0
    BY <1>0, <2>1
  <2>3. fm \in X!Form(family)
    BY <2>2 DEF X!Form
  <2>4. ~v.fixed => <<"token", n>> \notin used
    <3>1. SUFFICES ASSUME ~v.fixed, <<"token", n>> \in used PROVE FALSE
      OBVIOUS
    <3>2. n \in X!Tokens
      BY <1>0, <2>1, <3>1 DEF X!Tokens
    <3>3. n <= drawn
      BY <3>1, <3>2 DEF KeysInv
    <3>4. QED
      BY <1>0, <3>1, <3>3
  <2>5. FormSound(fm, drawn', used')
    BY <2>1, <2>2, <2>4 DEF FormSound
  <2>7. fm \in X!Form(family) \cup {None}
    BY <2>3
  <2>8. ~fm.verb.fixed => fm.token > drawn
    BY <2>2, <1>0, <2>1
  <2> HIDE DEF fm
  <2>9. QED
    BY <2>1, <2>2, <2>5, <2>7, <2>8, KeysWithFormOnly
<1>2. ASSUME NEW e \in Editors, X!Click(e) PROVE KeysInv'
  <2> DEFINE fm == [form[e] EXCEPT !.clicks = @ + 1, !.runs = IF form[e].clicks = 0 THEN 0 ELSE @]
  <2>1. /\ form[e] # None /\ form[e].clicks < 2 /\ ~form[e].again
        /\ form' = [form EXCEPT ![e] = fm]
        /\ UNCHANGED <<family, standing, used, drawn, hollow>>
    BY <1>2 DEF X!Click
  <2>0. form[e] \in X!Form(family) /\ FormSound(form[e], drawn, used) /\ form[e].clicks \in 0..1
    BY <1>0, <2>1, FormFields DEF KeysInv
  <2>2. fm \in X!Form(family)
    <3> DEFINE c == form[e].clicks + 1
               r == IF form[e].clicks = 0 THEN 0 ELSE form[e].runs
    <3>1. fm = [form[e] EXCEPT !.clicks = c, !.runs = r]
      OBVIOUS
    <3>2. c \in 0..2 /\ r \in 0..2
      BY <2>0 DEF X!Form
    <3> HIDE DEF fm, c, r
    <3>3. QED
      BY <2>0, <3>1, <3>2 DEF X!Form
  <2>3. /\ fm.verb = form[e].verb /\ fm.token = form[e].token
        /\ fm.clicks = form[e].clicks + 1 /\ fm.again = form[e].again
        /\ fm.runs = 0
    BY <2>0, <2>1 DEF X!Form, FormSound
  <2>4. FormSound(fm, drawn', used')
    BY <1>0, <2>1, <2>3 DEF KeysInv, FormSound
  <2>6. drawn <= drawn' /\ drawn' \in 0..MaxTokens
    BY <1>0, <2>1 DEF X!TypeOK
  <2>7. ~fm.verb.fixed => ~form[e].verb.fixed /\ fm.token = form[e].token
    BY <2>3
  <2> HIDE DEF fm
  <2>8. QED
    BY <2>1, <2>2, <2>4, <2>6, <2>7, KeysWithFormOnly
<1>4. ASSUME NEW e \in Editors, X!Close(e) PROVE KeysInv'
  <2>1. form' = [form EXCEPT ![e] = None] /\ UNCHANGED <<family, standing, used, drawn, hollow>>
    BY <1>4 DEF X!Close
  <2>3. drawn <= drawn' /\ drawn' \in 0..MaxTokens
    BY <1>0, <2>1 DEF X!TypeOK
  <2>4. QED
    BY <2>1, <2>3, KeysWithFormOnly
<1>5. ASSUME NEW k \in used, X!Sweep(k) PROVE KeysInv'
  <2>1. /\ used' = used \ {k} /\ UNCHANGED <<family, standing, form, drawn, hollow>>
        /\ \A e \in Editors : form[e] # None => form[e].clicks = 0 \/ X!Key(form[e].verb, form[e].token) # k
    BY <1>5 DEF X!Sweep
  <2>2. X!TypeOK' /\ X!ClicksAreCarriedOut'
    BY <1>0, <2>1 DEF X!TypeOK, X!ClicksAreCarriedOut
  <2>3. ASSUME NEW e \in Editors, form[e] # None PROVE FormSound(form[e], drawn', used')
    BY <1>0, <2>1, <2>3, FormFields DEF KeysInv, FormSound
  <2>4. QED
    BY <2>1, <2>2, <2>3 DEF KeysInv, X!Tokens
<1>6. CASE UNCHANGED X!vars
  BY <1>6, SMTT(30) DEF X!vars, KeysInv, FormSound, X!TypeOK, X!ClicksAreCarriedOut, X!Tokens
<1>3. ASSUME NEW e \in Editors, NEW stays \in BOOLEAN, X!Serve(e, stays) PROVE KeysInv'
  <2> DEFINE fm == form[e]
             v == fm.verb
             k == X!Key(v, fm.token)
             replayed == k \in used
             runs == ~replayed /\ standing \in v.from
             next == X!Answered(fm, replayed \/ runs, runs)
             row == IF stays THEN next ELSE None
             K2 == IF runs THEN {k} ELSE {}
  <2>1. /\ fm # None /\ fm.clicks > 0
        /\ standing' = IF runs THEN v.to ELSE standing
        /\ used' = IF runs THEN used \cup {k} ELSE used
        /\ hollow' = IF /\ replayed /\ ~fm.again
                        /\ v.fixed => standing \in v.from \ {v.to}
                     THEN hollow \cup {v} ELSE hollow
        /\ stays => next.token <= MaxTokens
        /\ drawn' = IF stays /\ next.token > drawn THEN next.token ELSE drawn
        /\ form' = [form EXCEPT ![e] = row]
        /\ family' = family
    BY <1>3 DEF X!Serve
  <2>2. /\ fm \in X!Form(family) /\ v \in X!Verbs[family] /\ fm.token \in 0..MaxTokens
        /\ fm.clicks \in 1..2 /\ fm.runs \in 0..2
        /\ FormSound(fm, drawn, used)
    BY <1>0, <2>1, FormFields DEF KeysInv
  <2>3. v.fixed => fm.token = 0 /\ k = <<v.name, 0>>
    BY <2>2 DEF FormSound, X!Key
  <2>4. ~v.fixed => fm.token \in X!Tokens /\ fm.token \in 1..drawn /\ k = <<"token", fm.token>>
    BY <1>0, <2>2 DEF FormSound, X!Key, X!Tokens
  <2>5. runs => fm.runs = 0
    BY <2>1, <2>2 DEF FormSound
  <2>6. /\ next.verb = v
        /\ next.token = IF (replayed \/ runs) /\ fm.clicks = 1 /\ fm.token # 0 THEN drawn + 1 ELSE fm.token
        /\ next.clicks = fm.clicks - 1
        /\ next.again <=> fm.clicks = 2
        /\ next.runs = IF runs THEN fm.runs + 1 ELSE fm.runs
        /\ next.token <= MaxTokens => next \in X!Form(family)
    <3>1. replayed \in BOOLEAN /\ runs \in BOOLEAN /\ (replayed \/ runs) \in BOOLEAN /\ (runs => fm.runs <= 1)
      BY <2>5
    <3> HIDE DEF fm, replayed, runs
    <3>2. QED
      BY <1>0, <2>1, <2>2, <3>1, AnsweredFields
  <2>7. runs /\ family \notin X!Returning => Progress(standing) <= Progress(v.to)
    BY <1>0, <2>2, FamiliesSound DEF X!TypeOK, VerbsAdvance
  <2>8. used' = used \cup K2 /\ (\A k2 \in K2 : form[e] # None /\ k2 = X!Key(form[e].verb, form[e].token))
    BY <2>1
  <2>9. k \in {X!Key(v2, t2) : v2 \in X!Verbs[family], t2 \in X!Tokens}
    <3>1. fm.token \in Nat
      BY <2>2
    <3>2. QED
      BY <2>2, <2>3, <2>4, <3>1, KeyAdded
  <2>10. standing' \in X!Statuses(family)
    BY <1>0, <2>1, <2>2, SMTT(30) DEF X!TypeOK, X!Statuses
  <2>11. drawn' \in 0..MaxTokens /\ drawn <= drawn' /\ (stays => next.token <= drawn')
    BY <1>0, <2>1, <2>2, <2>3, <2>4, <2>6
  <2>12. stays => FormSound(next, drawn', used')
    <3>1. SUFFICES ASSUME stays PROVE FormSound(next, drawn', used')
      OBVIOUS
    <3>2. v.fixed => next.token = 0
      BY <2>3, <2>6
    <3>3. ~v.fixed => next.token \in 1..drawn'
      BY <1>0, <2>4, <2>6, <2>11, <3>1
    <3>4. next.runs <= 1 /\ (next.again => next.clicks = 1)
      BY <2>2, <2>5, <2>6 DEF FormSound
    <3>5. next.clicks > 0 => next.again /\ next.token = fm.token
      BY <2>2, <2>6, SMTT(30)
    <3>6. next.clicks > 0 /\ next.runs = 1 => X!Key(next.verb, next.token) \in used'
      BY <2>1, <2>2, <2>6, <3>5 DEF FormSound
    <3>7. ~v.fixed /\ ~next.again => <<"token", next.token>> \notin used'
      <4>1. SUFFICES ASSUME ~v.fixed, ~next.again PROVE <<"token", next.token>> \notin used'
        OBVIOUS
      <4>2. fm.clicks = 1 /\ fm.token # 0
        BY <2>2, <2>4, <2>6, <4>1
      <4>3. CASE replayed \/ runs
        <5>1. next.token = drawn + 1 /\ next.token \in X!Tokens /\ fm.token <= drawn
          BY <1>0, <2>1, <2>4, <2>6, <3>1, <4>1, <4>2, <4>3 DEF X!Tokens
        <5>2. <<"token", next.token>> \notin used
          BY <1>0, <5>1 DEF KeysInv
        <5>3. <<"token", next.token>> # k
          BY <1>0, <2>4, <4>1, <5>1
        <5>4. QED
          BY <2>1, <5>2, <5>3, SMTT(30)
      <4>4. CASE ~replayed /\ ~runs
        BY <2>1, <2>4, <2>6, <4>1, <4>4
      <4>5. QED
        BY <4>3, <4>4
    <3>8. QED
      BY <2>6, <3>2, <3>3, <3>4, <3>5, <3>6, <3>7 DEF FormSound
  <2>13. stays => (~next.verb.fixed => \/ next.token > drawn
                                       \/ form[e] # None /\ ~form[e].verb.fixed /\ next.token = form[e].token)
    BY <1>0, <2>1, <2>6
  <2>14. X!ClicksAreCarriedOut'
    <3>1. SUFFICES ASSUME replayed, ~fm.again, v.fixed => standing \in v.from \ {v.to}
                   PROVE  v.fixed /\ family \in X!Returning
      BY <1>0, <2>1 DEF X!ClicksAreCarriedOut
    <3>2. v.fixed
      BY <2>2, <2>4, <3>1 DEF FormSound
    <3>3. CASE family \notin X!Returning
      <4>1. Progress(v.to) <= Progress(standing)
        BY <2>2, <2>3, <3>1, <3>2, <3>3 DEF KeysInv
      <4>2. Progress(standing) < Progress(v.to)
        BY <1>0, <2>2, <3>1, <3>2, <3>3, FamiliesSound DEF X!TypeOK, VerbsAdvance
      <4>3. Progress(v.to) \in Nat /\ Progress(standing) \in Nat
        BY DEF Progress
      <4>4. QED
        BY <4>1, <4>2, <4>3
    <3>4. QED
      BY <3>2, <3>3
  <2>15. row \in X!Form(family) \cup {None} /\ (row # None => stays /\ row = next)
    BY <2>1, <2>6, SMTT(30)
  <2>16. X!TypeOK'
    <3>1. used' \subseteq {X!Key(v2, t2) : v2 \in X!Verbs[family], t2 \in X!Tokens}
      BY <1>0, <2>1, <2>9 DEF X!TypeOK
    <3>2. hollow' \subseteq X!Verbs[family]
      BY <1>0, <2>1, <2>2 DEF X!TypeOK
    <3>3. form' \in [Editors -> X!Form(family) \cup {None}]
      BY <1>0, <2>1, <2>15 DEF X!TypeOK
    <3>4. QED
      BY <1>0, <2>1, <2>10, <2>11, <3>1, <3>2, <3>3 DEF X!TypeOK, X!Tokens
  <2>17. family \notin X!Returning => Progress(standing) <= Progress(standing')
    BY <1>t, <2>1, <2>7
  <2>18. \A v2 \in X!Verbs[family] : v2.fixed /\ <<v2.name, 0>> \in K2 => Progress(v2.to) <= Progress(standing')
    <3>1. SUFFICES ASSUME NEW v2 \in X!Verbs[family], v2.fixed, runs, <<v2.name, 0>> = k
                   PROVE  Progress(v2.to) <= Progress(standing')
      OBVIOUS
    <3>2. v.fixed
      BY <2>4, <3>1
    <3>3. v2.name = v.name
      BY <2>3, <3>1, <3>2
    <3>4. v2.to = v.to
      BY <1>0, <2>2, <3>1, <3>2, <3>3, FamiliesSound DEF X!TypeOK, VerbsNamed
    <3>5. QED
      BY <1>t, <2>1, <3>1, <3>4
  <2>19. row # None => /\ FormSound(row, drawn', used')
                       /\ ~row.verb.fixed =>
                             \/ row.token > drawn
                             \/ form[e] # None /\ ~form[e].verb.fixed /\ row.token = form[e].token
    BY <2>12, <2>13, <2>15
  <2> HIDE DEF row, K2
  <2>20. QED
    BY <2>1, <2>8, <2>10, <2>11, <2>14, <2>15, <2>16, <2>17, <2>18, <2>19, KeysWithForm
<1>7. QED
  BY <1>1, <1>2, <1>3, <1>4, <1>5, <1>6 DEF X!Next

LEMMA KeysInvariance == ASSUME X!ConstantsOK PROVE X!Spec => []KeysInv
  BY KeysInit, KeysStep, PTL DEF X!Spec

-----------------------------------------------------------------------------
(* Benchmarks: no workspace sees a thin cohort *)

\* A job counts every workspace once, and a row that is written has enough.
BenchmarksInv ==
    /\ B!TypeOK
    /\ \A j \in Editors : job[j] # B!Idle => job[j].count = Cardinality(job[j].of)
    /\ \A d \in B!Days :
          cohort[d] # None => /\ cohort[d].count >= MinCohort
                              /\ cohort[d].count = Cardinality(cohort[d].of)

LEMMA BenchmarksCardinality ==
    /\ \A I : B!Cardinality(I) = Cardinality(I)
    /\ \A I : B!IsFiniteSet(I) <=> IsFiniteSet(I)
  BY DEF B!Cardinality, Cardinality, B!IsFiniteSet, IsFiniteSet

LEMMA BenchmarksInit == ASSUME B!ConstantsOK, B!Init PROVE BenchmarksInv
  BY DEF B!ConstantsOK, B!Init, BenchmarksInv, B!TypeOK, B!Idle, B!Job, B!Days

\* The newest snapshots are as many as the workspaces they are of.
LEMMA LatestCount ==
    ASSUME B!ConstantsOK, NEW S2 \in SUBSET Two
    PROVE  LET of == {v[1] : v \in B!Latest(S2)}
           IN  /\ of \subseteq Two
               /\ Cardinality(B!Latest(S2)) = Cardinality(of)
               /\ Cardinality(of) \in Nat
<1> DEFINE values == B!Latest(S2)
           of == {v[1] : v \in values}
           f == [t \in of |-> <<t, B!Last(B!Captured(t))>>]
<1>1. \A v \in values : v = <<v[1], v[2]>> /\ v[1] \in S2 /\ v[2] = B!Last(B!Captured(v[1]))
  BY DEF B!Latest
<1>2. of \subseteq Two
  BY <1>1
<1>3. IsFiniteSet(of)
  BY <1>2, FS_Subset, BenchmarksCardinality DEF B!ConstantsOK
<1>4. \A v \in values : f[v[1]] = v
  BY <1>1
<1>5. f \in Bijection(of, values)
  <2>1. f \in [of -> values]
    BY <1>4
  <2>2. \A t, u \in of : f[t] = f[u] => t = u
    OBVIOUS
  <2>3. \A v \in values : \E t \in of : f[t] = v
    BY <1>4
  <2> HIDE DEF f, of, values
  <2>4. QED
    BY <2>1, <2>2, <2>3 DEF Bijection, Injection, Surjection, IsInjective
<1>6. Cardinality(values) = Cardinality(of)
  <2> HIDE DEF f, of, values
  <2>1. QED
    BY <1>3, <1>5, FS_Bijection DEF ExistsBijection
<1>7. QED
  BY <1>2, <1>3, <1>6, FS_CardinalityType

LEMMA BenchmarksStep == ASSUME B!ConstantsOK, BenchmarksInv, [B!Next]_B!vars PROVE BenchmarksInv'
<1>0. B!TypeOK /\ MaxCapture \in Nat \ {0} /\ MinCohort \in Nat /\ day \in B!Days /\ None \notin B!Row
  BY DEF BenchmarksInv, B!TypeOK, B!ConstantsOK
<1>1. CASE \/ \E t \in Two :
                \/ B!SetParticipation(t)
                \/ \E what \in B!Snapshot : B!Capture(t, what)
                \/ \E d \in B!Days : B!Expire(t, d)
           \/ B!Tick
           \/ UNCHANGED B!vars
  <2>1. UNCHANGED <<cohort, job>>
    BY <1>1 DEF B!SetParticipation, B!Capture, B!Expire, B!Tick, B!vars
  <2>2. opted' \subseteq Two
    BY <1>0, <1>1 DEF B!SetParticipation, B!Capture, B!Expire, B!Tick, B!vars, B!TypeOK
  <2>3. day' \in B!Days
    BY <1>0, <1>1 DEF B!SetParticipation, B!Capture, B!Expire, B!Tick, B!vars, B!Days
  <2>4. snapshot' \in [Two -> [B!Days -> B!Snapshot \cup {None}]]
    BY <1>0, <1>1 DEF B!SetParticipation, B!Capture, B!Expire, B!Tick, B!vars, B!TypeOK
  <2>5. QED
    BY <1>0, <2>1, <2>2, <2>3, <2>4 DEF BenchmarksInv, B!TypeOK, B!Days
<1>2. ASSUME NEW j \in Editors, B!Read(j) PROVE BenchmarksInv'
  <2> DEFINE values == B!Latest(opted)
             of == {v[1] : v \in values}
             row == [kind |-> "aggregate", day |-> day, count |-> Cardinality(values), of |-> of]
  <2>1. job' = [job EXCEPT ![j] = row] /\ UNCHANGED <<opted, snapshot, cohort, day>>
    BY <1>2, BenchmarksCardinality DEF B!Read
  <2>2. of \subseteq Two /\ Cardinality(values) = Cardinality(of) /\ Cardinality(of) \in Nat
    BY <1>0, LatestCount DEF B!TypeOK
  <2> HIDE DEF values, of
  <2>3. row \in B!Job /\ row.count = Cardinality(row.of)
    BY <1>0, <2>2 DEF B!Job
  <2> HIDE DEF row
  <2>4. QED
    BY <1>0, <2>1, <2>3 DEF BenchmarksInv, B!TypeOK, B!Days
<1>3. ASSUME NEW j \in Editors, B!Write(j) PROVE BenchmarksInv'
  <2> DEFINE row == [count |-> job[j].count, of |-> job[j].of]
  <2>1. job[j] # B!Idle /\ job' = [job EXCEPT ![j] = B!Idle] /\ UNCHANGED <<opted, snapshot, day>>
        /\ cohort' = IF job[j].count < MinCohort THEN cohort ELSE [cohort EXCEPT ![job[j].day] = row]
    BY <1>3 DEF B!Write
  <2>2. /\ job[j].count = Cardinality(job[j].of) /\ job[j].count \in Nat
        /\ job[j].of \subseteq Two /\ job[j].day \in B!Days
    BY <1>0, <2>1 DEF BenchmarksInv, B!TypeOK, B!Job
  <2>3. row \in B!Row /\ row.count = Cardinality(row.of) /\ row.count = job[j].count
    BY <2>2 DEF B!Row
  <2> HIDE DEF row
  <2>4. cohort' \in [B!Days -> B!Row \cup {None}]
    BY <1>0, <2>1, <2>2, <2>3 DEF B!TypeOK
  <2>5. ASSUME NEW d \in B!Days, cohort'[d] # None
        PROVE  cohort'[d].count >= MinCohort /\ cohort'[d].count = Cardinality(cohort'[d].of)
    <3>1. CASE cohort'[d] = cohort[d]
      BY <2>5, <3>1 DEF BenchmarksInv
    <3>2. CASE cohort'[d] # cohort[d]
      <4>1. cohort'[d] = row /\ ~(job[j].count < MinCohort)
        BY <1>0, <2>1, <3>2 DEF B!TypeOK
      <4>2. QED
        <5>1. row.count >= MinCohort
          BY <1>0, <2>2, <2>3, <4>1
        <5>2. QED
          BY <2>3, <4>1, <5>1
    <3>3. QED
      BY <3>1, <3>2
  <2>6. job' \in [Editors -> B!Job]
    BY <1>0, <2>1 DEF B!TypeOK, B!Job
  <2>7. \A j2 \in Editors : job'[j2] # B!Idle => job'[j2].count = Cardinality(job'[j2].of)
    BY <1>0, <2>1 DEF BenchmarksInv, B!TypeOK
  <2>8. B!TypeOK'
    BY <1>0, <2>1, <2>4, <2>6 DEF B!TypeOK, B!Days
  <2>9. QED
    BY <2>5, <2>7, <2>8 DEF BenchmarksInv, B!Days
<1>4. ASSUME NEW j \in Editors, B!Fail(j) PROVE BenchmarksInv'
  <2>1. job' = [job EXCEPT ![j] = B!Idle] /\ UNCHANGED <<opted, snapshot, cohort, day>>
    BY <1>4 DEF B!Fail
  <2>2. job' \in [Editors -> B!Job]
    BY <1>0, <2>1 DEF B!TypeOK, B!Job
  <2>3. \A j2 \in Editors : job'[j2] # B!Idle => job'[j2].count = Cardinality(job'[j2].of)
    BY <1>0, <2>1 DEF BenchmarksInv, B!TypeOK
  <2>4. B!TypeOK'
    BY <1>0, <2>1, <2>2 DEF B!TypeOK, B!Days
  <2>5. QED
    BY <2>1, <2>3, <2>4 DEF BenchmarksInv, B!Days
<1>5. QED
  BY <1>1, <1>2, <1>3, <1>4 DEF B!Next

\* The row that a workspace sees is one that was written: there is a newest day.
LEMMA BenchmarksShown == ASSUME B!ConstantsOK PROVE BenchmarksInv => B!NeverThin
<1> SUFFICES ASSUME BenchmarksInv, NEW t \in Two, B!Seen(t) # None
             PROVE  /\ Cardinality(B!Seen(t).of) >= MinCohort
                    /\ B!Seen(t).count = Cardinality(B!Seen(t).of)
  BY BenchmarksCardinality DEF B!NeverThin
<1> DEFINE last == B!Last(B!Written)
<1>1. B!Written # {} /\ B!Seen(t) = cohort[last]
  BY DEF B!Seen
<1>2. B!Written \in SUBSET (0..MaxCapture) /\ MaxCapture \in Nat /\ B!Written \subseteq B!Days
  BY DEF B!Written, B!Days, B!ConstantsOK
<1>3. \E d \in B!Written : \A e \in B!Written : e <= d
  BY <1>1, <1>2, GreatestNat
<1>4. last \in B!Written
  BY <1>3 DEF B!Last
<1>5. QED
  BY <1>1, <1>2, <1>4 DEF BenchmarksInv, B!Written

LEMMA BenchmarksInvariance == ASSUME B!ConstantsOK PROVE B!Spec => []BenchmarksInv
  BY BenchmarksInit, BenchmarksStep, PTL DEF B!Spec

-----------------------------------------------------------------------------
(* Percentiles: every sample is split, and ranks follow values *)

SampleInv == K!TypeOK /\ Ascending(sample)

LEMMA PercentilesCardinality == \A I : K!Cardinality(I) = Cardinality(I)
  BY DEF K!Cardinality, Cardinality

LEMMA RoundBounds ==
    ASSUME NEW n \in Nat, NEW d \in Nat, d > 0
    PROVE  /\ K!Round(n, d) \in Nat
           /\ \A k \in Nat : k * d <= n => k <= K!Round(n, d)
           /\ \A k \in Nat : n <= k * d => K!Round(n, d) <= k
           /\ \A m \in Nat : n <= m => K!Round(n, d) <= K!Round(m, d)
<1> DEFINE e == 2 * d
           q(x) == (2 * x + d) \div e
<1>0. e \in Nat /\ e > 0 /\ \A k \in Nat : k * e = 2 * (k * d) /\ k * d \in Nat
  OBVIOUS
<1>1. ASSUME NEW x \in Nat PROVE q(x) \in Nat /\ q(x) * e <= 2 * x + d /\ 2 * x + d < q(x) * e + e
  <2>1. 2 * x + d \in Nat
    OBVIOUS
  <2> HIDE DEF e
  <2>2. QED
    BY <1>0, <2>1, DivBounds
<1>2. \A x \in Nat : K!Round(x, d) = q(x)
  BY DEF K!Round
<1>a. e = 2 * d
  OBVIOUS
<1>b. ASSUME NEW x \in Nat PROVE q(x) * e \in Nat
  <2> HIDE DEF q, e
  <2> QED BY <1>0, <1>1
<1> HIDE DEF q, e
<1>3. ASSUME NEW k \in Nat, k * d <= n PROVE k <= q(n)
  <2>1. k * e < q(n) * e + e
    BY <1>0, <1>1, <1>3, <1>a, <1>b
  <2>2. q(n) \in Nat
    BY <1>1
  <2>3. QED
    BY <1>0, <2>1, <2>2, MulLess
<1>4. ASSUME NEW k \in Nat, n <= k * d PROVE q(n) <= k
  <2>1. q(n) * e < k * e + e
    BY <1>0, <1>1, <1>4, <1>a, <1>b
  <2>2. q(n) \in Nat
    BY <1>1
  <2>3. QED
    BY <1>0, <2>1, <2>2, MulLess
<1>5. ASSUME NEW m \in Nat, n <= m PROVE q(n) <= q(m)
  <2>1. q(n) * e < q(m) * e + e
    BY <1>0, <1>1, <1>5, <1>a, <1>b
  <2>2. q(n) \in Nat /\ q(m) \in Nat
    BY <1>1
  <2>3. QED
    BY <1>0, <2>1, <2>2, MulLess
<1>6. QED
  BY <1>1, <1>2, <1>3, <1>4, <1>5

\* The two ranks that a percentile lies between, and how far above the lower.
RankOf(n, p) == p * (n - 1)
LowerRank(n, p) == 1 + RankOf(n, p) \div 100
UpperRank(n, p) == 1 + (RankOf(n, p) + 99) \div 100
Beyond(n, p) == RankOf(n, p) % 100

LEMMA Hundreds ==
    ASSUME NEW r \in Nat
    PROVE  /\ r \div 100 \in Nat /\ r % 100 \in 0..99
           /\ r = 100 * (r \div 100) + (r % 100)
           /\ (r + 99) \div 100 = IF r % 100 = 0 THEN r \div 100 ELSE (r \div 100) + 1
<1> DEFINE q == r \div 100
           m == r % 100
           u == (r + 99) \div 100
<1>1. q \in Nat /\ m \in 0..99 /\ r = 100 * q + m
  OBVIOUS
<1>2. u \in Nat /\ u * 100 <= r + 99 /\ r + 99 < u * 100 + 100
  BY DivBounds
<1> HIDE DEF q, m, u
<1>3. u = IF m = 0 THEN q ELSE q + 1
  BY <1>1, <1>2
<1>4. QED
  BY <1>1, <1>3 DEF q, m, u

LEMMA RankFields ==
    ASSUME NEW n \in Nat, n > 0, NEW p \in K!Anchors
    PROVE  /\ RankOf(n, p) \in Nat /\ Beyond(n, p) \in 0..99
           /\ LowerRank(n, p) \in 1..n /\ UpperRank(n, p) \in 1..n
           /\ RankOf(n, p) = 100 * (LowerRank(n, p) - 1) + Beyond(n, p)
           /\ UpperRank(n, p) = IF Beyond(n, p) = 0 THEN LowerRank(n, p) ELSE LowerRank(n, p) + 1
           /\ (100 - p) * (n - 1) = 100 * (n - 1) - RankOf(n, p)
<1> DEFINE r == RankOf(n, p)
           q == r \div 100
           m == r % 100
           u == (r + 99) \div 100
<1>1. r \in Nat /\ r <= 90 * (n - 1) /\ (100 - p) * (n - 1) = 100 * (n - 1) - r
  BY DEF K!Anchors, RankOf
<1> HIDE DEF r
<1>2. q \in Nat /\ m \in 0..99 /\ r = 100 * q + m /\ u = IF m = 0 THEN q ELSE q + 1
  BY <1>1, Hundreds
<1> HIDE DEF q, m, u
<1>3. 1 + q \in 1..n /\ 1 + u \in 1..n
  <2>1. 100 * q + m <= 90 * (n - 1)
    BY <1>1, <1>2
  <2>2. QED
    BY <1>2, <2>1
<1>4. LowerRank(n, p) = 1 + q /\ UpperRank(n, p) = 1 + u /\ Beyond(n, p) = m
  BY DEF LowerRank, UpperRank, Beyond, r, q, m, u
<1> USE <1>1, <1>2, <1>3, <1>4
<1>5. RankOf(n, p) = 100 * (LowerRank(n, p) - 1) + Beyond(n, p)
  BY DEF r
<1>6. UpperRank(n, p) = IF Beyond(n, p) = 0 THEN LowerRank(n, p) ELSE LowerRank(n, p) + 1
  OBVIOUS
<1>7. QED
  BY <1>5, <1>6 DEF r

\* What is rounded, between the two values.
Weighted(s, p) ==
    LET lo == s[LowerRank(Len(s), p)]
        hi == s[UpperRank(Len(s), p)]
    IN  100 * lo + (hi - lo) * Beyond(Len(s), p)

LEMMA WeightBounds ==
    ASSUME NEW lo \in Nat, NEW hi \in Nat, lo <= hi, NEW m \in 0..99
    PROVE  /\ (hi - lo) * m \in Nat
           /\ (hi - lo) * m <= 100 * (hi - lo)
<1> DEFINE d == hi - lo
<1>1. d \in Nat /\ m \in Nat /\ m <= 100
  OBVIOUS
<1> HIDE DEF d
<1>2. m * d <= 100 * d /\ m * d \in Nat
  BY <1>1, MulLeft
<1>3. d * m = m * d
  BY <1>1
<1>4. QED
  BY <1>2, <1>3 DEF d

LEMMA PercentileBetween ==
    ASSUME MaxValue \in Nat, NEW s \in Seq(K!Values), Ascending(s), s # <<>>, NEW p \in K!Anchors
    PROVE  /\ K!Percentile(s, p) = K!Round(Weighted(s, p), 100)
           /\ Weighted(s, p) \in Nat
           /\ K!Percentile(s, p) \in Nat
           /\ s[LowerRank(Len(s), p)] \in Nat /\ s[UpperRank(Len(s), p)] \in Nat
           /\ s[LowerRank(Len(s), p)] <= K!Percentile(s, p)
           /\ K!Percentile(s, p) <= s[UpperRank(Len(s), p)]
<1> DEFINE n == Len(s)
           lo == s[LowerRank(n, p)]
           hi == s[UpperRank(n, p)]
           m == Beyond(n, p)
           num == Weighted(s, p)
<1>1. n \in Nat /\ n > 0 /\ \A i \in 1..n : s[i] \in Nat
  BY DEF K!Values
<1>2. LowerRank(n, p) \in 1..n /\ UpperRank(n, p) \in 1..n /\ m \in 0..99 /\ LowerRank(n, p) <= UpperRank(n, p)
  <2> HIDE DEF n
  <2>1. /\ LowerRank(n, p) \in 1..n /\ UpperRank(n, p) \in 1..n /\ m \in 0..99
        /\ UpperRank(n, p) = IF m = 0 THEN LowerRank(n, p) ELSE LowerRank(n, p) + 1
    BY <1>1, RankFields
  <2>2. LowerRank(n, p) <= UpperRank(n, p)
    BY <1>1, <2>1
  <2>3. QED
    BY <2>1, <2>2
<1>3. lo \in Nat /\ hi \in Nat /\ lo <= hi
  BY <1>1, <1>2 DEF Ascending
<1>4. K!Percentile(s, p) = K!Round(num, 100)
  BY DEF K!Percentile, Weighted, LowerRank, UpperRank, Beyond, RankOf
<1>5. num \in Nat /\ lo * 100 <= num /\ num <= hi * 100
  <2> DEFINE x == (hi - lo) * m
  <2>1. x \in Nat /\ x <= 100 * (hi - lo)
    <3> HIDE DEF hi, lo, m
    <3>1. QED
      BY <1>2, <1>3, WeightBounds
  <2>2. num = 100 * lo + x
    BY DEF Weighted
  <2> HIDE DEF x, lo, hi, num
  <2>3. QED
    BY <1>3, <2>1, <2>2
<1> HIDE DEF num, lo, hi
<1>6. K!Round(num, 100) \in Nat /\ lo <= K!Round(num, 100) /\ K!Round(num, 100) <= hi
  BY <1>3, <1>5, RoundBounds
<1>7. QED
  BY <1>3, <1>4, <1>5, <1>6 DEF num, lo, hi

LEMMA SplitsAll ==
    ASSUME MaxValue \in Nat, SampleInv PROVE K!Splits
<1> SUFFICES ASSUME sample # <<>>, NEW p \in K!Anchors
             PROVE  LET at == K!Percentile(sample, p)
                        below == Cardinality({i \in DOMAIN sample : sample[i] <= at})
                        above == Cardinality({i \in DOMAIN sample : sample[i] >= at})
                    IN  /\ 100 * below > p * (Len(sample) - 1)
                        /\ 100 * above > (100 - p) * (Len(sample) - 1)
  BY PercentilesCardinality DEF K!Splits
<1> DEFINE n == Len(sample)
           rank == p * (n - 1)
           lo == LowerRank(n, p)
           hi == UpperRank(n, p)
           rem == Beyond(n, p)
           at == K!Percentile(sample, p)
           B2 == {i \in DOMAIN sample : sample[i] <= at}
           A2 == {i \in DOMAIN sample : sample[i] >= at}
<1>1. /\ n \in Nat /\ n > 0 /\ DOMAIN sample = 1..n /\ sample \in Seq(K!Values) /\ Ascending(sample)
      /\ \A i \in 1..n : sample[i] \in Nat
  BY DEF SampleInv, K!TypeOK, K!Values
<1>2. at \in Nat /\ sample[lo] <= at /\ at <= sample[hi] /\ sample[lo] \in Nat /\ sample[hi] \in Nat
  BY <1>1, PercentileBetween
<1>3. /\ rank \in Nat /\ lo \in 1..n /\ hi \in 1..n /\ rem \in 0..99
      /\ rank = 100 * (lo - 1) + rem
      /\ hi = IF rem = 0 THEN lo ELSE lo + 1
      /\ (100 - p) * (n - 1) = 100 * (n - 1) - rank
  <2>1. rank = RankOf(n, p)
    BY DEF RankOf
  <2> HIDE DEF n, rank
  <2>2. QED
    BY <1>1, <2>1, RankFields
<1> HIDE DEF lo, hi, rem, at, n
<1>4. 1..lo \subseteq B2
  <2>1. ASSUME NEW i \in 1..lo PROVE i \in 1..n /\ sample[i] <= at
    <3>1. i \in 1..n /\ i <= lo
      BY <1>1, <1>3
    <3>2. sample[i] <= sample[lo]
      BY <1>1, <1>3, <3>1 DEF Ascending, n
    <3>3. QED
      BY <1>1, <1>2, <3>1, <3>2
  <2>2. QED
    BY <1>1, <2>1
<1>5. hi..n \subseteq A2
  <2>1. ASSUME NEW i \in hi..n PROVE i \in 1..n /\ sample[i] >= at
    <3>1. i \in 1..n /\ hi <= i
      BY <1>1, <1>3
    <3>2. sample[hi] <= sample[i]
      BY <1>1, <1>3, <3>1 DEF Ascending, n
    <3>3. QED
      BY <1>1, <1>2, <3>1, <3>2
  <2>2. QED
    BY <1>1, <2>1
<1>6. IsFiniteSet(B2) /\ IsFiniteSet(A2) /\ IsFiniteSet(1..lo) /\ IsFiniteSet(hi..n)
  <2>0. n \in Int /\ 1 \in Int
    BY <1>1
  <2>1. IsFiniteSet(1..n)
    BY <2>0, FS_Interval
  <2>4. B2 \in SUBSET (1..n) /\ A2 \in SUBSET (1..n)
    BY <1>1
  <2>2. 1..lo \in SUBSET (1..n) /\ hi..n \in SUBSET (1..n)
    BY <1>1, <1>4, <1>5
  <2> HIDE DEF A2, B2
  <2>3. QED
    BY <2>1, <2>2, <2>4, FS_Subset
<1>7. Cardinality(1..lo) = lo /\ Cardinality(hi..n) = n - hi + 1
  <2>1. lo \in Int /\ hi \in Int /\ n \in Int /\ 1 <= lo /\ hi <= n
    BY <1>1, <1>3
  <2>2. QED
    BY <2>1, FS_Interval
<1>8. Cardinality(B2) >= lo /\ Cardinality(A2) >= n - hi + 1 /\ Cardinality(B2) \in Nat /\ Cardinality(A2) \in Nat
  <2> HIDE DEF A2, B2
  <2>1. Cardinality(1..lo) <= Cardinality(B2) /\ Cardinality(hi..n) <= Cardinality(A2)
    BY <1>4, <1>5, <1>6, FS_Subset
  <2>2. Cardinality(B2) \in Nat /\ Cardinality(A2) \in Nat
    BY <1>6, FS_CardinalityType
  <2>3. lo \in Int /\ n - hi + 1 \in Int
    BY <1>1, <1>3
  <2>4. QED
    BY <1>7, <2>1, <2>2, <2>3
<1>9. 100 * Cardinality(B2) > rank /\ 100 * Cardinality(A2) > (100 - p) * (n - 1)
  <2> DEFINE b == Cardinality(B2)
             a == Cardinality(A2)
             other == (100 - p) * (n - 1)
  <2>1. b \in Nat /\ a \in Nat /\ b >= lo /\ a >= n - hi + 1 /\ other = 100 * (n - 1) - rank
    BY <1>3, <1>8
  <2> HIDE DEF a, b, rank, other
  <2>2. 100 * b > rank /\ 100 * a > other
    BY <1>1, <1>3, <2>1
  <2>3. QED
    BY <2>2 DEF a, b, other
<1>10. QED
  BY <1>9 DEF n, at

\* A higher percentile of a sample is not lower.
LEMMA PercentileMonotone ==
    ASSUME MaxValue \in Nat, NEW s \in Seq(K!Values), Ascending(s), s # <<>>,
           NEW p \in K!Anchors, NEW p2 \in K!Anchors, p <= p2
    PROVE  K!Percentile(s, p) <= K!Percentile(s, p2)
<1> DEFINE n == Len(s)
           l == LowerRank(n, p)
           l2 == LowerRank(n, p2)
           u == UpperRank(n, p)
           u2 == UpperRank(n, p2)
           m == Beyond(n, p)
           m2 == Beyond(n, p2)
<1>1. n \in Nat /\ n > 0 /\ \A i \in 1..n : s[i] \in Nat
  BY DEF K!Values
<1>2. RankOf(n, p) <= RankOf(n, p2)
  <2> HIDE DEF n
  <2>1. QED
    BY <1>1 DEF RankOf, K!Anchors
<1>3. /\ l \in 1..n /\ u \in 1..n /\ m \in 0..99 /\ RankOf(n, p) = 100 * (l - 1) + m
      /\ u = IF m = 0 THEN l ELSE l + 1
      /\ l2 \in 1..n /\ u2 \in 1..n /\ m2 \in 0..99 /\ RankOf(n, p2) = 100 * (l2 - 1) + m2
      /\ u2 = IF m2 = 0 THEN l2 ELSE l2 + 1
  <2> HIDE DEF n
  <2>1. QED
    BY <1>1, RankFields, ZenonT(40)
<1>4. /\ K!Percentile(s, p) = K!Round(Weighted(s, p), 100) /\ Weighted(s, p) \in Nat
      /\ K!Percentile(s, p2) = K!Round(Weighted(s, p2), 100) /\ Weighted(s, p2) \in Nat
      /\ K!Percentile(s, p) \in Nat /\ K!Percentile(s, p2) \in Nat
      /\ K!Percentile(s, p) <= s[u] /\ s[l2] <= K!Percentile(s, p2)
      /\ s[l] <= K!Percentile(s, p) /\ s[l2] \in Nat /\ s[u] \in Nat /\ s[l] \in Nat /\ s[u2] \in Nat
  BY PercentileBetween
<1>5. Weighted(s, p) = 100 * s[l] + (s[u] - s[l]) * m /\ Weighted(s, p2) = 100 * s[l2] + (s[u2] - s[l2]) * m2
  BY DEF Weighted
<1> HIDE DEF n, l, l2, u, u2, m, m2
<1>6. l < l2 \/ (l = l2 /\ m <= m2)
  BY <1>1, <1>2, <1>3
<1>7. CASE l < l2
  <2>1. u <= l2
    BY <1>1, <1>3, <1>7
  <2>2. s[u] <= s[l2]
    BY <1>3, <2>1 DEF Ascending, n
  <2>3. QED
    BY <1>4, <2>2
<1>8. CASE l = l2 /\ m <= m2
  <2>1. CASE m = 0
    <3>1. u = l2
      BY <1>3, <1>8, <2>1
    <3>2. QED
      BY <1>4, <3>1
  <2>2. CASE m # 0
    <3>1. u = u2 /\ u = l + 1
      BY <1>3, <1>8, <2>2
    <3>2. s[l] <= s[u]
      BY <1>1, <1>3, <3>1 DEF Ascending, n
    <3> DEFINE d == s[u] - s[l]
    <3>3. d \in Nat /\ m \in Nat /\ m2 \in Nat
      BY <1>3, <1>4, <3>2, SMTT(30)
    <3>a. Weighted(s, p) = 100 * s[l] + d * m /\ Weighted(s, p2) = 100 * s[l] + d * m2
      BY <1>5, <1>8, <3>1
    <3> HIDE DEF d
    <3>4. m * d <= m2 * d /\ m * d \in Nat /\ m2 * d \in Nat
      BY <1>8, <3>3, MulLeft
    <3>5. d * m = m * d /\ d * m2 = m2 * d
      BY <3>3
    <3>6. Weighted(s, p) <= Weighted(s, p2)
      BY <1>4, <3>a, <3>4, <3>5, SMTT(30)
    <3>7. QED
      BY <1>4, <3>6, RoundBounds
  <2>3. QED
    BY <2>1, <2>2
<1>9. QED
  BY <1>6, <1>7, <1>8

\* Where a value between two anchors stands.
LEMMA BetweenBounds ==
    ASSUME NEW p \in Nat, NEW q \in Nat, p <= q, NEW lo \in Nat, NEW hi \in Nat, lo < hi,
           NEW v \in Nat, lo <= v, v <= hi
    PROVE  /\ K!Round(p * (hi - lo) + (q - p) * (v - lo), hi - lo) \in p..q
           /\ v = hi => K!Round(p * (hi - lo) + (q - p) * (v - lo), hi - lo) = q
           /\ \A w \in lo..v :
                K!Round(p * (hi - lo) + (q - p) * (w - lo), hi - lo)
                    <= K!Round(p * (hi - lo) + (q - p) * (v - lo), hi - lo)
<1> DEFINE d == hi - lo
           c == q - p
           num(w) == p * d + c * (w - lo)
<1>1. d \in Nat /\ d > 0 /\ c \in Nat /\ q = p + c
  OBVIOUS
<1>2. ASSUME NEW w \in lo..hi
      PROVE  num(w) \in Nat /\ p * d <= num(w) /\ num(w) <= q * d
  <2> DEFINE x == w - lo
  <2>1. x \in Nat /\ x <= d /\ num(w) = p * d + c * x
    OBVIOUS
  <2> HIDE DEF x, d, c, num
  <2>2. x * c <= d * c /\ x * c \in Nat /\ p * d \in Nat
    BY <1>1, <2>1, MulLeft
  <2>3. c * x = x * c /\ q * d = p * d + d * c
    BY <1>1, <2>1
  <2>4. QED
    BY <1>1, <2>1, <2>2, <2>3
<1>3. num(hi) = q * d
  <2>1. num(hi) = p * d + c * d
    OBVIOUS
  <2> HIDE DEF d, c, num
  <2>2. QED
    BY <1>1, <2>1
<1>4. ASSUME NEW w \in lo..v PROVE num(w) <= num(v)
  <2> DEFINE x == w - lo
             y == v - lo
  <2>1. x \in Nat /\ y \in Nat /\ x <= y /\ num(w) = p * d + c * x /\ num(v) = p * d + c * y
    OBVIOUS
  <2> HIDE DEF x, y, d, c, num
  <2>2. x * c <= y * c /\ x * c \in Nat /\ y * c \in Nat /\ p * d \in Nat
    BY <1>1, <2>1, MulLeft
  <2>3. c * x = x * c /\ c * y = y * c
    BY <1>1, <2>1
  <2>4. QED
    BY <2>1, <2>2, <2>3
<1>5. v \in lo..hi /\ \A w \in lo..v : w \in lo..hi
  OBVIOUS
<1> DEFINE r(w) == K!Round(num(w), d)
<1> HIDE DEF num, d
<1>6. r(v) \in p..q
  BY <1>1, <1>2, <1>5, RoundBounds
<1>7. v = hi => r(v) = q
  BY <1>1, <1>2, <1>3, <1>5, <1>6, RoundBounds
<1>8. \A w \in lo..v : r(w) <= r(v)
  BY <1>1, <1>2, <1>4, <1>5, RoundBounds
<1>9. QED
  BY <1>6, <1>7, <1>8 DEF num, d

\* The same, with the rank between two anchors as one operator.
RankBetween(p, q, lo, hi, w) == K!Round(p * (hi - lo) + (q - p) * (w - lo), hi - lo)

Anchors(p, q, lo, hi, v) ==
    /\ p \in Nat /\ q \in Nat /\ lo \in Nat /\ hi \in Nat /\ v \in Nat
    /\ p <= q /\ lo < hi /\ lo <= v /\ v <= hi

LEMMA RankBounds ==
    ASSUME NEW p, NEW q, NEW lo, NEW hi, NEW v, Anchors(p, q, lo, hi, v)
    PROVE  /\ RankBetween(p, q, lo, hi, v) \in p..q
           /\ v = hi => RankBetween(p, q, lo, hi, v) = q
           /\ \A w \in lo..v : RankBetween(p, q, lo, hi, w) <= RankBetween(p, q, lo, hi, v)
<1>1. /\ p \in Nat /\ q \in Nat /\ lo \in Nat /\ hi \in Nat /\ v \in Nat
      /\ p <= q /\ lo < hi /\ lo <= v /\ v <= hi
  BY DEF Anchors
<1> QED
  BY <1>1, BetweenBounds, Zenon DEF RankBetween

\* The quarter that an estimate tells, and that it grows within each.
LEMMA EstimateFields ==
    ASSUME NEW a, a[25] \in Nat, a[50] \in Nat, a[75] \in Nat, a[90] \in Nat,
           a[25] <= a[50], a[50] <= a[75], a[75] <= a[90], NEW v \in Nat
    PROVE  /\ v <= a[25] => K!Estimate(v, a) \in 0..25
           /\ v = a[25] /\ 0 < v => K!Estimate(v, a) = 25
           /\ a[25] < v /\ v <= a[50] => K!Estimate(v, a) \in 25..50
           /\ a[25] < v /\ v = a[50] => K!Estimate(v, a) = 50
           /\ a[50] < v /\ v <= a[75] => K!Estimate(v, a) \in 50..75
           /\ a[50] < v /\ v = a[75] => K!Estimate(v, a) = 75
           /\ a[75] < v /\ v <= a[90] => K!Estimate(v, a) \in 75..90
           /\ a[90] < v => K!Estimate(v, a) = 95
           /\ \A w \in 0..v :
                 \/ v <= a[25]
                 \/ a[25] < w /\ v <= a[50]
                 \/ a[50] < w /\ v <= a[75]
                 \/ a[75] < w /\ v <= a[90]
                 => K!Estimate(w, a) <= K!Estimate(v, a)
<1> DEFINE est(w) == K!Estimate(w, a)
           between(p, q, w) == K!Round(p * (a[q] - a[p]) + (q - p) * (w - a[p]), a[q] - a[p])
           first(w) == IF a[25] = 0 THEN 0 ELSE K!Round(25 * w, a[25])
<1>1. \A w \in Nat : w <= a[25] => est(w) = first(w)
  BY DEF K!Estimate
<1>2. \A w \in Nat : a[25] < w /\ w <= a[50] => est(w) = between(25, 50, w)
  BY DEF K!Estimate
<1>3. \A w \in Nat : a[50] < w /\ w <= a[75] => est(w) = between(50, 75, w)
  BY DEF K!Estimate
<1>4. \A w \in Nat : a[75] < w /\ w <= a[90] => est(w) = between(75, 90, w)
  BY DEF K!Estimate
<1>5. \A w \in Nat : a[90] < w => est(w) = 95
  BY DEF K!Estimate
<1> HIDE DEF est
<1>6. v <= a[25] =>
          /\ est(v) \in 0..25 /\ (0 < v /\ v = a[25] => est(v) = 25)
          /\ \A w \in 0..v : est(w) <= est(v)
  <2> SUFFICES ASSUME v <= a[25]
               PROVE  /\ est(v) \in 0..25 /\ (0 < v /\ v = a[25] => est(v) = 25)
                      /\ \A w \in 0..v : est(w) <= est(v)
    OBVIOUS
  <2>1. CASE a[25] = 0
    BY <1>1, <2>1
  <2>2. CASE a[25] # 0
    <3>1. a[25] > 0 /\ \A w \in 0..v : w \in Nat /\ w <= a[25] /\ est(w) = K!Round(25 * w, a[25])
      BY <1>1, <2>2
    <3>2. \A w \in 0..v : 25 * w \in Nat /\ 25 * w <= 25 * v /\ 25 * w <= 25 * a[25]
      BY <3>1
    <3>3. v \in 0..v
      OBVIOUS
    <3> DEFINE d == a[25]
    <3>a. d \in Nat /\ d > 0 /\ 25 * v \in Nat /\ 25 * v <= 25 * d
      BY <3>1, <3>2, <3>3
    <3> HIDE DEF d
    <3>b. K!Round(25 * v, d) \in Nat /\ K!Round(25 * v, d) <= 25
      BY <3>a, RoundBounds
    <3>c. ASSUME NEW w \in 0..v PROVE est(w) <= est(v)
      <4>1. 25 * w \in Nat /\ 25 * w <= 25 * v
        BY <3>2
      <4>2. K!Round(25 * w, d) <= K!Round(25 * v, d)
        BY <3>a, <4>1, RoundBounds
      <4>3. QED
        BY <3>1, <3>3, <4>2 DEF d
    <3>4. est(v) \in Nat /\ est(v) <= 25
      BY <3>1, <3>3, <3>b DEF d
    <3>5. v = a[25] => 25 <= est(v)
      <4>1. v = d => 25 <= K!Round(25 * v, d)
        BY <3>a, RoundBounds
      <4>2. QED
        BY <3>1, <3>3, <4>1 DEF d
    <3>6. QED
      BY <3>4, <3>5, <3>c
  <2>3. QED
    BY <2>1, <2>2
<1>7. ASSUME NEW p \in {25, 50, 75}, NEW q \in {50, 75, 90}, p < q, a[p] \in Nat, a[q] \in Nat,
             a[p] < v, v <= a[q], \A w \in Nat : a[p] < w /\ w <= a[q] => est(w) = between(p, q, w)
      PROVE  /\ est(v) \in p..q /\ (v = a[q] => est(v) = q)
             /\ \A w \in 0..v : a[p] < w => est(w) <= est(v)
  <2>1. /\ between(p, q, v) \in p..q
        /\ v = a[q] => between(p, q, v) = q
        /\ \A w \in a[p]..v : between(p, q, w) <= between(p, q, v)
    <3>1. p \in Nat /\ q \in Nat /\ p <= q /\ a[p] < a[q] /\ a[p] <= v
      BY <1>7
    <3> DEFINE lo == a[p]
               hi == a[q]
    <3>2. lo \in Nat /\ hi \in Nat /\ lo < hi /\ lo <= v /\ v <= hi
      BY <1>7, <3>1
    <3> HIDE DEF lo, hi
    <3>3. Anchors(p, q, lo, hi, v)
      BY <3>1, <3>2 DEF Anchors
    <3>4. /\ RankBetween(p, q, lo, hi, v) \in p..q
          /\ v = hi => RankBetween(p, q, lo, hi, v) = q
          /\ \A w \in lo..v : RankBetween(p, q, lo, hi, w) <= RankBetween(p, q, lo, hi, v)
      BY <3>3, RankBounds
    <3>5. QED
      BY <3>4 DEF lo, hi, RankBetween
  <2>2. \A w \in 0..v : a[p] < w => w \in Nat /\ w \in a[p]..v /\ w <= a[q]
    BY <1>7
  <2> HIDE DEF between
  <2>3. QED
    BY <1>7, <2>1, <2>2
<1> HIDE DEF between, first
<1>8. a[25] < v /\ v <= a[50] =>
          /\ est(v) \in 25..50 /\ (v = a[50] => est(v) = 50)
          /\ \A w \in 0..v : a[25] < w => est(w) <= est(v)
  BY <1>2, <1>7
<1>9. a[50] < v /\ v <= a[75] =>
          /\ est(v) \in 50..75 /\ (v = a[75] => est(v) = 75)
          /\ \A w \in 0..v : a[50] < w => est(w) <= est(v)
  BY <1>3, <1>7
<1>10. a[75] < v /\ v <= a[90] =>
          /\ est(v) \in 75..90
          /\ \A w \in 0..v : a[75] < w => est(w) <= est(v)
  BY <1>4, <1>7
<1>11. QED
  BY <1>5, <1>6, <1>8, <1>9, <1>10 DEF est

LEMMA EstimateMonotone ==
    ASSUME NEW a, a[25] \in Nat, a[50] \in Nat, a[75] \in Nat, a[90] \in Nat,
           a[25] <= a[50], a[50] <= a[75], a[75] <= a[90],
           NEW v \in Nat, NEW w \in Nat, w <= v
    PROVE  K!Estimate(w, a) <= K!Estimate(v, a)
<1> DEFINE est(x) == K!Estimate(x, a)
<1>1. \A x \in {v, w} :
           /\ x <= a[25] => est(x) \in 0..25
           /\ a[25] < x /\ x <= a[50] => est(x) \in 25..50
           /\ a[50] < x /\ x <= a[75] => est(x) \in 50..75
           /\ a[75] < x /\ x <= a[90] => est(x) \in 75..90
           /\ a[90] < x => est(x) = 95
  BY EstimateFields
<1>2. \/ v <= a[25]
      \/ a[25] < w /\ v <= a[50]
      \/ a[50] < w /\ v <= a[75]
      \/ a[75] < w /\ v <= a[90]
      => est(w) <= est(v)
  BY EstimateFields
<1> HIDE DEF est
<1>3. est(w) <= est(v)
  BY <1>1, <1>2
<1>4. QED
  BY <1>3 DEF est

LEMMA QuartileSizes ==
    Cardinality({25}) = 1 /\ Cardinality({25, 50}) = 2 /\ Cardinality({25, 50, 75}) = 3
<1>1. IsFiniteSet({25}) /\ Cardinality({25}) = 1
  BY FS_Singleton, Zenon
<1>2. IsFiniteSet({25} \cup {50}) /\ Cardinality({25} \cup {50}) = 2
  BY <1>1, FS_AddElement
<1>3. {25} \cup {50} = {25, 50} /\ {25, 50} \cup {75} = {25, 50, 75}
  OBVIOUS
<1>4. Cardinality({25, 50} \cup {75}) = 3
  BY <1>2, <1>3, FS_AddElement
<1>5. QED
  BY <1>1, <1>2, <1>3, <1>4

LEMMA BandFields ==
    ASSUME NEW a, a[25] \in Nat, a[50] \in Nat, a[75] \in Nat,
           a[25] <= a[50], a[50] <= a[75], NEW v \in Nat
    PROVE  /\ K!Band(v, a) \in Nat
           /\ v < a[25] => K!Band(v, a) = 0
           /\ a[25] <= v /\ v < a[50] => K!Band(v, a) = 1
           /\ a[50] <= v /\ v < a[75] => K!Band(v, a) = 2
           /\ a[75] <= v => K!Band(v, a) = 3
<1> DEFINE R2 == {p \in {25, 50, 75} : v >= a[p]}
<1>1. K!Band(v, a) = Cardinality(R2)
  BY PercentilesCardinality DEF K!Band
<1>2. CASE v < a[25]
  <2>1. R2 = {}
    BY <1>2
  <2>2. QED
    BY <1>1, <1>2, <2>1, FS_EmptySet
<1>3. CASE a[25] <= v /\ v < a[50]
  <2>1. R2 = {25}
    BY <1>3
  <2>2. QED
    BY <1>1, <1>3, <2>1, QuartileSizes
<1>4. CASE a[50] <= v /\ v < a[75]
  <2>1. R2 = {25, 50}
    BY <1>4
  <2>2. QED
    BY <1>1, <1>4, <2>1, QuartileSizes
<1>5. CASE a[75] <= v
  <2>1. R2 = {25, 50, 75}
    BY <1>5
  <2>2. QED
    BY <1>1, <1>5, <2>1, QuartileSizes
<1>6. QED
  BY <1>2, <1>3, <1>4, <1>5

LEMMA RanksAll == ASSUME MaxValue \in Nat, SampleInv PROVE K!Ranks
<1> DEFINE a == K!Summary(sample)
<1>1. sample \in Seq(K!Values) /\ Ascending(sample)
  BY DEF SampleInv, K!TypeOK
<1>2. \A p \in K!Anchors : a[p] = K!Percentile(sample, p)
  BY DEF K!Summary
<1>3. \A p, q \in K!Anchors : a[p] \in Nat /\ (p <= q => a[p] <= a[q])
  <2>1. CASE sample = <<>>
    BY <1>2, <2>1 DEF K!Percentile
  <2>2. CASE sample # <<>>
    BY <1>1, <1>2, <2>2, PercentileBetween, PercentileMonotone
  <2>3. QED
    BY <2>1, <2>2
<1> HIDE DEF a
<1>4. /\ a[25] \in Nat /\ a[50] \in Nat /\ a[75] \in Nat /\ a[90] \in Nat
      /\ a[25] <= a[50] /\ a[50] <= a[75] /\ a[75] <= a[90]
  BY <1>3 DEF K!Anchors
<1>5. ASSUME NEW v \in K!Values, NEW w \in K!Values, v <= w
      PROVE  K!Estimate(v, a) <= K!Estimate(w, a) /\ K!Band(v, a) <= K!Band(w, a)
  <2>1. v \in Nat /\ w \in Nat
    BY DEF K!Values
  <2>2. K!Estimate(v, a) <= K!Estimate(w, a)
    BY <1>4, <1>5, <2>1, EstimateMonotone
  <2>3. K!Band(v, a) <= K!Band(w, a)
    BY <1>4, <1>5, <2>1, BandFields
  <2>4. QED
    BY <2>2, <2>3
<1>6. ASSUME 0 < a[25], a[25] < a[50], a[50] < a[75], NEW v \in K!Values
      PROVE  /\ 25 * K!Band(v, a) <= K!Estimate(v, a)
             /\ K!Band(v, a) < 3 => K!Estimate(v, a) <= 25 * (K!Band(v, a) + 1)
  <2>1. v \in Nat
    BY DEF K!Values
  <2> DEFINE est == K!Estimate(v, a)
             band == K!Band(v, a)
  <2>2. /\ v <= a[25] => est \in 0..25
        /\ v = a[25] /\ 0 < v => est = 25
        /\ a[25] < v /\ v <= a[50] => est \in 25..50
        /\ a[25] < v /\ v = a[50] => est = 50
        /\ a[50] < v /\ v <= a[75] => est \in 50..75
        /\ a[50] < v /\ v = a[75] => est = 75
        /\ a[75] < v /\ v <= a[90] => est \in 75..90
        /\ a[90] < v => est = 95
    BY <1>4, <2>1, EstimateFields
  <2>3. /\ v < a[25] => band = 0
        /\ a[25] <= v /\ v < a[50] => band = 1
        /\ a[50] <= v /\ v < a[75] => band = 2
        /\ a[75] <= v => band = 3
    BY <1>4, <2>1, BandFields
  <2> HIDE DEF est, band
  <2>4. 25 * band <= est /\ (band < 3 => est <= 25 * (band + 1))
    BY <1>4, <1>6, <2>1, <2>2, <2>3
  <2>5. QED
    BY <2>4 DEF est, band
<1>7. QED
  BY <1>5, <1>6 DEF K!Ranks, a

LEMMA SampleStep == ASSUME K!ConstantsOK, SampleInv, [K!Next]_K!vars PROVE SampleInv'
<1>1. ASSUME NEW v \in K!Values, K!Add(v) PROVE SampleInv'
  <2> DEFINE n == Len(sample)
             s2 == Append(sample, v)
  <2>1. /\ n \in Nat /\ sample \in Seq(K!Values) /\ Ascending(sample) /\ n < MaxSample
        /\ \A i \in 1..n : sample[i] <= v
        /\ sample' = s2
    BY <1>1 DEF SampleInv, K!TypeOK, K!Add
  <2>2. s2 \in Seq(K!Values) /\ Len(s2) = n + 1 /\ s2[n + 1] = v /\ \A i \in 1..n : s2[i] = sample[i]
    BY <2>1
  <2>3. Len(s2) <= MaxSample
    BY <2>1, <2>2 DEF K!ConstantsOK
  <2>4. ASSUME NEW i \in 1..Len(s2), NEW j \in 1..Len(s2), i <= j PROVE s2[i] <= s2[j]
    <3> HIDE DEF n, s2
    <3>1. CASE j = n + 1
      <4>1. CASE i = n + 1
        BY <2>2, <3>1, <4>1 DEF K!Values
      <4>2. CASE i # n + 1
        BY <2>1, <2>2, <2>4, <3>1, <4>2
      <4>3. QED
        BY <4>1, <4>2
    <3>2. CASE j # n + 1
      <4>1. i \in 1..n /\ j \in 1..n
        BY <2>1, <2>2, <2>4, <3>2
      <4>2. sample[i] <= sample[j]
        BY <2>1, <2>4, <4>1 DEF Ascending, n
      <4>3. QED
        BY <2>2, <4>1, <4>2
    <3>3. QED
      BY <3>1, <3>2
  <2> HIDE DEF s2
  <2>5. Ascending(s2)
    BY <2>4 DEF Ascending
  <2>6. QED
    BY <2>1, <2>2, <2>3, <2>5 DEF SampleInv, K!TypeOK, K!Values, Ascending
<1>2. CASE UNCHANGED K!vars
  BY <1>2 DEF K!vars, SampleInv, K!TypeOK, K!Values, Ascending
<1>3. QED
  BY <1>1, <1>2 DEF K!Next

LEMMA PercentilesInvariance == ASSUME K!ConstantsOK PROVE K!Spec => []SampleInv
<1>1. K!Init => SampleInv
  BY DEF K!ConstantsOK, K!Init, SampleInv, K!TypeOK, Ascending
<1>2. QED
  BY <1>1, SampleStep, PTL DEF K!Spec

LinkFacts == INSTANCE PortfolioLinksProofs WITH
        Agencies <- Editors, Customers <- One, Requests <- Two, Visits <- Editors,
        request <- linkRequest

LEMMA LinksSame ==
    /\ P!Init <=> LinkFacts!Init
    /\ P!Next <=> LinkFacts!Next
    /\ P!vars = LinkFacts!vars
    /\ P!ConstantsOK <=> LinkFacts!ConstantsOK
    /\ P!TypeOK <=> LinkFacts!TypeOK
    /\ P!ConsentFirst <=> LinkFacts!ConsentFirst
    /\ P!ManagedHasService <=> LinkFacts!ManagedHasService
<1> USE DEF P!Tenants, LinkFacts!Tenants, P!Links, LinkFacts!Links, P!Row, LinkFacts!Row,
            P!Visit, LinkFacts!Visit, P!Rows, LinkFacts!Rows
<1>1. P!Init <=> LinkFacts!Init
  BY DEF P!Init, LinkFacts!Init
<1>2. P!Next <=> LinkFacts!Next
  BY DEF P!Next, LinkFacts!Next, P!Pending, LinkFacts!Pending, P!Read, LinkFacts!Read,
         P!Done, LinkFacts!Done, P!Doing, LinkFacts!Doing, P!Manages, LinkFacts!Manages,
         P!CreateManaged, LinkFacts!CreateManaged, P!ReadLink, LinkFacts!ReadLink,
         P!WriteLink, LinkFacts!WriteLink, P!ReadApprove, LinkFacts!ReadApprove,
         P!WriteApprove, LinkFacts!WriteApprove, P!ReadReject, LinkFacts!ReadReject,
         P!WriteReject, LinkFacts!WriteReject, P!ReadManaged, LinkFacts!ReadManaged,
         P!Switch, LinkFacts!Switch, P!SetPlan, LinkFacts!SetPlan, P!Fail, LinkFacts!Fail
<1>3. P!vars = LinkFacts!vars
  BY DEF P!vars, LinkFacts!vars
<1>4. P!ConstantsOK <=> LinkFacts!ConstantsOK
  BY DEF P!ConstantsOK, LinkFacts!ConstantsOK
<1>5. P!TypeOK <=> LinkFacts!TypeOK
  BY DEF P!TypeOK, LinkFacts!TypeOK
<1>6. P!ConsentFirst <=> LinkFacts!ConsentFirst
  BY DEF P!ConsentFirst, LinkFacts!ConsentFirst, P!Manages, LinkFacts!Manages
<1>7. P!ManagedHasService <=> LinkFacts!ManagedHasService
  BY DEF P!ManagedHasService, LinkFacts!ManagedHasService, P!Manages, LinkFacts!Manages
<1>8. QED
  BY <1>1, <1>2, <1>3, <1>4, <1>5, <1>6, <1>7

LEMMA LinksSpecSame == P!Spec => LinkFacts!Spec
<1>1. P!Init => LinkFacts!Init
  BY LinksSame
<1>2. [P!Next]_P!vars => [LinkFacts!Next]_LinkFacts!vars
  BY LinksSame DEF P!vars, LinkFacts!vars
<1>3. QED
  BY <1>1, <1>2, PTL DEF P!Spec, LinkFacts!Spec

LEMMA LinksInvariance ==
    ASSUME P!ConstantsOK
    PROVE  P!Spec => []P!TypeOK /\ []P!ConsentFirst /\ []P!ManagedHasService
<1>1. LinkFacts!ConstantsOK
  BY LinksSame
<1>2. LinkFacts!TypeOK => P!TypeOK
  BY LinksSame
<1>3. LinkFacts!ConsentFirst => P!ConsentFirst
  BY LinksSame
<1>4. LinkFacts!ManagedHasService => P!ManagedHasService
  BY LinksSame
<1>5. QED
  BY <1>1, <1>2, <1>3, <1>4, LinksSpecSame, LinkFacts!TypeCorrect,
     LinkFacts!ConsentComesFirst, LinkFacts!ManagerHasService, PTL

-----------------------------------------------------------------------------
(* CommandCenter: the rows of a workspace *)

\* The copies of a kind in a bag of rows.
Copies(w, k) == IF k \in DOMAIN w THEN w[k] ELSE 0

\* A workspace of finitely many rows of the kinds there are.
Workspace(w) ==
    /\ W!IsABag(w)
    /\ DOMAIN w \subseteq W!Kinds
    /\ IsFiniteSet(W!Rows(w, W!Kinds))

LEMMA RowsCardinality == \A I : W!Cardinality(I) = Cardinality(I)
  BY DEF W!Cardinality, Cardinality

LEMMA RowsMember ==
    ASSUME NEW w, W!IsABag(w), NEW ks, NEW x
    PROVE  x \in W!Rows(w, ks) <=>
              \E k \in ks, i \in Nat : x = <<k, i>> /\ 1 <= i /\ i <= Copies(w, k)
<1>1. x \in W!Rows(w, ks) <=> \E k \in DOMAIN w \cap ks : x \in {k} \X (1..w[k])
  BY DEF W!Rows, W!BagToSet
<1>2. ASSUME NEW k \in DOMAIN w \cap ks, x \in {k} \X (1..w[k])
      PROVE  \E i \in Nat : x = <<k, i>> /\ 1 <= i /\ i <= Copies(w, k)
  <2>1. w[k] \in Nat /\ Copies(w, k) = w[k]
    BY DEF Copies, W!IsABag
  <2>2. PICK i \in 1..w[k] : x = <<k, i>>
    BY <1>2
  <2>3. QED
    BY <2>1, <2>2
<1>3. ASSUME NEW k \in ks, NEW i \in Nat, x = <<k, i>>, 1 <= i, i <= Copies(w, k)
      PROVE  k \in DOMAIN w \cap ks /\ x \in {k} \X (1..w[k])
  <2>1. k \in DOMAIN w
    BY <1>3 DEF Copies
  <2>2. w[k] \in Nat /\ Copies(w, k) = w[k]
    BY <2>1 DEF Copies, W!IsABag
  <2>3. i \in 1..w[k]
    BY <1>3, <2>2
  <2>4. QED
    BY <1>3, <2>1, <2>3
<1>4. QED
  BY <1>1, <1>2, <1>3

LEMMA CopiesNat ==
    ASSUME NEW w, W!IsABag(w), NEW k
    PROVE  Copies(w, k) \in Nat /\ (k \in DOMAIN w <=> Copies(w, k) > 0)
  BY DEF Copies, W!IsABag

LEMMA CountNat ==
    ASSUME NEW w, Workspace(w), NEW ks \in SUBSET W!Kinds
    PROVE  /\ IsFiniteSet(W!Rows(w, ks))
           /\ W!Count(w, ks) = Cardinality(W!Rows(w, ks)) /\ W!Count(w, ks) \in Nat
<1>1. W!Rows(w, ks) \in SUBSET W!Rows(w, W!Kinds)
  BY DEF W!Rows
<1>2. IsFiniteSet(W!Rows(w, ks))
  BY <1>1, FS_Subset DEF Workspace
<1>3. QED
  BY <1>2, FS_CardinalityType, RowsCardinality DEF W!Count

\* Fewer kinds, fewer rows.
LEMMA CountPart ==
    ASSUME NEW w, Workspace(w), NEW ks \in SUBSET W!Kinds, NEW I \in SUBSET ks
    PROVE  W!Count(w, I) <= W!Count(w, ks)
<1>1. W!Rows(w, I) \in SUBSET W!Rows(w, ks)
  BY DEF W!Rows
<1>2. W!Count(w, I) = Cardinality(W!Rows(w, I))
      /\ W!Count(w, ks) = Cardinality(W!Rows(w, ks)) /\ IsFiniteSet(W!Rows(w, ks))
  BY CountNat
<1>3. QED
  BY <1>1, <1>2, FS_Subset

LEMMA SameRows ==
    ASSUME NEW w, W!IsABag(w),
           NEW t, W!IsABag(t),
           NEW ks, \A k \in ks : Copies(t, k) = Copies(w, k)
    PROVE  W!Rows(t, ks) = W!Rows(w, ks)
<1>1. \A x : x \in W!Rows(w, ks) <=>
             \E k \in ks, i \in Nat : x = <<k, i>> /\ 1 <= i /\ i <= Copies(w, k)
  BY RowsMember
<1>2. \A x : x \in W!Rows(t, ks) <=>
             \E k \in ks, i \in Nat : x = <<k, i>> /\ 1 <= i /\ i <= Copies(t, k)
  BY RowsMember
<1>3. \A x : x \in W!Rows(t, ks) <=> x \in W!Rows(w, ks)
  BY <1>1, <1>2
<1>4. QED
  BY <1>3

\* One copy more of a kind is one row more.
LEMMA OneMore ==
    ASSUME NEW w, W!IsABag(w),
           NEW t, W!IsABag(t),
           NEW ks, NEW k \in ks, Copies(t, k) = Copies(w, k) + 1,
           \A j \in ks : j # k => Copies(t, j) = Copies(w, j)
    PROVE  /\ IsFiniteSet(W!Rows(t, ks)) <=> IsFiniteSet(W!Rows(w, ks))
           /\ IsFiniteSet(W!Rows(w, ks)) =>
                 Cardinality(W!Rows(t, ks)) = Cardinality(W!Rows(w, ks)) + 1
<1>1. \A x : x \in W!Rows(w, ks) <=>
             \E j \in ks, i \in Nat : x = <<j, i>> /\ 1 <= i /\ i <= Copies(w, j)
  BY RowsMember
<1>2. \A x : x \in W!Rows(t, ks) <=>
             \E j \in ks, i \in Nat : x = <<j, i>> /\ 1 <= i /\ i <= Copies(t, j)
  BY RowsMember
<1>3. Copies(w, k) \in Nat /\ Copies(t, k) \in Nat
  BY CopiesNat
<1>4. ASSUME NEW x \in W!Rows(t, ks) PROVE x \in W!Rows(w, ks) \cup {<<k, Copies(t, k)>>}
  <2>1. PICK j \in ks, i \in Nat : x = <<j, i>> /\ 1 <= i /\ i <= Copies(t, j)
    BY <1>2
  <2>2. CASE j # k
    BY <1>1, <2>1, <2>2
  <2>3. CASE j = k /\ i # Copies(t, k)
    <3>1. i <= Copies(w, k)
      BY <1>3, <2>1, <2>3
    <3>2. QED
      BY <1>1, <2>1, <2>3, <3>1
  <2>4. QED
    BY <2>1, <2>2, <2>3
<1>5. ASSUME NEW x \in W!Rows(w, ks) PROVE x \in W!Rows(t, ks)
  <2>1. PICK j \in ks, i \in Nat : x = <<j, i>> /\ 1 <= i /\ i <= Copies(w, j)
    BY <1>1
  <2>2. i <= Copies(t, j)
    BY <1>3, <2>1
  <2>3. QED
    BY <1>2, <2>1, <2>2
<1>6. <<k, Copies(t, k)>> \in W!Rows(t, ks)
  <2>1. 1 <= Copies(t, k) /\ Copies(t, k) <= Copies(t, k)
    BY <1>3
  <2>2. QED
    BY <1>2, <1>3, <2>1
<1>7. <<k, Copies(t, k)>> \notin W!Rows(w, ks)
  <2>1. ASSUME NEW j \in ks, NEW i \in Nat, <<k, Copies(t, k)>> = <<j, i>> PROVE ~(i <= Copies(w, j))
    BY <1>3, <2>1
  <2>2. QED
    BY <1>1, <2>1
<1>8. W!Rows(t, ks) = W!Rows(w, ks) \cup {<<k, Copies(t, k)>>}
  BY <1>4, <1>5, <1>6
<1>9. IsFiniteSet(W!Rows(t, ks)) => IsFiniteSet(W!Rows(w, ks))
  BY <1>8, FS_Subset
<1>10. IsFiniteSet(W!Rows(w, ks)) =>
          /\ IsFiniteSet(W!Rows(t, ks))
          /\ Cardinality(W!Rows(t, ks)) = Cardinality(W!Rows(w, ks)) + 1
  BY <1>7, <1>8, FS_AddElement
<1>11. QED
  BY <1>9, <1>10

\* A row added to a bag, and some taken away.
Added(w, k) ==
    [e \in DOMAIN w \cup {k} |-> (IF e \in DOMAIN w THEN w[e] ELSE 0) + (IF e \in {k} THEN 1 ELSE 0)]

LEMMA BagAdded == \A w, k : W!(+)(w, W!SetToBag({k})) = Added(w, k)
<1>1. TAKE w, k
<1>2. W!SetToBag({k}) = [e \in {k} |-> 1]
  BY DEF W!SetToBag
<1>3. DOMAIN W!SetToBag({k}) = {k} /\ \A e \in {k} : W!SetToBag({k})[e] = 1
  BY <1>2
<1>4. QED
  BY <1>3 DEF W!(+), Added

LEMMA AddedFields ==
    ASSUME NEW w, W!IsABag(w), NEW k, NEW t, t = Added(w, k)
    PROVE  /\ W!IsABag(t)
           /\ \A j : j \in DOMAIN t <=> j \in DOMAIN w \/ j = k
           /\ Copies(t, k) = Copies(w, k) + 1
           /\ \A j \in W!Kinds : j # k => Copies(t, j) = Copies(w, j)
<1>1. DOMAIN t = DOMAIN w \cup {k}
  BY DEF Added
<1>2. t[k] = Copies(w, k) + 1 /\ \A j \in DOMAIN w : j # k => t[j] = w[j]
  <2>1. \A j \in DOMAIN w \cup {k} :
          t[j] = (IF j \in DOMAIN w THEN w[j] ELSE 0) + (IF j \in {k} THEN 1 ELSE 0)
    BY DEF Added
  <2>2. \A j \in DOMAIN w : w[j] \in Nat
    BY DEF W!IsABag
  <2>3. QED
    BY <2>1, <2>2 DEF Copies
<1>3. t = [e \in DOMAIN t |-> t[e]]
  BY DEF Added
<1>4. /\ \A j \in DOMAIN w : w[j] \in Nat /\ w[j] > 0
      /\ Copies(w, k) \in Nat
  BY CopiesNat DEF W!IsABag
<1>5. \A j \in DOMAIN t : t[j] \in Nat /\ t[j] > 0
  BY <1>1, <1>2, <1>4
<1>6. W!IsABag(t)
  BY <1>3, <1>5 DEF W!IsABag
<1>7. \A j : j \in DOMAIN t <=> j \in DOMAIN w \/ j = k
  BY <1>1
<1>8. QED
  BY <1>2, <1>6, <1>7 DEF Copies

LEMMA RemovedFields ==
    ASSUME NEW w, W!IsABag(w), NEW S2,
           NEW t, t = W!(-)(w, W!SetToBag(S2))
    PROVE  /\ W!IsABag(t)
           /\ DOMAIN t \subseteq DOMAIN w
           /\ \A j \in DOMAIN w \cap S2 : Copies(t, j) = Copies(w, j) - 1
           /\ \A j : j \notin DOMAIN w \cap S2 => Copies(t, j) = Copies(w, j)
<1> DEFINE less == [e \in DOMAIN w |-> IF e \in S2 THEN w[e] - 1 ELSE w[e]]
<1>1. W!SetToBag(S2) = [e \in S2 |-> 1]
  BY DEF W!SetToBag
<1>2. DOMAIN W!SetToBag(S2) = S2 /\ \A e \in S2 : W!SetToBag(S2)[e] = 1
  BY <1>1
<1>3. [e \in DOMAIN w |-> IF e \in DOMAIN W!SetToBag(S2) THEN w[e] - W!SetToBag(S2)[e] ELSE w[e]]
      = less
  BY <1>2
<1>4. t = [e \in {d \in DOMAIN less : less[d] > 0} |-> less[e]]
  BY <1>3 DEF W!(-)
<1>5. \A j \in DOMAIN w : w[j] \in Nat /\ w[j] > 0 /\ less[j] \in Nat
                          /\ less[j] = IF j \in S2 THEN w[j] - 1 ELSE w[j]
  BY DEF W!IsABag
<1>6. DOMAIN less = DOMAIN w
  OBVIOUS
<1> HIDE DEF less
<1>7. DOMAIN t = {d \in DOMAIN w : less[d] > 0} /\ \A j \in DOMAIN t : t[j] = less[j]
  BY <1>4, <1>6
<1>8. \A j \in DOMAIN t : t[j] \in Nat /\ t[j] > 0
  BY <1>5, <1>7
<1>9. W!IsABag(t)
  BY <1>4, <1>7, <1>8 DEF W!IsABag
<1>10. \A j \in DOMAIN w : Copies(t, j) = less[j] /\ Copies(w, j) = w[j]
  BY <1>5, <1>7 DEF Copies
<1>11. \A j : j \notin DOMAIN w => Copies(t, j) = 0 /\ Copies(w, j) = 0
  BY <1>7 DEF Copies
<1>12. QED
  BY <1>5, <1>7, <1>9, <1>10, <1>11

\* What a row counts towards some kinds.
In(k, ks) == IF k \in ks THEN 1 ELSE 0

\* One row turned into another: what is counted changes by the two.
LEMMA TurnedCount ==
    ASSUME NEW w, Workspace(w), NEW a \in DOMAIN w, NEW b \in W!Kinds, a # b,
           NEW t, t = W!Turned(w, a, b)
    PROVE  /\ Workspace(t)
           /\ \A ks \in SUBSET W!Kinds :
                 /\ W!Count(w, ks) \in Nat /\ W!Count(t, ks) \in Nat
                 /\ W!Count(t, ks) = W!Count(w, ks) - In(a, ks) + In(b, ks)
                 /\ a \in ks => W!Count(w, ks) >= 1
<1>1. W!IsABag(w) /\ DOMAIN w \subseteq W!Kinds
      /\ IsFiniteSet(W!Rows(w, W!Kinds))
  BY DEF Workspace
<1>2. PICK v : v = W!(-)(w, W!SetToBag({a}))
  OBVIOUS
<1>3. /\ W!IsABag(v) /\ DOMAIN v \subseteq DOMAIN w
      /\ Copies(v, a) = Copies(w, a) - 1
      /\ \A j \in W!Kinds : j # a => Copies(v, j) = Copies(w, j)
  <2>1. /\ W!IsABag(v) /\ DOMAIN v \subseteq DOMAIN w
        /\ \A j \in DOMAIN w \cap {a} : Copies(v, j) = Copies(w, j) - 1
        /\ \A j : j \notin DOMAIN w \cap {a} => Copies(v, j) = Copies(w, j)
    BY <1>1, <1>2, RemovedFields
  <2>2. QED
    BY <2>1
<1>4. t = Added(v, b)
  BY <1>2, BagAdded DEF W!Turned
<1>5. /\ W!IsABag(t) /\ \A j : j \in DOMAIN t <=> j \in DOMAIN v \/ j = b
      /\ Copies(t, b) = Copies(v, b) + 1
      /\ \A j \in W!Kinds : j # b => Copies(t, j) = Copies(v, j)
  BY <1>3, <1>4, AddedFields
<1>6. Copies(w, a) = Copies(v, a) + 1
  <2>1. Copies(w, a) \in Nat /\ Copies(v, a) \in Nat
    BY <1>1, <1>3, CopiesNat
  <2>2. QED
    BY <1>3, <2>1
<1>7. ASSUME NEW ks \in SUBSET W!Kinds
      PROVE  /\ IsFiniteSet(W!Rows(v, ks))
             /\ Cardinality(W!Rows(v, ks)) \in Nat
             /\ Cardinality(W!Rows(w, ks)) = Cardinality(W!Rows(v, ks)) + In(a, ks)
  <2>1. IsFiniteSet(W!Rows(w, ks))
    BY CountNat
  <2>2. CASE a \in ks
    <3>1. /\ IsFiniteSet(W!Rows(w, ks)) <=> IsFiniteSet(W!Rows(v, ks))
          /\ IsFiniteSet(W!Rows(v, ks)) =>
                Cardinality(W!Rows(w, ks)) = Cardinality(W!Rows(v, ks)) + 1
      BY <1>1, <1>3, <1>6, <2>2, OneMore
    <3>2. QED
      BY <2>1, <2>2, <3>1, FS_CardinalityType DEF In
  <2>3. CASE a \notin ks
    <3>1. W!Rows(v, ks) = W!Rows(w, ks)
      BY <1>1, <1>3, <2>3, SameRows
    <3>2. Cardinality(W!Rows(v, ks)) \in Nat
      BY <2>1, <3>1, FS_CardinalityType
    <3>3. QED
      BY <2>1, <2>3, <3>1, <3>2 DEF In
  <2>4. QED
    BY <2>2, <2>3
<1>8. ASSUME NEW ks \in SUBSET W!Kinds
      PROVE  /\ IsFiniteSet(W!Rows(t, ks))
             /\ Cardinality(W!Rows(t, ks)) = Cardinality(W!Rows(v, ks)) + In(b, ks)
  <2>1. IsFiniteSet(W!Rows(v, ks)) /\ Cardinality(W!Rows(v, ks)) \in Nat
    BY <1>7
  <2>2. CASE b \in ks
    <3>1. Cardinality(W!Rows(t, ks)) = Cardinality(W!Rows(v, ks)) + 1 /\ IsFiniteSet(W!Rows(t, ks))
      BY <1>3, <1>5, <2>1, <2>2, OneMore
    <3>2. QED
      BY <2>2, <3>1 DEF In
  <2>3. CASE b \notin ks
    <3>1. W!Rows(t, ks) = W!Rows(v, ks)
      BY <1>3, <1>5, <2>3, SameRows
    <3>2. QED
      BY <2>1, <2>3, <3>1 DEF In
  <2>4. QED
    BY <2>2, <2>3
<1>9. Workspace(t)
  <2>1. DOMAIN t \subseteq W!Kinds
    BY <1>1, <1>3, <1>5
  <2>2. QED
    BY <1>5, <1>8, <2>1 DEF Workspace
<1>10. ASSUME NEW ks \in SUBSET W!Kinds
      PROVE  /\ W!Count(w, ks) \in Nat /\ W!Count(t, ks) \in Nat
             /\ W!Count(t, ks) = W!Count(w, ks) - In(a, ks) + In(b, ks)
             /\ a \in ks => W!Count(w, ks) >= 1
  <2>1. W!Count(w, ks) = Cardinality(W!Rows(w, ks)) /\ W!Count(w, ks) \in Nat
    BY CountNat
  <2>2. W!Count(t, ks) = Cardinality(W!Rows(t, ks)) /\ W!Count(t, ks) \in Nat
    BY <1>9, CountNat
  <2>3. In(a, ks) \in {0, 1} /\ In(b, ks) \in {0, 1} /\ (a \in ks => In(a, ks) = 1)
    BY DEF In
  <2>4. QED
    BY <1>7, <1>8, <2>1, <2>2, <2>3
<1>11. QED
  BY <1>9, <1>10

LEMMA AdviceWorkspaceInit == ASSUME W!Init PROVE Workspace(workspace)
<1>1. DOMAIN workspace = {} /\ workspace = [e \in {} |-> 1]
  BY DEF W!Init, W!EmptyBag, W!SetToBag
<1>2. W!Rows(workspace, W!Kinds) = {}
  BY <1>1 DEF W!Rows, W!BagToSet
<1>3. QED
  BY <1>1, <1>2, FS_EmptySet DEF Workspace, W!IsABag

LEMMA AddedWorkspace ==
    ASSUME NEW w, Workspace(w), NEW k \in W!Kinds, NEW t, t = Added(w, k)
    PROVE  Workspace(t)
<1>1. W!IsABag(w) /\ DOMAIN w \subseteq W!Kinds
      /\ IsFiniteSet(W!Rows(w, W!Kinds))
  BY DEF Workspace
<1>2. /\ W!IsABag(t) /\ \A j : j \in DOMAIN t <=> j \in DOMAIN w \/ j = k
      /\ Copies(t, k) = Copies(w, k) + 1
      /\ \A j \in W!Kinds : j # k => Copies(t, j) = Copies(w, j)
  BY <1>1, AddedFields
<1>3. IsFiniteSet(W!Rows(t, W!Kinds))
  BY <1>1, <1>2, OneMore
<1>4. QED
  BY <1>1, <1>2, <1>3 DEF Workspace

LEMMA AdviceWorkspaceStep == ASSUME Workspace(workspace), [W!Next]_W!vars PROVE Workspace(workspace)'
<1>1. CASE UNCHANGED W!vars
  BY <1>1 DEF W!vars, Workspace, W!Rows, W!BagToSet, W!IsABag
<1>2. ASSUME NEW k \in W!Kinds, W!Add(k) PROVE Workspace(workspace)'
  <2>1. workspace' = Added(workspace, k)
    BY <1>2, BagAdded DEF W!Add
  <2>2. \A t : t = Added(workspace, k) => Workspace(t)
    BY AddedWorkspace
  <2>3. Workspace(workspace')
    BY <2>1, <2>2
  <2>4. QED
    BY <2>3 DEF Workspace, W!Rows, W!BagToSet, W!IsABag
<1>3. QED
  BY <1>1, <1>2 DEF W!Next

-----------------------------------------------------------------------------
(* CommandCenter: rounding, and the integrations connected *)

\* The rows to synchronize, taken away.
LEMMA SyncedCount ==
    ASSUME NEW w, Workspace(w), NEW t, t = W!(-)(w, W!SetToBag(W!Sync))
    PROVE  /\ Workspace(t)
           /\ \A ks \in SUBSET W!Kinds : ks \cap W!Sync = {} => W!Count(t, ks) = W!Count(w, ks)
           /\ W!Count(w, W!Sync) > 0 => W!Count(t, W!Urgent) < W!Count(w, W!Urgent)
           /\ W!Count(w, W!Urgent) \in Nat /\ W!Count(t, W!Urgent) \in Nat
<1>1. W!IsABag(w) /\ DOMAIN w \subseteq W!Kinds
  BY DEF Workspace
<1>2. /\ W!IsABag(t) /\ DOMAIN t \subseteq DOMAIN w
      /\ \A j \in DOMAIN w \cap W!Sync : Copies(t, j) = Copies(w, j) - 1
      /\ \A j : j \notin DOMAIN w \cap W!Sync => Copies(t, j) = Copies(w, j)
  BY <1>1, RemovedFields
<1>3. \A j : Copies(t, j) \in Nat /\ Copies(w, j) \in Nat /\ Copies(t, j) <= Copies(w, j)
  <2>1. \A j : Copies(t, j) \in Nat /\ Copies(w, j) \in Nat
    BY <1>1, <1>2, CopiesNat
  <2>2. TAKE j
  <2>3. CASE j \in DOMAIN w \cap W!Sync
    <3>1. Copies(t, j) = Copies(w, j) - 1
      BY <1>2, <2>3
    <3>2. QED
      BY <2>1, <3>1
  <2>4. CASE j \notin DOMAIN w \cap W!Sync
    <3>1. Copies(t, j) = Copies(w, j)
      BY <1>2, <2>4
    <3>2. QED
      BY <2>1, <3>1
  <2>5. QED
    BY <2>3, <2>4
<1>4. ASSUME NEW ks \in SUBSET W!Kinds, ks \cap W!Sync = {} PROVE W!Count(t, ks) = W!Count(w, ks)
  <2>1. \A k \in ks : Copies(t, k) = Copies(w, k)
    BY <1>2, <1>4
  <2>2. W!Rows(t, ks) = W!Rows(w, ks)
    BY <1>1, <1>2, <2>1, SameRows
  <2>3. QED
    BY <2>2 DEF W!Count
<1>5. W!Urgent \in SUBSET W!Kinds /\ W!Sync \in SUBSET W!Urgent /\ W!Sync \in SUBSET W!Kinds
  BY DEF W!Urgent, W!Sync, W!Kinds, W!Tasks, W!Funds, W!Deals, W!OpenDeals, W!Documents,
         W!Milestones, W!Programs, W!Requirements
<1>6. /\ IsFiniteSet(W!Rows(w, W!Urgent)) /\ W!Count(w, W!Urgent) = Cardinality(W!Rows(w, W!Urgent))
      /\ W!Count(w, W!Urgent) \in Nat
      /\ IsFiniteSet(W!Rows(w, W!Sync)) /\ W!Count(w, W!Sync) = Cardinality(W!Rows(w, W!Sync))
  BY <1>5, CountNat
<1>7. ASSUME NEW ks PROVE W!Rows(t, ks) \in SUBSET W!Rows(w, ks)
  <2>1. ASSUME NEW x \in W!Rows(t, ks) PROVE x \in W!Rows(w, ks)
    <3>1. PICK k \in ks, i \in Nat : x = <<k, i>> /\ 1 <= i /\ i <= Copies(t, k)
      BY <1>2, RowsMember
    <3>2. i <= Copies(w, k)
      <4>1. Copies(t, k) \in Nat /\ Copies(w, k) \in Nat /\ Copies(t, k) <= Copies(w, k)
        BY <1>3
      <4>2. QED
        BY <3>1, <4>1
    <3>3. QED
      BY <1>1, <3>1, <3>2, RowsMember
  <2>2. QED
    BY <2>1
<1>8. IsFiniteSet(W!Rows(t, W!Urgent)) /\ W!Count(t, W!Urgent) = Cardinality(W!Rows(t, W!Urgent))
      /\ W!Count(t, W!Urgent) \in Nat /\ W!Count(t, W!Urgent) <= W!Count(w, W!Urgent)
      /\ (W!Count(t, W!Urgent) = W!Count(w, W!Urgent) => W!Rows(t, W!Urgent) = W!Rows(w, W!Urgent))
  BY <1>6, <1>7, FS_Subset, FS_CardinalityType, RowsCardinality DEF W!Count
<1>9. ASSUME W!Count(w, W!Sync) > 0 PROVE W!Rows(t, W!Urgent) # W!Rows(w, W!Urgent)
  <2>1. W!Rows(w, W!Sync) # {}
    BY <1>6, <1>9, FS_EmptySet
  <2>2. PICK x : x \in W!Rows(w, W!Sync)
    BY <2>1
  <2>3. PICK k \in W!Sync, i \in Nat : x = <<k, i>> /\ 1 <= i /\ i <= Copies(w, k)
    BY <1>1, <2>2, RowsMember
  <2>4. Copies(w, k) \in Nat /\ Copies(w, k) > 0
    BY <1>3, <2>3
  <2>5. k \in DOMAIN w \cap W!Sync
    BY <1>1, <2>3, <2>4, CopiesNat
  <2>6. Copies(t, k) = Copies(w, k) - 1
    BY <1>2, <2>5
  <2> DEFINE n == Copies(w, k)
  <2>7. <<k, n>> \in W!Rows(w, W!Urgent)
    <3>1. k \in W!Urgent /\ n \in Nat /\ 1 <= n /\ n <= n
      BY <1>5, <2>4
    <3>2. QED
      BY <1>1, <3>1, RowsMember
  <2>8. <<k, n>> \notin W!Rows(t, W!Urgent)
    <3>1. ASSUME NEW j \in W!Urgent, NEW m \in Nat, <<k, n>> = <<j, m>> PROVE ~(m <= Copies(t, j))
      BY <2>4, <2>6, <3>1
    <3>2. QED
      BY <1>2, <3>1, RowsMember
  <2>9. QED
    BY <2>7, <2>8
<1>10. Workspace(t)
  <2>1. IsFiniteSet(W!Rows(t, W!Kinds))
    BY <1>7, FS_Subset DEF Workspace
  <2>2. QED
    BY <1>1, <1>2, <2>1 DEF Workspace
<1>11. QED
  BY <1>4, <1>6, <1>8, <1>9, <1>10

\* Shares are rounded: what grows does not round lower.
LEMMA HalvesBounds ==
    ASSUME NEW n \in Nat, NEW d \in Nat, d > 0
    PROVE  /\ W!Round(n, d) \in Nat
           /\ W!Round(n, d) * (2 * d) <= 2 * n + d
           /\ 2 * n + d < W!Round(n, d) * (2 * d) + 2 * d
<1>1. 2 * n + d \in Nat /\ 2 * d \in Nat /\ 2 * d > 0
  OBVIOUS
<1>2. QED
  BY <1>1, DivBounds DEF W!Round

LEMMA RoundOrder ==
    ASSUME NEW m \in Nat, NEW n \in Nat, m <= n, NEW d \in Nat, d > 0
    PROVE  W!Round(m, d) <= W!Round(n, d)
<1> DEFINE x == W!Round(m, d)
           y == W!Round(n, d)
           e == 2 * d
<1>1. x \in Nat /\ x * e <= 2 * m + d
  BY HalvesBounds
<1>2. y \in Nat /\ 2 * n + d < y * e + e
  BY HalvesBounds
<1>3. e \in Nat /\ e > 0
  OBVIOUS
<1>4. 2 * m + d \in Nat /\ 2 * n + d \in Nat /\ 2 * m + d <= 2 * n + d
  OBVIOUS
<1>5. x * e \in Nat /\ y * e \in Nat
  <2> HIDE DEF x, y, e
  <2>1. QED
    BY <1>1, <1>2, <1>3
<1> DEFINE p == x * e
           q == y * e
<1>6. p < q + e
  <2> HIDE DEF p, q, x, y, e
  <2>1. p \in Nat /\ q \in Nat
    BY <1>5 DEF p, q
  <2>2. p <= 2 * m + d /\ 2 * n + d < q + e
    BY <1>1, <1>2 DEF p, q
  <2>3. QED
    BY <1>3, <1>4, <2>1, <2>2
<1>7. QED
  <2> HIDE DEF x, y, e
  <2>1. x <= y
    BY <1>1, <1>2, <1>3, <1>6, MulLess
  <2>2. QED
    BY <2>1 DEF x, y

LEMMA ShareOrder ==
    ASSUME NEW m \in Nat, NEW n \in Nat, m <= n, NEW d \in Nat
    PROVE  W!Share(m, d) \in Nat /\ W!Share(n, d) \in Nat /\ W!Share(m, d) <= W!Share(n, d)
<1>1. CASE d = 0
  BY <1>1 DEF W!Share, W!Neutral
<1>2. CASE d > 0
  <2>1. 100 * m \in Nat /\ 100 * n \in Nat /\ 100 * m <= 100 * n
    OBVIOUS
  <2>2. W!Round(100 * m, d) \in Nat /\ W!Round(100 * n, d) \in Nat
    BY <1>2, <2>1, HalvesBounds
  <2>3. W!Round(100 * m, d) <= W!Round(100 * n, d)
    BY <1>2, <2>1, RoundOrder
  <2>4. QED
    BY <1>2, <2>2, <2>3 DEF W!Share
<1>3. QED
  BY <1>1, <1>2

\* Of one row less the same part is no smaller a share.
LEMMA ShareOfFewer ==
    ASSUME NEW m \in Nat, NEW d \in Nat, d > 0, m <= d - 1
    PROVE  W!Share(m, d) <= W!Share(m, d - 1)
<1>1. CASE d = 1
  <2>1. m = 0
    BY <1>1
  <2>2. W!Share(m, d) = 0
    BY <1>1, <2>1 DEF W!Share, W!Round
  <2>3. W!Share(m, d - 1) = 70
    BY <1>1 DEF W!Share, W!Neutral
  <2>4. QED
    BY <2>2, <2>3
<1>2. CASE d > 1
  <2> DEFINE x == W!Round(100 * m, d)
             y == W!Round(100 * m, d - 1)
  <2>1. x \in Nat /\ x * (2 * d) <= 200 * m + d
    BY HalvesBounds
  <2>2. y \in Nat /\ 200 * m + (d - 1) < y * (2 * (d - 1)) + 2 * (d - 1)
    BY <1>2, HalvesBounds
  <2>3. W!Share(m, d) = x /\ W!Share(m, d - 1) = y
    BY <1>2 DEF W!Share
  <2> HIDE DEF x, y
  <2>4. CASE x = 0
    BY <2>2, <2>3, <2>4
  <2>5. CASE x > 0
    <3> DEFINE e == 2 * (d - 1)
               p == x * e
               q == y * e
    <3>1. e \in Nat /\ e > 0
      BY <1>2
    <3>2. x * (2 * d) = p + 2 * x
      BY <2>1
    <3>3. p \in Nat /\ q \in Nat
      <4> HIDE DEF e
      <4>1. QED
        BY <2>1, <2>2, <3>1
    <3>4. 200 * m + (d - 1) < q + e
      BY <2>2
    <3>5. p < q + e
      <4> HIDE DEF p, q
      <4>1. QED
        BY <1>2, <2>1, <2>5, <3>2, <3>3, <3>4
    <3> HIDE DEF e
    <3>6. x <= y
      BY <2>1, <2>2, <3>1, <3>5, MulLess
    <3>7. QED
      BY <2>3, <3>6
  <2>6. QED
    BY <2>1, <2>4, <2>5
<1>3. QED
  BY <1>1, <1>2

\* Among a hundred one more is at least a percentage.
LEMMA ShareStep ==
    ASSUME NEW m \in Nat, NEW d \in Nat, d > 0, d <= 100
    PROVE  W!Share(m, d) + 1 <= W!Share(m + 1, d)
<1> DEFINE x == W!Round(100 * m, d)
           y == W!Round(100 * (m + 1), d)
           e == 2 * d
           p == x * e
           q == y * e
<1>1. x \in Nat /\ p <= 200 * m + d
  BY HalvesBounds
<1>2. y \in Nat /\ 200 * (m + 1) + d < q + e
  BY HalvesBounds
<1>3. W!Share(m, d) = x /\ W!Share(m + 1, d) = y
  BY DEF W!Share
<1>4. e \in Nat /\ e > 0
  OBVIOUS
<1>5. (x + 1) * e = p + e /\ p \in Nat /\ q \in Nat
  <2> HIDE DEF x, y, e
  <2>1. QED
    BY <1>1, <1>2, <1>4
<1>6. p + e < q + e
  <2> HIDE DEF p, q
  <2>1. QED
    BY <1>1, <1>2, <1>5
<1>7. x + 1 <= y
  <2>1. (x + 1) * e < y * e + e
    BY <1>5, <1>6
  <2> HIDE DEF x, y, e
  <2>2. QED
    BY <1>1, <1>2, <1>4, <2>1, MulLess
<1>8. QED
  BY <1>3, <1>7

-----------------------------------------------------------------------------
(* CommandCenter: what the drivers make of one row turned *)

\* One row of a workspace turned into another.
Move(w, a, b, t) ==
    /\ Workspace(w)
    /\ a \in DOMAIN w
    /\ b \in W!Kinds
    /\ a # b
    /\ t = W!Turned(w, a, b)

LEMMA Moved ==
    ASSUME NEW w, NEW a, NEW b, NEW t, Move(w, a, b, t), NEW ks \in SUBSET W!Kinds
    PROVE  /\ W!Count(w, ks) \in Nat /\ W!Count(t, ks) \in Nat
           /\ a \in ks /\ b \in ks => W!Count(t, ks) = W!Count(w, ks)
           /\ a \notin ks /\ b \notin ks => W!Count(t, ks) = W!Count(w, ks)
           /\ a \in ks /\ b \notin ks => W!Count(w, ks) = W!Count(t, ks) + 1
           /\ a \notin ks /\ b \in ks => W!Count(t, ks) = W!Count(w, ks) + 1
<1>1. /\ W!Count(w, ks) \in Nat /\ W!Count(t, ks) \in Nat
      /\ W!Count(t, ks) = W!Count(w, ks) - In(a, ks) + In(b, ks)
  BY TurnedCount DEF Move
<1>2. In(a, ks) = (IF a \in ks THEN 1 ELSE 0) /\ In(b, ks) = (IF b \in ks THEN 1 ELSE 0)
  BY DEF In
<1>3. QED
  BY <1>1, <1>2

\* The rows of some kinds that keep, lose or gain the one that is turned.
LEMMA Kept ==
    ASSUME NEW w, NEW a, NEW b, NEW t, Move(w, a, b, t), NEW ks \in SUBSET W!Kinds,
           \/ a \in ks /\ b \in ks
           \/ a \notin ks /\ b \notin ks
    PROVE  W!Count(w, ks) \in Nat /\ W!Count(t, ks) = W!Count(w, ks)
  BY Moved

LEMMA Lost ==
    ASSUME NEW w, NEW a, NEW b, NEW t, Move(w, a, b, t), NEW ks \in SUBSET W!Kinds,
           a \in ks, b \notin ks
    PROVE  W!Count(w, ks) \in Nat /\ W!Count(t, ks) \in Nat /\ W!Count(w, ks) = W!Count(t, ks) + 1
  BY Moved

LEMMA Gained ==
    ASSUME NEW w, NEW a, NEW b, NEW t, Move(w, a, b, t), NEW ks \in SUBSET W!Kinds,
           a \notin ks, b \in ks
    PROVE  W!Count(w, ks) \in Nat /\ W!Count(t, ks) \in Nat /\ W!Count(t, ks) = W!Count(w, ks) + 1
  BY Moved

LEMMA MovedWorkspace ==
    ASSUME NEW w, NEW a, NEW b, NEW t, Move(w, a, b, t)
    PROVE  Workspace(w) /\ Workspace(t) /\ a \in W!Kinds
  BY TurnedCount DEF Move, Workspace

\* The kinds that the drivers count.
Undone == W!Tasks \ {"task done"}
Late == {"task overdue"}
Due == {"fund due"}
Cold == {"deal small cold", "deal big cold"}
Small == {"deal small", "deal small cold"}
Big == {"deal big", "deal big cold"}
Closed == {"deal won", "deal lost"}
Won == {"deal won"}
Approved == {"approved", "approved expiring", "approved lapsed"}
Active == {"program active", "program renewing"}
Awaited == {"program pending"}
Met == {"requirement met"}
Unmet == {"requirement unmet"}
Reps == {"rep"}

\* The kinds that a driver counts are kinds.
LEMMA KindSets ==
    /\ Undone \in SUBSET W!Kinds /\ Late \in SUBSET W!Kinds
    /\ W!Funds \in SUBSET W!Kinds /\ Due \in SUBSET W!Kinds
    /\ W!OpenDeals \in SUBSET W!Kinds /\ Cold \in SUBSET W!Kinds
    /\ Small \in SUBSET W!Kinds
    /\ Big \in SUBSET W!Kinds
    /\ Closed \in SUBSET W!Kinds /\ Won \in SUBSET W!Kinds
    /\ Approved \in SUBSET W!Kinds
    /\ W!Documents \in SUBSET W!Kinds
    /\ Active \in SUBSET W!Kinds
    /\ Awaited \in SUBSET W!Kinds /\ W!Programs \in SUBSET W!Kinds
    /\ Met \in SUBSET W!Kinds /\ Unmet \in SUBSET W!Kinds /\ W!Requirements \in SUBSET W!Kinds
    /\ Reps \in SUBSET W!Kinds /\ W!Urgent \in SUBSET W!Kinds
  BY DEF W!Kinds, W!Tasks, W!Funds, W!Deals, W!OpenDeals, W!Documents, W!Milestones, W!Programs,
         W!Requirements, W!Urgent, W!Sync,
         Undone, Late, Due, Cold, Small, Big, Closed, Won, Approved, Active, Awaited, Met, Unmet, Reps

LEMMA Difference == \A x, y \in Nat : y <= x => x - y \in Nat
  OBVIOUS

LEMMA Penalty == \A x \in Nat : 100 - W!AtMost(25 * x, 100) \in Nat
  BY DEF W!AtMost

\* Every driver is a number.
LEMMA DriversNat ==
    ASSUME NEW w, Workspace(w)
    PROVE  /\ W!TasksDriver(w) \in Nat /\ W!FundsDriver(w) \in Nat /\ W!DealsDriver(w) \in Nat
           /\ W!EvidenceDriver(w) \in Nat /\ W!ProgramsDriver(w) \in Nat /\ W!TierDriver(w) \in Nat
           /\ W!Count(w, Undone) - W!Count(w, Late) \in Nat
           /\ W!Count(w, W!OpenDeals) - W!Count(w, Cold) \in Nat
<1>1. \A ks \in SUBSET W!Kinds : W!Count(w, ks) \in Nat
  BY CountNat
<1>2. W!Count(w, Undone) - W!Count(w, Late) \in Nat
  <2>1. Late \in SUBSET Undone
    BY DEF W!Tasks, Undone, Late
  <2>2. W!Count(w, Late) <= W!Count(w, Undone)
    BY <2>1, KindSets, CountPart
  <2>3. W!Count(w, Late) \in Nat /\ W!Count(w, Undone) \in Nat
    BY <1>1, KindSets
  <2>4. QED
    BY <2>2, <2>3, Difference
<1>3. W!Count(w, W!OpenDeals) - W!Count(w, Cold) \in Nat
  <2>1. Cold \in SUBSET W!OpenDeals
    BY DEF W!OpenDeals, Cold
  <2>2. W!Count(w, Cold) <= W!Count(w, W!OpenDeals)
    BY <2>1, KindSets, CountPart
  <2>3. W!Count(w, Cold) \in Nat /\ W!Count(w, W!OpenDeals) \in Nat
    BY <1>1, KindSets
  <2>4. QED
    BY <2>2, <2>3, Difference
<1>4. \A m, d \in Nat : W!Share(m, d) \in Nat
  <2>1. TAKE m, d \in Nat
  <2>2. m <= m
    OBVIOUS
  <2>3. QED
    BY <2>2, ShareOrder
<1>5. W!TasksDriver(w) \in Nat
  <2>1. W!Count(w, Undone) \in Nat
    BY <1>1, KindSets
  <2>2. QED
    BY <1>2, <1>4, <2>1 DEF W!TasksDriver, Undone, Late
<1>6. W!DealsDriver(w) \in Nat
  <2>1. W!Count(w, W!OpenDeals) \in Nat
    BY <1>1, KindSets
  <2>2. QED
    BY <1>3, <1>4, <2>1 DEF W!DealsDriver, Cold
<1>7. W!FundsDriver(w) \in Nat
  <2>1. W!Count(w, Due) \in Nat
    BY <1>1, KindSets
  <2>2. QED
    BY <2>1, Penalty DEF W!FundsDriver, Due, W!Neutral
<1>8. W!EvidenceDriver(w) \in Nat
  <2>1. /\ W!Count(w, Approved) \in Nat
        /\ W!Count(w, W!Documents) \in Nat
    BY <1>1, KindSets
  <2>2. QED
    BY <1>4, <2>1 DEF W!EvidenceDriver, Approved
<1>9. W!ProgramsDriver(w) \in Nat
  <2>1. /\ W!Count(w, Active) \in Nat
        /\ W!Count(w, Awaited) \in Nat /\ W!Count(w, W!Programs) \in Nat
    BY <1>1, KindSets
  <2> DEFINE x == W!Count(w, Active)
             y == W!Count(w, Awaited)
             z == W!Count(w, W!Programs)
  <2>2. 2 * x + y \in Nat /\ 2 * z \in Nat
    <3>1. x \in Nat /\ y \in Nat /\ z \in Nat
      BY <2>1
    <3> HIDE DEF x, y, z
    <3>2. QED
      BY <3>1
  <2>3. QED
    BY <1>4, <2>2 DEF W!ProgramsDriver, Active, Awaited
<1>10. W!TierDriver(w) \in Nat
  <2>1. W!Count(w, Met) \in Nat /\ W!Count(w, W!Requirements) \in Nat
    BY <1>1, KindSets
  <2>2. QED
    BY <1>4, <2>1 DEF W!TierDriver, Met
<1>11. QED
  BY <1>2, <1>3, <1>5, <1>6, <1>7, <1>8, <1>9, <1>10

\* No driver falls: nor does the score.
Better(w, t) ==
    /\ W!TasksDriver(w) <= W!TasksDriver(t)
    /\ W!FundsDriver(w) <= W!FundsDriver(t)
    /\ W!DealsDriver(w) <= W!DealsDriver(t)
    /\ W!EvidenceDriver(w) <= W!EvidenceDriver(t)
    /\ W!ProgramsDriver(w) <= W!ProgramsDriver(t)
    /\ W!TierDriver(w) <= W!TierDriver(t)

LEMMA HealthOrder ==
    ASSUME NEW w, Workspace(w), NEW t, Workspace(t), Better(w, t)
    PROVE  W!Health(w) \in Nat /\ W!Health(t) \in Nat /\ W!Health(w) <= W!Health(t)
<1> DEFINE x == 20 * W!EvidenceDriver(w) + 15 * W!FundsDriver(w) + 20 * W!DealsDriver(w)
                    + 15 * W!ProgramsDriver(w) + 20 * W!TasksDriver(w) + 10 * W!TierDriver(w)
           y == 20 * W!EvidenceDriver(t) + 15 * W!FundsDriver(t) + 20 * W!DealsDriver(t)
                    + 15 * W!ProgramsDriver(t) + 20 * W!TasksDriver(t) + 10 * W!TierDriver(t)
<1>1. x \in Nat /\ y \in Nat /\ x <= y
  <2>1. /\ W!TasksDriver(w) \in Nat /\ W!FundsDriver(w) \in Nat /\ W!DealsDriver(w) \in Nat
        /\ W!EvidenceDriver(w) \in Nat /\ W!ProgramsDriver(w) \in Nat /\ W!TierDriver(w) \in Nat
    BY DriversNat
  <2>2. /\ W!TasksDriver(t) \in Nat /\ W!FundsDriver(t) \in Nat /\ W!DealsDriver(t) \in Nat
        /\ W!EvidenceDriver(t) \in Nat /\ W!ProgramsDriver(t) \in Nat /\ W!TierDriver(t) \in Nat
    BY DriversNat
  <2>3. QED
    BY <2>1, <2>2 DEF Better
<1>2. W!Health(w) = W!Round(x, 100) /\ W!Health(t) = W!Round(y, 100)
  BY DEF W!Health
<1> HIDE DEF x, y
<1>3. W!Round(x, 100) \in Nat /\ W!Round(y, 100) \in Nat
  <2>1. 100 \in Nat /\ 100 > 0
    OBVIOUS
  <2>2. QED
    BY <1>1, <2>1, HalvesBounds, Zenon
<1>4. W!Round(x, 100) <= W!Round(y, 100)
  BY <1>1, RoundOrder
<1>5. QED
  BY <1>2, <1>3, <1>4

\* A driver rests while no row of its kinds is touched.
LEMMA DriversRest ==
    ASSUME NEW w, NEW a, NEW b, NEW t, Move(w, a, b, t)
    PROVE  /\ a \notin W!Tasks /\ b \notin W!Tasks => W!TasksDriver(t) = W!TasksDriver(w)
           /\ a \notin W!Funds /\ b \notin W!Funds => W!FundsDriver(t) = W!FundsDriver(w)
           /\ a \notin W!Deals /\ b \notin W!Deals => W!DealsDriver(t) = W!DealsDriver(w)
           /\ a \notin W!Documents /\ b \notin W!Documents => W!EvidenceDriver(t) = W!EvidenceDriver(w)
           /\ a \notin W!Programs /\ b \notin W!Programs => W!ProgramsDriver(t) = W!ProgramsDriver(w)
           /\ a \notin W!Requirements /\ b \notin W!Requirements => W!TierDriver(t) = W!TierDriver(w)
<1>1. \A ks \in SUBSET W!Kinds : a \notin ks /\ b \notin ks => W!Count(t, ks) = W!Count(w, ks)
  BY Moved
<1>2. ASSUME a \notin W!Tasks, b \notin W!Tasks PROVE W!TasksDriver(t) = W!TasksDriver(w)
  <2>1. /\ W!Count(t, Undone) = W!Count(w, Undone)
        /\ W!Count(t, Late) = W!Count(w, Late)
    <3>1. a \notin Late /\ b \notin Late
      BY <1>2 DEF W!Tasks, Late
    <3>2. a \notin Undone /\ b \notin Undone
      BY <1>2 DEF Undone
    <3>3. QED
      BY <1>1, <3>1, <3>2, KindSets
  <2>2. QED
    BY <2>1 DEF W!TasksDriver, Undone, Late
<1>3. ASSUME a \notin W!Funds, b \notin W!Funds PROVE W!FundsDriver(t) = W!FundsDriver(w)
  <2>1. W!Count(t, Due) = W!Count(w, Due)
    <3>1. a \notin Due /\ b \notin Due
      BY <1>3 DEF W!Funds, Due
    <3>2. QED
      BY <1>1, <3>1, KindSets
  <2>2. W!Count(t, W!Funds) = W!Count(w, W!Funds)
    BY <1>1, <1>3, KindSets
  <2>3. QED
    BY <2>1, <2>2 DEF W!FundsDriver, Due
<1>4. ASSUME a \notin W!Deals, b \notin W!Deals PROVE W!DealsDriver(t) = W!DealsDriver(w)
  <2>1. /\ a \notin W!OpenDeals /\ b \notin W!OpenDeals
        /\ a \notin Cold /\ b \notin Cold
    BY <1>4 DEF W!Deals, W!OpenDeals, Cold
  <2>2. /\ W!Count(t, W!OpenDeals) = W!Count(w, W!OpenDeals)
        /\ W!Count(t, Cold) = W!Count(w, Cold)
    BY <1>1, <2>1, KindSets
  <2>3. QED
    BY <2>2 DEF W!DealsDriver, Cold
<1>5. ASSUME a \notin W!Documents, b \notin W!Documents PROVE W!EvidenceDriver(t) = W!EvidenceDriver(w)
  <2>1. /\ a \notin Approved
        /\ b \notin Approved
    BY <1>5 DEF W!Documents, Approved
  <2>2. /\ W!Count(t, W!Documents) = W!Count(w, W!Documents)
        /\ W!Count(t, Approved)
           = W!Count(w, Approved)
    BY <1>1, <1>5, <2>1, KindSets
  <2>3. QED
    BY <2>2 DEF W!EvidenceDriver, Approved
<1>6. ASSUME a \notin W!Programs, b \notin W!Programs PROVE W!ProgramsDriver(t) = W!ProgramsDriver(w)
  <2>1. /\ a \notin Active /\ b \notin Active
        /\ a \notin Awaited /\ b \notin Awaited
    BY <1>6 DEF W!Programs, Active, Awaited
  <2>2. /\ W!Count(t, W!Programs) = W!Count(w, W!Programs)
        /\ W!Count(t, Awaited) = W!Count(w, Awaited)
        /\ W!Count(t, Active) = W!Count(w, Active)
    BY <1>1, <1>6, <2>1, KindSets
  <2>3. QED
    BY <2>2 DEF W!ProgramsDriver, Active, Awaited
<1>7. ASSUME a \notin W!Requirements, b \notin W!Requirements PROVE W!TierDriver(t) = W!TierDriver(w)
  <2>1. a \notin Met /\ b \notin Met
    BY <1>7 DEF W!Requirements, Met
  <2>2. /\ W!Count(t, W!Requirements) = W!Count(w, W!Requirements)
        /\ W!Count(t, Met) = W!Count(w, Met)
    BY <1>1, <1>7, <2>1, KindSets
  <2>3. QED
    BY <2>2 DEF W!TierDriver, Met
<1>8. QED
  BY <1>2, <1>3, <1>4, <1>5, <1>6, <1>7

\* The relationships cool as before while the deals are worth what they were.
LEMMA CoolingRests ==
    ASSUME NEW w, NEW a, NEW b, NEW t, Move(w, a, b, t),
           a \in Small <=> b \in Small, a \in Big <=> b \in Big, a \in Closed <=> b \in Closed,
           a \in Won <=> b \in Won, a \in Reps <=> b \in Reps
    PROVE  W!Cooling(t) = W!Cooling(w)
<1>1. ASSUME NEW ks \in SUBSET W!Kinds, a \in ks <=> b \in ks PROVE W!Count(t, ks) = W!Count(w, ks)
  <2>1. CASE a \in ks
    BY <1>1, <2>1, Moved
  <2>2. CASE a \notin ks
    BY <1>1, <2>2, Moved
  <2>3. QED
    BY <2>1, <2>2
<1>2. /\ W!Count(t, Small) = W!Count(w, Small)
      /\ W!Count(t, Big) = W!Count(w, Big)
      /\ W!Count(t, Closed) = W!Count(w, Closed)
      /\ W!Count(t, Won) = W!Count(w, Won)
      /\ W!Count(t, Reps) = W!Count(w, Reps)
  BY <1>1, KindSets
<1>3. W!OpenValue(t) = W!OpenValue(w)
  BY <1>2 DEF W!OpenValue, Small, Big
<1>4. W!Momentum(t) = W!Momentum(w)
  BY <1>2, <1>3 DEF W!Momentum, Closed, Won
<1>5. W!AtStake(t) = W!AtStake(w)
  BY <1>3, <1>4 DEF W!AtStake
<1>6. QED
  BY <1>2, <1>5 DEF W!Cooling, Reps

LEMMA CoolingNat == ASSUME NEW w, Workspace(w) PROVE W!Cooling(w) \in Nat /\ W!Count(w, W!Urgent) \in Nat
<1>1. W!Count(w, Reps) \in Nat /\ W!Count(w, W!Urgent) \in Nat
  BY KindSets, CountNat
<1>2. QED
  BY <1>1 DEF W!Cooling, Reps

-----------------------------------------------------------------------------
(* CommandCenter: each driver and each move *)

\* What a move turns a row into.
LEMMA MoveTable ==
    ASSUME NEW c \in W!Movable
    PROVE  \/ c \in {"task blocked", "task overdue"} /\ W!Resolved(c) = "task done"
           \/ c = "deal big cold" /\ W!Resolved(c) = "deal won"
           \/ c = "document expiring" /\ W!Resolved(c) = "approved"
           \/ c = "approved expiring" /\ W!Resolved(c) = "approved"
           \/ c = "milestone overdue" /\ W!Resolved(c) = "milestone"
           \/ c = "fund due" /\ W!Resolved(c) = "fund safe"
           \/ c = "requirement unmet" /\ W!Resolved(c) = "requirement met"
<1>1. /\ W!Resolved("task blocked") = "task done" /\ W!Resolved("task overdue") = "task done"
      /\ W!Resolved("deal big cold") = "deal won"
      /\ W!Resolved("document expiring") = "approved" /\ W!Resolved("approved expiring") = "approved"
      /\ W!Resolved("milestone overdue") = "milestone"
      /\ W!Resolved("fund due") = "fund safe"
      /\ W!Resolved("requirement unmet") = "requirement met"
  BY DEF W!Resolved, W!Tasks, W!Deals, W!OpenDeals, W!Documents, W!Milestones, W!Funds, W!Requirements
<1>2. QED
  BY <1>1 DEF W!Movable

\* What days turn a row into.
LEMMA AgedTable ==
    ASSUME NEW c \in DOMAIN W!Aged
    PROVE  \/ c \in {"task open", "task blocked"} /\ W!Aged[c] = "task overdue"
           \/ c = "fund safe" /\ W!Aged[c] = "fund due"
           \/ c = "deal small" /\ W!Aged[c] = "deal small cold"
           \/ c = "deal big" /\ W!Aged[c] = "deal big cold"
           \/ c = "document" /\ W!Aged[c] = "document expiring"
           \/ c = "document expiring" /\ W!Aged[c] = "document"
           \/ c = "approved" /\ W!Aged[c] = "approved expiring"
           \/ c = "approved expiring" /\ W!Aged[c] = "approved lapsed"
           \/ c = "milestone" /\ W!Aged[c] = "milestone soon"
           \/ c = "milestone soon" /\ W!Aged[c] = "milestone overdue"
           \/ c = "program active" /\ W!Aged[c] = "program renewing"
<1> DEFINE later(k) ==
        CASE k \in W!Tasks -> "task overdue"
          [] k = "fund safe" -> "fund due"
          [] k = "deal small" -> "deal small cold"
          [] k = "deal big" -> "deal big cold"
          [] k = "document" -> "document expiring"
          [] k = "document expiring" -> "document"
          [] k = "approved" -> "approved expiring"
          [] k = "approved expiring" -> "approved lapsed"
          [] k = "milestone" -> "milestone soon"
          [] k = "milestone soon" -> "milestone overdue"
          [] k = "program active" -> "program renewing"
<1>1. /\ c \in {"task open", "task blocked", "fund safe", "deal small", "deal big",
                "document", "document expiring", "approved", "approved expiring",
                "milestone", "milestone soon", "program active"}
      /\ W!Aged[c] = later(c)
  <2> HIDE DEF later
  <2>1. W!Aged = [k \in {"task open", "task blocked", "fund safe", "deal small", "deal big",
                         "document", "document expiring", "approved", "approved expiring",
                         "milestone", "milestone soon", "program active"} |-> later(k)]
    BY Zenon DEF W!Aged, later
  <2>2. QED
    BY <2>1
<1>2. /\ later("task open") = "task overdue" /\ later("task blocked") = "task overdue"
      /\ later("fund safe") = "fund due"
      /\ later("deal small") = "deal small cold" /\ later("deal big") = "deal big cold"
      /\ later("document") = "document expiring" /\ later("document expiring") = "document"
      /\ later("approved") = "approved expiring" /\ later("approved expiring") = "approved lapsed"
      /\ later("milestone") = "milestone soon" /\ later("milestone soon") = "milestone overdue"
      /\ later("program active") = "program renewing"
  BY DEF W!Tasks
<1> HIDE DEF later
<1>3. QED
  BY <1>1, <1>2, ZenonT(40)

\* Which kinds are of one group.
LEMMA Groups ==
    \A a :
       /\ a \in W!Tasks <=> a \in {"task open", "task blocked", "task overdue", "task done"}
       /\ a \in W!Funds <=> a \in {"fund safe", "fund due"}
       /\ a \in W!OpenDeals <=> a \in {"deal small", "deal small cold", "deal big", "deal big cold"}
       /\ a \in W!Deals <=> a \in {"deal small", "deal small cold", "deal big", "deal big cold",
                                   "deal won", "deal lost"}
       /\ a \in W!Documents <=> a \in {"document", "document expiring", "approved",
                                       "approved expiring", "approved lapsed"}
       /\ a \in W!Programs <=> a \in {"program active", "program renewing", "program pending",
                                      "program expired"}
       /\ a \in W!Requirements <=> a \in {"requirement met", "requirement unmet"}
       /\ a \in W!Urgent <=> a \in {"task blocked", "task overdue", "fund due", "deal big cold",
              "document expiring", "approved expiring", "approved lapsed", "milestone soon",
              "milestone overdue", "program renewing", "program expired", "sync stale", "sync drift"}
  BY DEF W!Tasks, W!Funds, W!OpenDeals, W!Deals, W!Documents, W!Programs, W!Requirements,
         W!Urgent, W!Sync

\* A task that is done, a deal that is won, a task or a deal that gets late.
LEMMA TasksRise ==
    ASSUME NEW w, NEW a, NEW b, NEW t, Move(w, a, b, t),
           a \in Undone, b \notin Undone, a \in Late, b \notin Late
    PROVE  W!TasksDriver(w) <= W!TasksDriver(t)
<1> DEFINE o == W!Count(w, Undone)
           v == W!Count(w, Late)
           p == W!Count(t, Undone)
           u == W!Count(t, Late)
<1>1. o \in Nat /\ p \in Nat /\ o = p + 1
  <2>1. Undone \in SUBSET W!Kinds
    BY KindSets
  <2>2. QED
    BY <2>1, Lost
<1>2. v \in Nat /\ u \in Nat /\ v = u + 1
  <2>1. Late \in SUBSET W!Kinds
    BY KindSets
  <2>2. QED
    BY <2>1, Lost
<1>3. o - v \in Nat
  BY MovedWorkspace, DriversNat
<1>4. W!TasksDriver(w) = W!Share(o - v, o) /\ W!TasksDriver(t) = W!Share(p - u, p)
  BY DEF W!TasksDriver, Undone, Late
<1> HIDE DEF o, v, p, u
<1>5. o - v = p - u /\ p = o - 1 /\ o > 0 /\ o - v <= o - 1
  BY <1>1, <1>2, <1>3
<1>6. W!Share(o - v, o) <= W!Share(o - v, o - 1)
  BY <1>1, <1>3, <1>5, ShareOfFewer
<1>7. QED
  BY <1>4, <1>5, <1>6

LEMMA TasksFall ==
    ASSUME NEW w, NEW a, NEW b, NEW t, Move(w, a, b, t),
           a \in Undone, b \in Undone, a \notin Late, b \in Late
    PROVE  W!TasksDriver(t) <= W!TasksDriver(w)
<1> DEFINE o == W!Count(w, Undone)
           v == W!Count(w, Late)
           p == W!Count(t, Undone)
           u == W!Count(t, Late)
<1>1. o \in Nat /\ p = o
  <2>1. Undone \in SUBSET W!Kinds
    BY KindSets
  <2>2. QED
    BY <2>1, Kept
<1>2. v \in Nat /\ u \in Nat /\ u = v + 1
  <2>1. Late \in SUBSET W!Kinds
    BY KindSets
  <2>2. QED
    BY <2>1, Gained
<1>3. p - u \in Nat /\ o - v \in Nat
  BY MovedWorkspace, DriversNat
<1>4. W!TasksDriver(w) = W!Share(o - v, o) /\ W!TasksDriver(t) = W!Share(p - u, p)
  BY DEF W!TasksDriver, Undone, Late
<1> HIDE DEF o, v, p, u
<1>5. o - u \in Nat /\ o - u <= o - v
  BY <1>1, <1>2, <1>3
<1>6. W!Share(o - u, o) <= W!Share(o - v, o)
  BY <1>1, <1>3, <1>5, ShareOrder
<1>7. QED
  BY <1>1, <1>4, <1>6

LEMMA DealsRise ==
    ASSUME NEW w, NEW a, NEW b, NEW t, Move(w, a, b, t),
           a \in W!OpenDeals, b \notin W!OpenDeals, a \in Cold, b \notin Cold
    PROVE  W!DealsDriver(w) <= W!DealsDriver(t)
<1> DEFINE o == W!Count(w, W!OpenDeals)
           v == W!Count(w, Cold)
           p == W!Count(t, W!OpenDeals)
           u == W!Count(t, Cold)
<1>1. o \in Nat /\ p \in Nat /\ o = p + 1
  <2>1. W!OpenDeals \in SUBSET W!Kinds
    BY KindSets
  <2>2. QED
    BY <2>1, Lost
<1>2. v \in Nat /\ u \in Nat /\ v = u + 1
  <2>1. Cold \in SUBSET W!Kinds
    BY KindSets
  <2>2. QED
    BY <2>1, Lost
<1>3. o - v \in Nat
  BY MovedWorkspace, DriversNat
<1>4. W!DealsDriver(w) = W!Share(o - v, o) /\ W!DealsDriver(t) = W!Share(p - u, p)
  BY DEF W!DealsDriver, Cold
<1> HIDE DEF o, v, p, u
<1>5. o - v = p - u /\ p = o - 1 /\ o > 0 /\ o - v <= o - 1
  BY <1>1, <1>2, <1>3
<1>6. W!Share(o - v, o) <= W!Share(o - v, o - 1)
  BY <1>1, <1>3, <1>5, ShareOfFewer
<1>7. QED
  BY <1>4, <1>5, <1>6

LEMMA DealsFall ==
    ASSUME NEW w, NEW a, NEW b, NEW t, Move(w, a, b, t),
           a \in W!OpenDeals, b \in W!OpenDeals, a \notin Cold, b \in Cold
    PROVE  W!DealsDriver(t) <= W!DealsDriver(w)
<1> DEFINE o == W!Count(w, W!OpenDeals)
           v == W!Count(w, Cold)
           p == W!Count(t, W!OpenDeals)
           u == W!Count(t, Cold)
<1>1. o \in Nat /\ p = o
  <2>1. W!OpenDeals \in SUBSET W!Kinds
    BY KindSets
  <2>2. QED
    BY <2>1, Kept
<1>2. v \in Nat /\ u \in Nat /\ u = v + 1
  <2>1. Cold \in SUBSET W!Kinds
    BY KindSets
  <2>2. QED
    BY <2>1, Gained
<1>3. p - u \in Nat /\ o - v \in Nat
  BY MovedWorkspace, DriversNat
<1>4. W!DealsDriver(w) = W!Share(o - v, o) /\ W!DealsDriver(t) = W!Share(p - u, p)
  BY DEF W!DealsDriver, Cold
<1> HIDE DEF o, v, p, u
<1>5. o - u \in Nat /\ o - u <= o - v
  BY <1>1, <1>2, <1>3
<1>6. W!Share(o - u, o) <= W!Share(o - v, o)
  BY <1>1, <1>3, <1>5, ShareOrder
<1>7. QED
  BY <1>1, <1>4, <1>6

\* The penalty of funds at risk grows with their number.
LEMMA PenaltyOrder ==
    \A x, y \in Nat : x <= y => 100 - W!AtMost(25 * y, 100) <= 100 - W!AtMost(25 * x, 100)
  BY DEF W!AtMost

LEMMA FundsRise ==
    ASSUME NEW w, NEW a, NEW b, NEW t, Move(w, a, b, t), a \in W!Funds, b \in W!Funds
    PROVE  /\ a \in Due /\ b \notin Due => W!FundsDriver(w) <= W!FundsDriver(t)
           /\ a \notin Due /\ b \in Due => W!FundsDriver(t) <= W!FundsDriver(w)
<1> DEFINE n == W!Count(w, W!Funds)
           m == W!Count(t, W!Funds)
           x == W!Count(w, Due)
           y == W!Count(t, Due)
<1>1. W!Funds \in SUBSET W!Kinds /\ Due \in SUBSET W!Kinds
  BY KindSets
<1>2. n \in Nat /\ m = n
  BY <1>1, Kept
<1>3. W!FundsDriver(w) = (IF n = 0 THEN 70 ELSE 100 - W!AtMost(25 * x, 100))
      /\ W!FundsDriver(t) = (IF m = 0 THEN 70 ELSE 100 - W!AtMost(25 * y, 100))
  BY DEF W!FundsDriver, Due, W!Neutral
<1>4. a \in Due /\ b \notin Due => x \in Nat /\ y \in Nat /\ x = y + 1
  BY <1>1, Lost
<1>5. a \notin Due /\ b \in Due => x \in Nat /\ y \in Nat /\ y = x + 1
  BY <1>1, Gained
<1> HIDE DEF n, m, x, y
<1>6. ASSUME a \in Due, b \notin Due PROVE W!FundsDriver(w) <= W!FundsDriver(t)
  <2>1. 100 - W!AtMost(25 * x, 100) <= 100 - W!AtMost(25 * y, 100)
    <3>1. x \in Nat /\ y \in Nat /\ y <= x
      BY <1>4, <1>6
    <3>2. QED
      BY <3>1, PenaltyOrder
  <2>2. QED
    BY <1>2, <1>3, <2>1
<1>7. ASSUME a \notin Due, b \in Due PROVE W!FundsDriver(t) <= W!FundsDriver(w)
  <2>1. 100 - W!AtMost(25 * y, 100) <= 100 - W!AtMost(25 * x, 100)
    <3>1. x \in Nat /\ y \in Nat /\ x <= y
      BY <1>5, <1>7
    <3>2. QED
      BY <3>1, PenaltyOrder
  <2>2. QED
    BY <1>2, <1>3, <2>1
<1>8. QED
  BY <1>6, <1>7

\* A document that is approved raises the share of approved ones; what is
\* approved or is not counts as before, whatever day it is.
LEMMA EvidenceRises ==
    ASSUME NEW w, NEW a, NEW b, NEW t, Move(w, a, b, t), a \in W!Documents, b \in W!Documents
    PROVE  /\ b \in Approved => W!EvidenceDriver(w) <= W!EvidenceDriver(t)
           /\ a \in Approved /\ b \in Approved => W!EvidenceDriver(t) = W!EvidenceDriver(w)
           /\ a \notin Approved /\ b \notin Approved => W!EvidenceDriver(t) = W!EvidenceDriver(w)
<1> DEFINE n == W!Count(w, W!Documents)
           m == W!Count(t, W!Documents)
           x == W!Count(w, Approved)
           y == W!Count(t, Approved)
<1>1. W!Documents \in SUBSET W!Kinds /\ Approved \in SUBSET W!Kinds
  BY KindSets
<1>2. n \in Nat /\ m = n
  BY <1>1, Kept
<1>3. W!EvidenceDriver(w) = W!Share(x, n) /\ W!EvidenceDriver(t) = W!Share(y, m)
  BY DEF W!EvidenceDriver, Approved
<1>4. /\ a \in Approved /\ b \in Approved => y = x
      /\ a \notin Approved /\ b \notin Approved => y = x
  BY <1>1, Kept
<1>5. a \notin Approved /\ b \in Approved => x \in Nat /\ y \in Nat /\ y = x + 1
  BY <1>1, Gained
<1> HIDE DEF n, m, x, y
<1>6. ASSUME a \notin Approved, b \in Approved PROVE W!EvidenceDriver(w) <= W!EvidenceDriver(t)
  <2>1. x \in Nat /\ y \in Nat /\ x <= y
    BY <1>5, <1>6
  <2>2. W!Share(x, n) <= W!Share(y, n)
    BY <1>2, <2>1, ShareOrder
  <2>3. QED
    BY <1>2, <1>3, <2>2
<1>7. ASSUME a \in Approved, b \in Approved PROVE W!EvidenceDriver(w) <= W!EvidenceDriver(t)
  <2>1. W!EvidenceDriver(t) = W!EvidenceDriver(w)
    BY <1>2, <1>3, <1>4, <1>7
  <2>2. W!EvidenceDriver(w) \in Nat
    BY MovedWorkspace, DriversNat
  <2>3. QED
    BY <2>1, <2>2
<1>8. QED
  BY <1>2, <1>3, <1>4, <1>6, <1>7

\* A program that is to be renewed is still an active one.
LEMMA ProgramsStay ==
    ASSUME NEW w, NEW a, NEW b, NEW t, Move(w, a, b, t), a \in W!Programs, b \in W!Programs,
           a \in Active, b \in Active, a \notin Awaited, b \notin Awaited
    PROVE  W!ProgramsDriver(t) = W!ProgramsDriver(w)
<1>1. W!Programs \in SUBSET W!Kinds /\ Active \in SUBSET W!Kinds /\ Awaited \in SUBSET W!Kinds
  BY KindSets
<1>2. /\ W!Count(t, W!Programs) = W!Count(w, W!Programs)
      /\ W!Count(t, Active) = W!Count(w, Active)
      /\ W!Count(t, Awaited) = W!Count(w, Awaited)
  BY <1>1, Kept
<1>3. QED
  BY <1>2 DEF W!ProgramsDriver, Active, Awaited

\* A requirement that is met raises the tier, by a percentage among a hundred.
LEMMA TierRises ==
    ASSUME NEW w, NEW a, NEW b, NEW t, Move(w, a, b, t),
           a \in W!Requirements, b \in W!Requirements,
           a \notin Met, b \in Met, a \in Unmet, b \notin Unmet
    PROVE  /\ W!Count(w, W!Requirements) \in Nat /\ W!Count(w, W!Requirements) > 0
           /\ W!TierDriver(w) \in Nat /\ W!TierDriver(t) \in Nat
           /\ W!TierDriver(w) <= W!TierDriver(t)
           /\ W!Count(w, W!Requirements) <= 100 => W!TierDriver(w) + 1 <= W!TierDriver(t)
<1> DEFINE n == W!Count(w, W!Requirements)
           m == W!Count(t, W!Requirements)
           x == W!Count(w, Met)
           y == W!Count(t, Met)
           z == W!Count(w, Unmet)
           q == W!Count(t, Unmet)
<1>1. W!Requirements \in SUBSET W!Kinds /\ Met \in SUBSET W!Kinds /\ Unmet \in SUBSET W!Kinds
  BY KindSets
<1>2. n \in Nat /\ m = n
  BY <1>1, Kept
<1>3. x \in Nat /\ y \in Nat /\ y = x + 1
  BY <1>1, Gained
<1>4. z \in Nat /\ q \in Nat /\ z = q + 1
  BY <1>1, Lost
<1>5. z <= n
  <2>1. Unmet \in SUBSET W!Requirements
    BY DEF Unmet, W!Requirements
  <2>2. QED
    BY <1>1, <2>1, MovedWorkspace, CountPart
<1>6. W!TierDriver(w) = W!Share(x, n) /\ W!TierDriver(t) = W!Share(y, m)
  BY DEF W!TierDriver, Met
<1> HIDE DEF n, m, x, y, z, q
<1>7. n > 0
  BY <1>2, <1>4, <1>5
<1>8. W!TierDriver(w) \in Nat /\ W!TierDriver(t) \in Nat /\ W!TierDriver(w) <= W!TierDriver(t)
  <2>1. x <= y
    BY <1>3
  <2>2. QED
    BY <1>2, <1>3, <1>6, <2>1, ShareOrder
<1>9. n <= 100 => W!TierDriver(w) + 1 <= W!TierDriver(t)
  BY <1>2, <1>3, <1>6, <1>7, ShareStep
<1>10. QED
  BY <1>2, <1>7, <1>8, <1>9 DEF n

-----------------------------------------------------------------------------
(* CommandCenter: moves and days *)

\* A kind is of one group.
LEMMA OneGroup ==
    /\ \A a \in W!Tasks : /\ a \notin W!Funds /\ a \notin W!Deals /\ a \notin W!Documents
                          /\ a \notin W!Programs /\ a \notin W!Requirements
    /\ \A a \in W!Funds : /\ a \notin W!Tasks /\ a \notin W!Deals /\ a \notin W!Documents
                          /\ a \notin W!Programs /\ a \notin W!Requirements
    /\ \A a \in W!Deals : /\ a \notin W!Tasks /\ a \notin W!Funds /\ a \notin W!Documents
                          /\ a \notin W!Programs /\ a \notin W!Requirements
    /\ \A a \in W!Documents : /\ a \notin W!Tasks /\ a \notin W!Funds /\ a \notin W!Deals
                              /\ a \notin W!Programs /\ a \notin W!Requirements
    /\ \A a \in W!Programs : /\ a \notin W!Tasks /\ a \notin W!Funds /\ a \notin W!Deals
                             /\ a \notin W!Documents /\ a \notin W!Requirements
    /\ \A a \in W!Requirements : /\ a \notin W!Tasks /\ a \notin W!Funds /\ a \notin W!Deals
                                 /\ a \notin W!Documents /\ a \notin W!Programs
    /\ \A a \in W!Milestones : /\ a \notin W!Tasks /\ a \notin W!Funds /\ a \notin W!Deals
                               /\ a \notin W!Documents /\ a \notin W!Programs /\ a \notin W!Requirements
  BY DEF W!Tasks, W!Funds, W!Deals, W!OpenDeals, W!Documents, W!Programs, 
         W!Requirements, W!Milestones

\* The score follows the driver of the group a row stays in.
LEMMA OneDriver ==
    ASSUME NEW w, NEW a, NEW b, NEW t, Move(w, a, b, t)
    PROVE  /\ a \in W!Tasks /\ b \in W!Tasks /\ W!TasksDriver(w) <= W!TasksDriver(t) => Better(w, t)
           /\ a \in W!Tasks /\ b \in W!Tasks /\ W!TasksDriver(t) <= W!TasksDriver(w) => Better(t, w)
           /\ a \in W!Funds /\ b \in W!Funds /\ W!FundsDriver(w) <= W!FundsDriver(t) => Better(w, t)
           /\ a \in W!Funds /\ b \in W!Funds /\ W!FundsDriver(t) <= W!FundsDriver(w) => Better(t, w)
           /\ a \in W!Deals /\ b \in W!Deals /\ W!DealsDriver(w) <= W!DealsDriver(t) => Better(w, t)
           /\ a \in W!Deals /\ b \in W!Deals /\ W!DealsDriver(t) <= W!DealsDriver(w) => Better(t, w)
           /\ a \in W!Documents /\ b \in W!Documents /\ W!EvidenceDriver(w) <= W!EvidenceDriver(t) => Better(w, t)
           /\ a \in W!Documents /\ b \in W!Documents /\ W!EvidenceDriver(t) <= W!EvidenceDriver(w) => Better(t, w)
           /\ a \in W!Programs /\ b \in W!Programs /\ W!ProgramsDriver(w) <= W!ProgramsDriver(t) => Better(w, t)
           /\ a \in W!Programs /\ b \in W!Programs /\ W!ProgramsDriver(t) <= W!ProgramsDriver(w) => Better(t, w)
           /\ a \in W!Requirements /\ b \in W!Requirements /\ W!TierDriver(w) <= W!TierDriver(t) => Better(w, t)
           /\ a \in W!Requirements /\ b \in W!Requirements /\ W!TierDriver(t) <= W!TierDriver(w) => Better(t, w)
           /\ a \in W!Milestones /\ b \in W!Milestones => Better(w, t) /\ Better(t, w)
<1> DEFINE sameTasks == W!TasksDriver(t) = W!TasksDriver(w)
<1> DEFINE sameFunds == W!FundsDriver(t) = W!FundsDriver(w)
<1> DEFINE sameDeals == W!DealsDriver(t) = W!DealsDriver(w)
<1> DEFINE sameEvidence == W!EvidenceDriver(t) = W!EvidenceDriver(w)
<1> DEFINE samePrograms == W!ProgramsDriver(t) = W!ProgramsDriver(w)
<1> DEFINE sameTier == W!TierDriver(t) = W!TierDriver(w)
<1>1. /\ a \notin W!Tasks /\ b \notin W!Tasks => sameTasks
      /\ a \notin W!Funds /\ b \notin W!Funds => sameFunds
      /\ a \notin W!Deals /\ b \notin W!Deals => sameDeals
      /\ a \notin W!Documents /\ b \notin W!Documents => sameEvidence
      /\ a \notin W!Programs /\ b \notin W!Programs => samePrograms
      /\ a \notin W!Requirements /\ b \notin W!Requirements => sameTier
  BY DriversRest
<1>2. \A u \in {w, t} : /\ W!TasksDriver(u) \in Nat
                           /\ W!FundsDriver(u) \in Nat
                           /\ W!DealsDriver(u) \in Nat
                           /\ W!EvidenceDriver(u) \in Nat
                           /\ W!ProgramsDriver(u) \in Nat
                           /\ W!TierDriver(u) \in Nat
  BY MovedWorkspace, DriversNat
<1>3. ASSUME a \in W!Tasks, b \in W!Tasks PROVE sameFunds /\ sameDeals /\ sameEvidence /\ samePrograms /\ sameTier
  BY <1>1, <1>3, OneGroup
<1>4. ASSUME a \in W!Funds, b \in W!Funds PROVE sameTasks /\ sameDeals /\ sameEvidence /\ samePrograms /\ sameTier
  BY <1>1, <1>4, OneGroup
<1>5. ASSUME a \in W!Deals, b \in W!Deals PROVE sameTasks /\ sameFunds /\ sameEvidence /\ samePrograms /\ sameTier
  BY <1>1, <1>5, OneGroup
<1>6. ASSUME a \in W!Documents, b \in W!Documents PROVE sameTasks /\ sameFunds /\ sameDeals /\ samePrograms /\ sameTier
  BY <1>1, <1>6, OneGroup
<1>7. ASSUME a \in W!Programs, b \in W!Programs PROVE sameTasks /\ sameFunds /\ sameDeals /\ sameEvidence /\ sameTier
  BY <1>1, <1>7, OneGroup
<1>8. ASSUME a \in W!Requirements, b \in W!Requirements PROVE sameTasks /\ sameFunds /\ sameDeals /\ sameEvidence /\ samePrograms
  BY <1>1, <1>8, OneGroup
<1>9. ASSUME a \in W!Milestones, b \in W!Milestones PROVE sameTasks /\ sameFunds /\ sameDeals /\ sameEvidence /\ samePrograms /\ sameTier
  BY <1>1, <1>9, OneGroup
<1>10. QED
  BY <1>2, <1>3, <1>4, <1>5, <1>6, <1>7, <1>8, <1>9 DEF Better

\* Every move but the one of a blocked task lifts the driver of its group.
LEMMA MoveBetter ==
    ASSUME NEW w, NEW c \in W!Movable, c # "task blocked", NEW t, Move(w, c, W!Resolved(c), t)
    PROVE  Better(w, t)
<1> DEFINE b == W!Resolved(c)
<1>1. Move(w, c, b, t)
  OBVIOUS
<1>2. \/ c = "task overdue" /\ b = "task done"
      \/ c = "deal big cold" /\ b = "deal won"
      \/ c \in {"document expiring", "approved expiring"} /\ b = "approved"
      \/ c = "milestone overdue" /\ b = "milestone"
      \/ c = "fund due" /\ b = "fund safe"
      \/ c = "requirement unmet" /\ b = "requirement met"
  BY MoveTable
<1> HIDE DEF b
<1>3. CASE c = "task overdue" /\ b = "task done"
  <2>1. c \in W!Tasks /\ b \in W!Tasks /\ c \in Undone /\ b \notin Undone /\ c \in Late /\ b \notin Late
    BY <1>3 DEF W!Tasks, Undone, Late
  <2>2. QED
    BY <1>1, <2>1, TasksRise, OneDriver
<1>4. CASE c = "deal big cold" /\ b = "deal won"
  <2>1. /\ c \in W!Deals /\ b \in W!Deals /\ c \in W!OpenDeals /\ b \notin W!OpenDeals
        /\ c \in Cold /\ b \notin Cold
    BY <1>4 DEF W!Deals, W!OpenDeals, Cold
  <2>2. QED
    BY <1>1, <2>1, DealsRise, OneDriver
<1>5. CASE c \in {"document expiring", "approved expiring"} /\ b = "approved"
  <2>1. c \in W!Documents /\ b \in W!Documents /\ b \in Approved
    BY <1>5 DEF W!Documents, Approved
  <2>2. W!EvidenceDriver(w) <= W!EvidenceDriver(t)
    BY <1>1, <2>1, EvidenceRises
  <2>3. QED
    BY <1>1, <2>1, <2>2, OneDriver
<1>6. CASE c = "milestone overdue" /\ b = "milestone"
  <2>1. c \in W!Milestones /\ b \in W!Milestones
    BY <1>6 DEF W!Milestones
  <2>2. QED
    BY <1>1, <2>1, OneDriver
<1>7. CASE c = "fund due" /\ b = "fund safe"
  <2>1. c \in W!Funds /\ b \in W!Funds /\ c \in Due /\ b \notin Due
    BY <1>7 DEF W!Funds, Due
  <2>2. QED
    BY <1>1, <2>1, FundsRise, OneDriver
<1>8. CASE c = "requirement unmet" /\ b = "requirement met"
  <2>1. /\ c \in W!Requirements /\ b \in W!Requirements /\ c \notin Met /\ b \in Met
        /\ c \in Unmet /\ b \notin Unmet
    BY <1>8 DEF W!Requirements, Met, Unmet
  <2>2. QED
    BY <1>1, <2>1, TierRises, OneDriver
<1>9. QED
  BY <1>2, <1>3, <1>4, <1>5, <1>6, <1>7, <1>8

\* No passing day does.
LEMMA AgedWorse ==
    ASSUME NEW w, NEW c \in DOMAIN W!Aged, NEW t, Move(w, c, W!Aged[c], t)
    PROVE  Better(t, w)
<1> DEFINE b == W!Aged[c]
<1>1. Move(w, c, b, t)
  OBVIOUS
<1>2. \/ c \in {"task open", "task blocked"} /\ b = "task overdue"
      \/ c = "fund safe" /\ b = "fund due"
      \/ c = "deal small" /\ b = "deal small cold"
      \/ c = "deal big" /\ b = "deal big cold"
      \/ c = "document" /\ b = "document expiring"
      \/ c = "document expiring" /\ b = "document"
      \/ c = "approved" /\ b = "approved expiring"
      \/ c = "approved expiring" /\ b = "approved lapsed"
      \/ c = "milestone" /\ b = "milestone soon"
      \/ c = "milestone soon" /\ b = "milestone overdue"
      \/ c = "program active" /\ b = "program renewing"
  BY AgedTable
<1> HIDE DEF b
<1>3. CASE c \in {"task open", "task blocked"} /\ b = "task overdue"
  <2>1. c \in W!Tasks /\ b \in W!Tasks /\ c \in Undone /\ b \in Undone /\ c \notin Late /\ b \in Late
    BY <1>3 DEF W!Tasks, Undone, Late
  <2>2. QED
    BY <1>1, <2>1, TasksFall, OneDriver
<1>4. CASE c = "fund safe" /\ b = "fund due"
  <2>1. c \in W!Funds /\ b \in W!Funds /\ c \notin Due /\ b \in Due
    BY <1>4 DEF W!Funds, Due
  <2>2. QED
    BY <1>1, <2>1, FundsRise, OneDriver
<1>5. CASE \/ c = "deal small" /\ b = "deal small cold"
           \/ c = "deal big" /\ b = "deal big cold"
  <2>1. /\ c \in W!Deals /\ b \in W!Deals /\ c \in W!OpenDeals /\ b \in W!OpenDeals
        /\ c \notin Cold /\ b \in Cold
    BY <1>5 DEF W!Deals, W!OpenDeals, Cold
  <2>2. QED
    BY <1>1, <2>1, DealsFall, OneDriver
<1>6. CASE \/ c = "document" /\ b = "document expiring"
           \/ c = "document expiring" /\ b = "document"
           \/ c = "approved" /\ b = "approved expiring"
           \/ c = "approved expiring" /\ b = "approved lapsed"
  <2>1. /\ c \in W!Documents /\ b \in W!Documents
        /\ \/ c \in Approved /\ b \in Approved
           \/ c \notin Approved /\ b \notin Approved
    BY <1>6 DEF W!Documents, Approved
  <2>2. W!EvidenceDriver(t) = W!EvidenceDriver(w)
    BY <1>1, <2>1, EvidenceRises
  <2>3. W!EvidenceDriver(w) \in Nat
    BY <1>1, MovedWorkspace, DriversNat
  <2>4. W!EvidenceDriver(t) <= W!EvidenceDriver(w)
    BY <2>2, <2>3
  <2>5. QED
    BY <1>1, <2>1, <2>4, OneDriver
<1>7. CASE \/ c = "milestone" /\ b = "milestone soon"
           \/ c = "milestone soon" /\ b = "milestone overdue"
  <2>1. c \in W!Milestones /\ b \in W!Milestones
    BY <1>7 DEF W!Milestones
  <2>2. QED
    BY <1>1, <2>1, OneDriver
<1>8. CASE c = "program active" /\ b = "program renewing"
  <2>1. /\ c \in W!Programs /\ b \in W!Programs /\ c \in Active /\ b \in Active
        /\ c \notin Awaited /\ b \notin Awaited
    BY <1>8 DEF W!Programs, Active, Awaited
  <2>2. W!ProgramsDriver(t) = W!ProgramsDriver(w)
    BY <1>1, <2>1, ProgramsStay
  <2>3. W!ProgramsDriver(w) \in Nat
    BY <1>1, MovedWorkspace, DriversNat
  <2>4. W!ProgramsDriver(t) <= W!ProgramsDriver(w)
    BY <2>2, <2>3
  <2>5. QED
    BY <1>1, <2>1, <2>4, OneDriver
<1>9. QED
  BY <1>2, <1>3, <1>4, <1>5, <1>6, <1>7, <1>8

\* What a move and a day make of the queue: a relationship may cool for a deal
\* that is won, and a document that was never approved leaves.
LEMMA MoveQueue ==
    ASSUME NEW c \in W!Movable
    PROVE  /\ W!Resolved(c) \in W!Kinds /\ W!Resolved(c) # c
           /\ c # "requirement unmet" => c \in W!Urgent /\ W!Resolved(c) \notin W!Urgent
           /\ c = "requirement unmet" => c \notin W!Urgent /\ W!Resolved(c) \notin W!Urgent
           /\ c # "requirement unmet" => c \notin W!Requirements /\ W!Resolved(c) \notin W!Requirements
           /\ c # "deal big cold" =>
                /\ c \notin Small /\ c \notin Big /\ c \notin Closed /\ c \notin Won /\ c \notin Reps
                /\ W!Resolved(c) \notin Small /\ W!Resolved(c) \notin Big /\ W!Resolved(c) \notin Closed
                /\ W!Resolved(c) \notin Won /\ W!Resolved(c) \notin Reps
<1> DEFINE b == W!Resolved(c)
<1>1. \/ c \in {"task blocked", "task overdue"} /\ b = "task done"
      \/ c = "deal big cold" /\ b = "deal won"
      \/ c = "document expiring" /\ b = "approved"
      \/ c = "approved expiring" /\ b = "approved"
      \/ c = "milestone overdue" /\ b = "milestone"
      \/ c = "fund due" /\ b = "fund safe"
      \/ c = "requirement unmet" /\ b = "requirement met"
  BY MoveTable
<1> HIDE DEF b
<1>2. b \in W!Kinds /\ b # c
  BY <1>1 DEF W!Kinds, W!Tasks, W!Funds, W!Deals, W!Documents, W!Milestones, W!Requirements
<1>3. /\ c # "requirement unmet" => c \in W!Urgent /\ b \notin W!Urgent
      /\ c = "requirement unmet" => c \notin W!Urgent /\ b \notin W!Urgent
  BY <1>1 DEF W!Urgent, W!Sync
<1>4. c # "requirement unmet" => c \notin W!Requirements /\ b \notin W!Requirements
  BY <1>1 DEF W!Requirements
<1>5. c # "deal big cold" =>
        /\ c \notin Small /\ c \notin Big /\ c \notin Closed /\ c \notin Won /\ c \notin Reps
        /\ b \notin Small /\ b \notin Big /\ b \notin Closed /\ b \notin Won /\ b \notin Reps
  BY <1>1 DEF Small, Big, Closed, Won, Reps
<1>6. QED
  BY <1>2, <1>3, <1>4, <1>5 DEF b

LEMMA AgedQueue ==
    ASSUME NEW c \in DOMAIN W!Aged
    PROVE  /\ W!Aged[c] \in W!Kinds /\ W!Aged[c] # c
           /\ c # "document expiring" => c \notin W!Urgent \/ W!Aged[c] \in W!Urgent
           /\ c \in Small <=> W!Aged[c] \in Small
           /\ c \in Big <=> W!Aged[c] \in Big
           /\ c \notin Closed /\ c \notin Won /\ c \notin Reps
           /\ W!Aged[c] \notin Closed /\ W!Aged[c] \notin Won /\ W!Aged[c] \notin Reps
<1> DEFINE b == W!Aged[c]
<1>1. \/ c \in {"task open", "task blocked"} /\ b = "task overdue"
      \/ c = "fund safe" /\ b = "fund due"
      \/ c = "deal small" /\ b = "deal small cold"
      \/ c = "deal big" /\ b = "deal big cold"
      \/ c = "document" /\ b = "document expiring"
      \/ c = "document expiring" /\ b = "document"
      \/ c = "approved" /\ b = "approved expiring"
      \/ c = "approved expiring" /\ b = "approved lapsed"
      \/ c = "milestone" /\ b = "milestone soon"
      \/ c = "milestone soon" /\ b = "milestone overdue"
      \/ c = "program active" /\ b = "program renewing"
  BY AgedTable
<1> HIDE DEF b
<1>2. b \in W!Kinds /\ b # c
  BY <1>1 DEF W!Kinds, W!Tasks, W!Funds, W!Deals, W!OpenDeals, W!Documents, W!Milestones, W!Programs
<1>3. c # "document expiring" => c \notin W!Urgent \/ b \in W!Urgent
  BY <1>1 DEF W!Urgent, W!Sync
<1>4. /\ c \in Small <=> b \in Small
      /\ c \in Big <=> b \in Big
  BY <1>1 DEF Small, Big
<1>5. /\ c \notin Closed /\ c \notin Won /\ c \notin Reps
      /\ b \notin Closed /\ b \notin Won /\ b \notin Reps
  BY <1>1 DEF Closed, Won, Reps
<1>6. QED
  BY <1>2, <1>3, <1>4, <1>5 DEF b

-----------------------------------------------------------------------------
(* CommandCenter: the advice stands *)

\* What makes a move worth its rank.
LEMMA Worth ==
    ASSUME NEW h \in Nat, NEW i \in Nat, h <= i, NEW u \in Nat, NEW v \in Nat, v <= u,
           NEW z \in Nat, NEW d \in Nat, v < u \/ d > 0
    PROVE  10 * (i - h) + 6 * d + 30 * ((u + z) - (v + z)) > 0
  OBVIOUS

LEMMA WorthOffered ==
    ASSUME NEW w, Workspace(w), NEW c, NEW t, Workspace(t), t = W!Applied(w, c), Better(w, t),
           W!Cooling(t) = W!Cooling(w), W!Count(t, W!Urgent) <= W!Count(w, W!Urgent),
           NEW d \in Nat, d = W!TierDelta(w, c),
           W!Count(t, W!Urgent) < W!Count(w, W!Urgent) \/ d > 0
    PROVE  W!Offered(w, c)
<1> DEFINE h == W!Health(w)
           i == W!Health(t)
           u == W!Count(w, W!Urgent)
           v == W!Count(t, W!Urgent)
           z == W!Cooling(w)
<1>1. h \in Nat /\ i \in Nat /\ h <= i
  BY HealthOrder
<1>2. u \in Nat /\ v \in Nat /\ z \in Nat
  BY CoolingNat
<1>3. W!Leverage(w, c) = 10 * (i - h) + 6 * d + 30 * ((u + z) - (v + z))
  <2>1. W!HealthDelta(w, c) = i - h
    BY DEF W!HealthDelta
  <2>2. W!QueueDelta(w, c) = (u + z) - (v + z)
    BY DEF W!QueueDelta, W!Decisions
  <2> HIDE DEF h, i, u, v, z
  <2>3. QED
    BY <2>1, <2>2 DEF W!Leverage
<1>4. v <= u /\ (v < u \/ d > 0)
  OBVIOUS
<1> HIDE DEF h, i, u, v, z
<1>5. 10 * (i - h) + 6 * d + 30 * ((u + z) - (v + z)) > 0
  BY <1>1, <1>2, <1>4, Worth
<1>6. QED
  BY <1>3, <1>5 DEF W!Offered

\* A move takes a decision of its own off the queue.
LEMMA QueueFalls ==
    ASSUME NEW w, Workspace(w), NEW t, Workspace(t), W!Count(t, W!Urgent) < W!Count(w, W!Urgent)
    PROVE  W!Decisions(t) - W!Cooling(t) < W!Decisions(w) - W!Cooling(w)
<1>1. /\ W!Count(w, W!Urgent) \in Nat /\ W!Cooling(w) \in Nat
      /\ W!Count(t, W!Urgent) \in Nat /\ W!Cooling(t) \in Nat
  BY CoolingNat
<1>2. QED
  BY <1>1 DEF W!Decisions

LEMMA ScoreRises ==
    ASSUME NEW w, Workspace(w), NEW c, NEW t, Workspace(t), t = W!Applied(w, c), Better(w, t)
    PROVE  W!HealthDelta(w, c) >= 0
<1>1. W!Health(w) \in Nat /\ W!Health(t) \in Nat /\ W!Health(w) <= W!Health(t)
  BY HealthOrder
<1>2. QED
  BY <1>1 DEF W!HealthDelta

\* One row counts towards the queue, or none.
LEMMA UrgentFalls ==
    ASSUME NEW w, NEW a, NEW b, NEW t, Move(w, a, b, t)
    PROVE  /\ a \in W!Urgent /\ b \notin W!Urgent => W!Count(t, W!Urgent) < W!Count(w, W!Urgent)
           /\ a \notin W!Urgent /\ b \notin W!Urgent => W!Count(t, W!Urgent) = W!Count(w, W!Urgent)
           /\ a \notin W!Urgent \/ b \in W!Urgent => W!Count(w, W!Urgent) <= W!Count(t, W!Urgent)
<1>1. W!Urgent \in SUBSET W!Kinds
  BY KindSets
<1>2. ASSUME a \in W!Urgent, b \notin W!Urgent PROVE W!Count(t, W!Urgent) < W!Count(w, W!Urgent)
  BY <1>1, <1>2, Lost
<1>3. ASSUME a \notin W!Urgent, b \notin W!Urgent
      PROVE  W!Count(w, W!Urgent) \in Nat /\ W!Count(t, W!Urgent) = W!Count(w, W!Urgent)
  BY <1>1, <1>3, Kept
<1>4. ASSUME a \in W!Urgent, b \in W!Urgent
      PROVE  W!Count(w, W!Urgent) \in Nat /\ W!Count(t, W!Urgent) = W!Count(w, W!Urgent)
  BY <1>1, <1>4, Kept
<1>5. ASSUME a \notin W!Urgent, b \in W!Urgent PROVE W!Count(w, W!Urgent) <= W!Count(t, W!Urgent)
  BY <1>1, <1>5, Gained
<1>6. \A n, m \in Nat : m = n => n <= m
  OBVIOUS
<1>7. QED
  BY <1>2, <1>3, <1>4, <1>5, <1>6

LEMMA MoveHelps ==
    ASSUME NEW w, NEW c \in W!Movable, NEW t, t = W!Applied(w, c), Move(w, c, W!Resolved(c), t)
    PROVE  /\ c # "requirement unmet" => W!Decisions(t) - W!Cooling(t) < W!Decisions(w) - W!Cooling(w)
           /\ c # "task blocked" => W!HealthDelta(w, c) >= 0
           /\ \/ c \in {"task blocked", "deal big cold"}
              \/ c = "requirement unmet" /\ W!Count(w, W!Requirements) > 100
              \/ W!Offered(w, c)
<1> DEFINE b == W!Resolved(c)
<1>1. Move(w, c, b, t) /\ Workspace(w) /\ Workspace(t)
  BY MovedWorkspace
<1>2. ASSUME c # "requirement unmet" PROVE W!Count(t, W!Urgent) < W!Count(w, W!Urgent)
  BY <1>1, <1>2, MoveQueue, UrgentFalls
<1>3. ASSUME c # "task blocked" PROVE Better(w, t)
  BY <1>3, MoveBetter
<1>4. ASSUME c # "deal big cold" PROVE W!Cooling(t) = W!Cooling(w)
  <2>1. /\ c \notin Small /\ c \notin Big /\ c \notin Closed /\ c \notin Won /\ c \notin Reps
        /\ b \notin Small /\ b \notin Big /\ b \notin Closed /\ b \notin Won /\ b \notin Reps
    BY <1>4, MoveQueue
  <2> HIDE DEF b
  <2>2. QED
    BY <1>1, <2>1, CoolingRests
<1>5. ASSUME c # "requirement unmet", c # "task blocked", c # "deal big cold" PROVE W!Offered(w, c)
  <2>1. W!TierDelta(w, c) = 0
    <3>1. c \notin W!Requirements /\ b \notin W!Requirements
      BY <1>5, MoveQueue
    <3>2. W!TierDriver(t) = W!TierDriver(w) /\ W!TierDriver(w) \in Nat
      BY <1>1, <3>1, DriversRest, DriversNat
    <3>3. QED
      BY <3>2 DEF W!TierDelta
  <2>2. W!Count(t, W!Urgent) <= W!Count(w, W!Urgent)
    <3>1. W!Count(t, W!Urgent) < W!Count(w, W!Urgent)
      BY <1>2, <1>5
    <3>2. W!Count(w, W!Urgent) \in Nat /\ W!Count(t, W!Urgent) \in Nat
      BY <1>1, CoolingNat
    <3>3. QED
      BY <3>1, <3>2
  <2>3. 0 \in Nat
    OBVIOUS
  <2>4. QED
    BY <1>1, <1>2, <1>3, <1>4, <1>5, <2>1, <2>2, <2>3, WorthOffered
<1>6. ASSUME c = "requirement unmet", ~(W!Count(w, W!Requirements) > 100) PROVE W!Offered(w, c)
  <2>1. /\ c \in W!Requirements /\ b \in W!Requirements /\ c \notin Met /\ b \in Met
        /\ c \in Unmet /\ b \notin Unmet
    <3>1. b = "requirement met"
      BY <1>6, MoveTable
    <3>2. QED
      BY <1>6, <3>1 DEF W!Requirements, Met, Unmet
  <2>2. W!TierDelta(w, c) \in Nat /\ W!TierDelta(w, c) > 0
    <3>1. /\ W!Count(w, W!Requirements) \in Nat /\ W!Count(w, W!Requirements) > 0
          /\ W!TierDriver(w) \in Nat /\ W!TierDriver(t) \in Nat
          /\ W!Count(w, W!Requirements) <= 100 => W!TierDriver(w) + 1 <= W!TierDriver(t)
      BY <1>1, <2>1, TierRises
    <3>2. ~(W!Count(w, W!Requirements) > 100)
      BY <1>6
    <3>3. W!TierDelta(w, c)
          = IF W!Count(w, W!Requirements) = 0 THEN 0 ELSE W!TierDriver(t) - W!TierDriver(w)
      BY DEF W!TierDelta
    <3>4. \A n, x, y \in Nat : n > 0 /\ (n <= 100 => x + 1 <= y) /\ ~(n > 100)
                                  => /\ (IF n = 0 THEN 0 ELSE y - x) \in Nat
                                     /\ (IF n = 0 THEN 0 ELSE y - x) > 0
      OBVIOUS
    <3>5. QED
      BY <3>1, <3>2, <3>3, <3>4
  <2>3. W!Count(t, W!Urgent) <= W!Count(w, W!Urgent)
    <3>1. c \notin W!Urgent /\ b \notin W!Urgent
      BY <1>6, MoveQueue
    <3>2. W!Count(t, W!Urgent) = W!Count(w, W!Urgent) /\ W!Count(w, W!Urgent) \in Nat
      BY <1>1, <3>1, UrgentFalls, CoolingNat
    <3>3. QED
      BY <3>2
  <2>4. Better(w, t) /\ W!Cooling(t) = W!Cooling(w)
    BY <1>3, <1>4, <1>6
  <2>5. QED
    BY <1>1, <2>2, <2>3, <2>4, WorthOffered
<1>7. c # "requirement unmet" => W!Decisions(t) - W!Cooling(t) < W!Decisions(w) - W!Cooling(w)
  BY <1>1, <1>2, QueueFalls
<1>8. c # "task blocked" => W!HealthDelta(w, c) >= 0
  BY <1>1, <1>3, ScoreRises
<1>9. QED
  BY <1>5, <1>6, <1>7, <1>8, Zenon

\* The integrations are connected by themselves: all else counts as before.
LEMMA SyncHelps ==
    ASSUME NEW w, Workspace(w), W!Count(w, W!Sync) > 0, NEW t, t = W!Applied(w, "sync")
    PROVE  /\ W!Decisions(t) - W!Cooling(t) < W!Decisions(w) - W!Cooling(w)
           /\ W!HealthDelta(w, "sync") >= 0
           /\ W!Offered(w, "sync")
<1>1. t = W!(-)(w, W!SetToBag(W!Sync))
  BY DEF W!Applied
<1>2. /\ Workspace(t)
      /\ \A ks \in SUBSET W!Kinds : ks \cap W!Sync = {} => W!Count(t, ks) = W!Count(w, ks)
      /\ W!Count(t, W!Urgent) < W!Count(w, W!Urgent)
      /\ W!Count(w, W!Urgent) \in Nat /\ W!Count(t, W!Urgent) \in Nat
  BY <1>1, SyncedCount
<1>3. /\ W!Count(t, Undone) = W!Count(w, Undone) /\ W!Count(t, Late) = W!Count(w, Late)
      /\ W!Count(t, W!Funds) = W!Count(w, W!Funds) /\ W!Count(t, Due) = W!Count(w, Due)
      /\ W!Count(t, W!OpenDeals) = W!Count(w, W!OpenDeals) /\ W!Count(t, Cold) = W!Count(w, Cold)
      /\ W!Count(t, Small) = W!Count(w, Small) /\ W!Count(t, Big) = W!Count(w, Big)
      /\ W!Count(t, Closed) = W!Count(w, Closed) /\ W!Count(t, Won) = W!Count(w, Won)
      /\ W!Count(t, W!Documents) = W!Count(w, W!Documents) /\ W!Count(t, Approved) = W!Count(w, Approved)
      /\ W!Count(t, W!Programs) = W!Count(w, W!Programs) /\ W!Count(t, Active) = W!Count(w, Active)
      /\ W!Count(t, Awaited) = W!Count(w, Awaited)
      /\ W!Count(t, W!Requirements) = W!Count(w, W!Requirements) /\ W!Count(t, Met) = W!Count(w, Met)
      /\ W!Count(t, Reps) = W!Count(w, Reps)
  <2>1. /\ Undone \cap W!Sync = {} /\ Late \cap W!Sync = {}
        /\ W!Funds \cap W!Sync = {} /\ Due \cap W!Sync = {}
        /\ W!OpenDeals \cap W!Sync = {} /\ Cold \cap W!Sync = {}
    BY DEF W!Sync, W!Tasks, W!Funds, W!OpenDeals, Undone, Late, Due, Cold
  <2>2. /\ Small \cap W!Sync = {} /\ Big \cap W!Sync = {}
        /\ Closed \cap W!Sync = {} /\ Won \cap W!Sync = {}
        /\ W!Documents \cap W!Sync = {} /\ Approved \cap W!Sync = {}
    BY DEF W!Sync, W!Documents, Small, Big, Closed, Won, Approved
  <2>3. /\ W!Programs \cap W!Sync = {} /\ Active \cap W!Sync = {} /\ Awaited \cap W!Sync = {}
        /\ W!Requirements \cap W!Sync = {} /\ Met \cap W!Sync = {} /\ Reps \cap W!Sync = {}
    BY DEF W!Sync, W!Programs, W!Requirements, Active, Awaited, Met, Reps
  <2>4. QED
    BY <1>2, <2>1, <2>2, <2>3, KindSets, Zenon
<1>4. /\ W!TasksDriver(t) = W!TasksDriver(w) /\ W!FundsDriver(t) = W!FundsDriver(w)
      /\ W!DealsDriver(t) = W!DealsDriver(w) /\ W!EvidenceDriver(t) = W!EvidenceDriver(w)
      /\ W!ProgramsDriver(t) = W!ProgramsDriver(w) /\ W!TierDriver(t) = W!TierDriver(w)
  BY <1>3 DEF W!TasksDriver, W!FundsDriver, W!DealsDriver, W!EvidenceDriver, W!ProgramsDriver, W!TierDriver,
              Undone, Late, Due, Cold, Approved, Active, Awaited, Met
<1>5. /\ W!TasksDriver(w) \in Nat /\ W!FundsDriver(w) \in Nat /\ W!DealsDriver(w) \in Nat
      /\ W!EvidenceDriver(w) \in Nat /\ W!ProgramsDriver(w) \in Nat /\ W!TierDriver(w) \in Nat
  BY DriversNat
<1>6. Better(w, t)
  BY <1>4, <1>5 DEF Better
<1>7. W!OpenValue(t) = W!OpenValue(w)
  BY <1>3 DEF W!OpenValue, Small, Big
<1>8. W!AtStake(t) = W!AtStake(w)
  BY <1>3, <1>7 DEF W!AtStake, W!Momentum, Closed, Won
<1>9. W!Cooling(t) = W!Cooling(w)
  BY <1>3, <1>8 DEF W!Cooling, Reps
<1>10. W!TierDelta(w, "sync") = 0
  BY <1>4, <1>5 DEF W!TierDelta
<1>11. W!Count(t, W!Urgent) <= W!Count(w, W!Urgent) /\ 0 \in Nat
  BY <1>2
<1>12. W!Offered(w, "sync")
  BY <1>2, <1>6, <1>9, <1>10, <1>11, WorthOffered
<1>13. QED
  BY <1>2, <1>6, <1>12, QueueFalls, ScoreRises

\* A move applies to a row there is.
LEMMA MovesAll == ASSUME Workspace(workspace) PROVE W!MovesHelp
<1>1. ASSUME NEW c \in W!Candidates(workspace), NEW t, t = W!Applied(workspace, c)
      PROVE  /\ c # "requirement unmet" =>
                   W!Decisions(t) - W!Cooling(t) < W!Decisions(workspace) - W!Cooling(workspace)
             /\ c # "task blocked" => W!HealthDelta(workspace, c) >= 0
             /\ \/ c \in {"task blocked", "deal big cold"}
                \/ c = "requirement unmet" /\ W!Count(workspace, W!Requirements) > 100
                \/ W!Offered(workspace, c)
  <2>1. CASE c \in W!Movable /\ c \in DOMAIN workspace
    <3>1. t = W!Turned(workspace, c, W!Resolved(c))
      <4>1. c # "sync"
        BY <2>1 DEF W!Movable
      <4>2. QED
        BY <1>1, <4>1 DEF W!Applied
    <3>2. Move(workspace, c, W!Resolved(c), t)
      <4>1. W!Resolved(c) \in W!Kinds /\ W!Resolved(c) # c
        BY <2>1, MoveQueue
      <4>2. QED
        BY <2>1, <3>1, <4>1 DEF Move
    <3>3. QED
      BY <1>1, <2>1, <3>2, MoveHelps
  <2>2. CASE c = "sync" /\ W!Count(workspace, W!Sync) > 0
    BY <1>1, <2>2, SyncHelps
  <2>3. QED
    <3>1. \/ c \in W!Movable /\ c \in DOMAIN workspace
          \/ c = "sync" /\ W!Count(workspace, W!Sync) > 0
      BY <1>1 DEF W!Candidates, W!BagToSet
    <3>2. QED
      BY <2>1, <2>2, <3>1
<1>2. QED
  BY <1>1 DEF W!MovesHelp

\* A day passes for a row there is.
LEMMA ErodesAll == ASSUME Workspace(workspace) PROVE W!OnlyErodes
<1>1. ASSUME NEW c, c \in DOMAIN workspace, c \in DOMAIN W!Aged,
             NEW t, t = W!Turned(workspace, c, W!Aged[c])
      PROVE  /\ W!Health(t) <= W!Health(workspace)
             /\ c # "document expiring" => W!Decisions(t) >= W!Decisions(workspace)
  <2> DEFINE b == W!Aged[c]
  <2>1. Move(workspace, c, b, t)
    <3>1. b \in W!Kinds /\ b # c
      BY <1>1, AgedQueue
    <3>2. QED
      BY <1>1, <3>1 DEF Move
  <2>2. Workspace(t)
    BY <2>1, MovedWorkspace
  <2>3. W!Health(t) <= W!Health(workspace)
    <3>1. Better(t, workspace)
      BY <1>1, <2>1, AgedWorse
    <3>2. QED
      BY <2>2, <3>1, HealthOrder
  <2>4. W!Cooling(t) = W!Cooling(workspace)
    <3>1. /\ c \in Small <=> b \in Small
          /\ c \in Big <=> b \in Big
          /\ c \in Closed <=> b \in Closed
          /\ c \in Won <=> b \in Won
          /\ c \in Reps <=> b \in Reps
      BY <1>1, AgedQueue
    <3> HIDE DEF b
    <3>2. QED
      BY <2>1, <3>1, CoolingRests
  <2>5. ASSUME c # "document expiring" PROVE W!Decisions(t) >= W!Decisions(workspace)
    <3>1. c \notin W!Urgent \/ b \in W!Urgent
      BY <1>1, <2>5, AgedQueue
    <3>2. W!Count(workspace, W!Urgent) <= W!Count(t, W!Urgent)
      BY <2>1, <3>1, UrgentFalls
    <3>3. /\ W!Count(workspace, W!Urgent) \in Nat /\ W!Cooling(workspace) \in Nat
          /\ W!Count(t, W!Urgent) \in Nat
      BY <2>2, CoolingNat
    <3>4. QED
      BY <2>4, <3>2, <3>3 DEF W!Decisions
  <2>6. QED
    BY <2>3, <2>5
<1>2. QED
  BY <1>1 DEF W!OnlyErodes, W!BagToSet

LEMMA AdviceInvariance == W!Spec => []Workspace(workspace)
  BY AdviceWorkspaceInit, AdviceWorkspaceStep, PTL DEF W!Spec

LEMMA WorkspaceTyped == W!Spec => []W!TypeOK
<1>1. Workspace(workspace) => W!TypeOK
  BY DEF Workspace, W!TypeOK, W!BagToSet
<1>2. QED
  BY <1>1, AdviceInvariance, PTL

-----------------------------------------------------------------------------
(* The parts together *)

recordVars == <<part, vars, linkVars,
    roadmapVars, evidenceVars, offerVars, meteringVars, fundingVars, reportVars, aceVars,
    applicationVars, assessmentVars, planVars, programVars, tierVars,
    listingVars, benchmarkVars, sample, workspace, scheduleVars, projectionVars,
    completionVars, ruleVars, keyVars>>

\* A step is one of the part that is at work, and every other part rests.
LEMMA StepOfOnePart ==
    ASSUME [NextRecords]_recordVars
    PROVE  /\ part' = part
           /\ part # "mdf" => UNCHANGED vars
           /\ [Next]_vars
           /\ [P!Next]_P!vars
           /\ [R!Next]_R!vars
           /\ [E!Next]_E!vars
           /\ [O!Next]_O!vars
           /\ [M!Next]_M!vars
           /\ [F!Next]_F!vars
           /\ [N!Next]_N!vars
           /\ [C!Next]_C!vars
           /\ [A!Next]_A!vars
           /\ [G!Next]_G!vars
           /\ [D!Next]_D!vars
           /\ [Q!Next]_Q!vars
           /\ [T!Next]_T!vars
           /\ [S!Next]_S!vars
           /\ [B!Next]_B!vars
           /\ [K!Next]_K!vars
           /\ [W!Next]_W!vars
           /\ [X!Next]_X!vars
           /\ [H!Next]_H!vars
           /\ [J!Next]_J!vars
           /\ [L!Next]_L!vars
           /\ [U!Next]_U!vars
<1>1. CASE UNCHANGED recordVars
  BY <1>1 DEF recordVars, vars, linkVars, roadmapVars, evidenceVars, offerVars, meteringVars, fundingVars, reportVars, aceVars, applicationVars, assessmentVars, planVars, programVars, tierVars, listingVars, benchmarkVars, keyVars, scheduleVars, projectionVars, completionVars, ruleVars,
     P!vars, R!vars, E!vars, O!vars, M!vars, F!vars, N!vars, C!vars, A!vars, G!vars, D!vars, Q!vars, T!vars, S!vars, B!vars, K!vars, W!vars, X!vars, H!vars, J!vars, L!vars, U!vars
<1>2. CASE NextRecords
  <2>1. part' = part /\ Rest(part)
    BY <1>2 DEF NextRecords
  <2>2. part = "mdf" => Next
    BY <1>2 DEF NextRecords
  <2>3. part # "mdf" => UNCHANGED vars
    BY <2>1 DEF Rest
  <2>4. [P!Next]_P!vars
    <3>1. part = "links" => P!Next
      BY <1>2 DEF NextRecords
    <3>2. part # "links" => UNCHANGED linkVars
      BY <2>1 DEF Rest
    <3>3. QED
      BY <3>1, <3>2 DEF P!vars, linkVars
  <2>5. [R!Next]_R!vars
    <3>1. part = "roadmaps" => R!Next
      BY <1>2 DEF NextRecords
    <3>2. part # "roadmaps" => UNCHANGED roadmapVars
      BY <2>1 DEF Rest
    <3>3. QED
      BY <3>1, <3>2 DEF R!vars, roadmapVars
  <2>6. [E!Next]_E!vars
    <3>1. part = "evidence" => E!Next
      BY <1>2 DEF NextRecords
    <3>2. part # "evidence" => UNCHANGED evidenceVars
      BY <2>1 DEF Rest
    <3>3. QED
      BY <3>1, <3>2 DEF E!vars, evidenceVars
  <2>7. [O!Next]_O!vars
    <3>1. part = "offers" => O!Next
      BY <1>2 DEF NextRecords
    <3>2. part # "offers" => UNCHANGED offerVars
      BY <2>1 DEF Rest
    <3>3. QED
      BY <3>1, <3>2 DEF O!vars, offerVars
  <2>8. [M!Next]_M!vars
    <3>1. part = "metering" => M!Next
      BY <1>2 DEF NextRecords
    <3>2. part # "metering" => UNCHANGED meteringVars
      BY <2>1 DEF Rest
    <3>3. QED
      BY <3>1, <3>2 DEF M!vars, meteringVars
  <2>9. [F!Next]_F!vars
    <3>1. part = "funding" => F!Next
      BY <1>2 DEF NextRecords
    <3>2. part # "funding" => UNCHANGED fundingVars
      BY <2>1 DEF Rest
    <3>3. QED
      BY <3>1, <3>2 DEF F!vars, fundingVars
  <2>10. [N!Next]_N!vars
    <3>1. part = "reports" => N!Next
      BY <1>2 DEF NextRecords
    <3>2. part # "reports" => UNCHANGED reportVars
      BY <2>1 DEF Rest
    <3>3. QED
      BY <3>1, <3>2 DEF N!vars, reportVars
  <2>11. [C!Next]_C!vars
    <3>1. part = "ace" => C!Next
      BY <1>2 DEF NextRecords
    <3>2. part # "ace" => UNCHANGED aceVars
      BY <2>1 DEF Rest
    <3>3. QED
      BY <3>1, <3>2 DEF C!vars, aceVars
  <2>12. [A!Next]_A!vars
    <3>1. part = "applications" => A!Next
      BY <1>2 DEF NextRecords
    <3>2. part # "applications" => UNCHANGED applicationVars
      BY <2>1 DEF Rest
    <3>3. QED
      BY <3>1, <3>2 DEF A!vars, applicationVars
  <2>13. [G!Next]_G!vars
    <3>1. part = "assessments" => G!Next
      BY <1>2 DEF NextRecords
    <3>2. part # "assessments" => UNCHANGED assessmentVars
      BY <2>1 DEF Rest
    <3>3. QED
      BY <3>1, <3>2 DEF G!vars, assessmentVars
  <2>14. [D!Next]_D!vars
    <3>1. part = "plan" => D!Next
      BY <1>2 DEF NextRecords
    <3>2. part # "plan" => UNCHANGED planVars
      BY <2>1 DEF Rest
    <3>3. QED
      BY <3>1, <3>2 DEF D!vars, planVars
  <2>15. [Q!Next]_Q!vars
    <3>1. part = "programs" => Q!Next
      BY <1>2 DEF NextRecords
    <3>2. part # "programs" => UNCHANGED programVars
      BY <2>1 DEF Rest
    <3>3. QED
      BY <3>1, <3>2 DEF Q!vars, programVars
  <2>16. [T!Next]_T!vars
    <3>1. part = "tiers" => T!Next
      BY <1>2 DEF NextRecords
    <3>2. part # "tiers" => UNCHANGED tierVars
      BY <2>1 DEF Rest
    <3>3. QED
      BY <3>1, <3>2 DEF T!vars, tierVars
  <2>17. [S!Next]_S!vars
    <3>1. part = "listings" => S!Next
      BY <1>2 DEF NextRecords
    <3>2. part # "listings" => UNCHANGED listingVars
      BY <2>1 DEF Rest
    <3>3. QED
      BY <3>1, <3>2 DEF S!vars, listingVars
  <2>18. [B!Next]_B!vars
    <3>1. part = "benchmarks" => B!Next
      BY <1>2 DEF NextRecords
    <3>2. part # "benchmarks" => UNCHANGED benchmarkVars
      BY <2>1 DEF Rest
    <3>3. QED
      BY <3>1, <3>2 DEF B!vars, benchmarkVars
  <2>19. [K!Next]_K!vars
    <3>1. part = "percentiles" => K!Next
      BY <1>2 DEF NextRecords
    <3>2. part # "percentiles" => UNCHANGED sample
      BY <2>1 DEF Rest
    <3>3. QED
      BY <3>1, <3>2 DEF K!vars
  <2>20. [W!Next]_W!vars
    <3>1. part = "command" => W!Next
      BY <1>2 DEF NextRecords
    <3>2. part # "command" => UNCHANGED workspace
      BY <2>1 DEF Rest
    <3>3. QED
      BY <3>1, <3>2 DEF W!vars
  <2>21. [X!Next]_X!vars
    <3>1. part = "keys" => X!Next
      BY <1>2 DEF NextRecords
    <3>2. part # "keys" => UNCHANGED keyVars
      BY <2>1 DEF Rest
    <3>3. QED
      BY <3>1, <3>2 DEF X!vars, keyVars
  <2>22. [H!Next]_H!vars
    <3>1. part = "schedule" => H!Next
      BY <1>2 DEF NextRecords
    <3>2. part # "schedule" => UNCHANGED scheduleVars
      BY <2>1 DEF Rest
    <3>3. QED
      BY <3>1, <3>2 DEF H!vars, scheduleVars
  <2>23. [J!Next]_J!vars
    <3>1. part = "projection" => J!Next
      BY <1>2 DEF NextRecords
    <3>2. part # "projection" => UNCHANGED projectionVars
      BY <2>1 DEF Rest
    <3>3. QED
      BY <3>1, <3>2 DEF J!vars, projectionVars
  <2>24. [L!Next]_L!vars
    <3>1. part = "completions" => L!Next
      BY <1>2 DEF NextRecords
    <3>2. part # "completions" => UNCHANGED completionVars
      BY <2>1 DEF Rest
    <3>3. QED
      BY <3>1, <3>2 DEF L!vars, completionVars
  <2>25. [U!Next]_U!vars
    <3>1. part = "rules" => U!Next
      BY <1>2 DEF NextRecords
    <3>2. part # "rules" => UNCHANGED ruleVars
      BY <2>1 DEF Rest
    <3>3. QED
      BY <3>1, <3>2 DEF U!vars, ruleVars
  <2>26. QED
    BY <2>1, <2>2, <2>3, <2>4, <2>5, <2>6, <2>7, <2>8, <2>9, <2>10, <2>11, <2>12, <2>13, <2>14, <2>15, <2>16, <2>17, <2>18, <2>19, <2>20, <2>21, <2>22, <2>23, <2>24, <2>25
<1>3. QED
  BY <1>1, <1>2

LEMMA InitOfEachPart ==
    ASSUME InitRecords
    PROVE  /\ Init
           /\ P!Init
           /\ R!Init
           /\ E!Init
           /\ O!Init
           /\ M!Init
           /\ F!Init
           /\ N!Init
           /\ C!Init
           /\ A!Init
           /\ G!Init
           /\ D!Init
           /\ Q!Init
           /\ T!Init
           /\ S!Init
           /\ B!Init
           /\ K!Init
           /\ W!Init
           /\ X!Init
           /\ part = "schedule" => H!Init
           /\ part = "projection" => J!Init
           /\ part = "completions" => L!Init
           /\ part = "rules" => U!Init
  BY DEF InitRecords

\* Every part behaves as its own specification says.
LEMMA PartIsMdf == SpecRecords => Spec
  BY InitOfEachPart, StepOfOnePart, PTL DEF SpecRecords, recordVars, Spec

LEMMA PartIsP == SpecRecords => P!Spec
  BY InitOfEachPart, StepOfOnePart, PTL DEF SpecRecords, recordVars, P!Spec

LEMMA PartIsR == SpecRecords => R!Spec
  BY InitOfEachPart, StepOfOnePart, PTL DEF SpecRecords, recordVars, R!Spec

LEMMA PartIsE == SpecRecords => E!Spec
  BY InitOfEachPart, StepOfOnePart, PTL DEF SpecRecords, recordVars, E!Spec

LEMMA PartIsO == SpecRecords => O!Spec
  BY InitOfEachPart, StepOfOnePart, PTL DEF SpecRecords, recordVars, O!Spec

LEMMA PartIsM == SpecRecords => M!Spec
  BY InitOfEachPart, StepOfOnePart, PTL DEF SpecRecords, recordVars, M!Spec

LEMMA PartIsF == SpecRecords => F!Spec
  BY InitOfEachPart, StepOfOnePart, PTL DEF SpecRecords, recordVars, F!Spec

LEMMA PartIsN == SpecRecords => N!Spec
  BY InitOfEachPart, StepOfOnePart, PTL DEF SpecRecords, recordVars, N!Spec

LEMMA PartIsC == SpecRecords => C!Spec
  BY InitOfEachPart, StepOfOnePart, PTL DEF SpecRecords, recordVars, C!Spec

LEMMA PartIsA == SpecRecords => A!Spec
  BY InitOfEachPart, StepOfOnePart, PTL DEF SpecRecords, recordVars, A!Spec

LEMMA PartIsG == SpecRecords => G!Spec
  BY InitOfEachPart, StepOfOnePart, PTL DEF SpecRecords, recordVars, G!Spec

LEMMA PartIsD == SpecRecords => D!Spec
  BY InitOfEachPart, StepOfOnePart, PTL DEF SpecRecords, recordVars, D!Spec

LEMMA PartIsQ == SpecRecords => Q!Spec
  BY InitOfEachPart, StepOfOnePart, PTL DEF SpecRecords, recordVars, Q!Spec

LEMMA PartIsT == SpecRecords => T!Spec
  BY InitOfEachPart, StepOfOnePart, PTL DEF SpecRecords, recordVars, T!Spec

LEMMA PartIsS == SpecRecords => S!Spec
  BY InitOfEachPart, StepOfOnePart, PTL DEF SpecRecords, recordVars, S!Spec

LEMMA PartIsB == SpecRecords => B!Spec
  BY InitOfEachPart, StepOfOnePart, PTL DEF SpecRecords, recordVars, B!Spec

LEMMA PartIsK == SpecRecords => K!Spec
  BY InitOfEachPart, StepOfOnePart, PTL DEF SpecRecords, recordVars, K!Spec

LEMMA PartIsW == SpecRecords => W!Spec
  BY InitOfEachPart, StepOfOnePart, PTL DEF SpecRecords, recordVars, W!Spec

LEMMA PartIsX == SpecRecords => X!Spec
  BY InitOfEachPart, StepOfOnePart, PTL DEF SpecRecords, recordVars, X!Spec

LEMMA PartIsH == SpecRecords => 
    /\ part = "schedule" => H!Spec
    /\ [](part = "schedule") \/ []~(part = "schedule")
<1>1. part = "schedule" /\ [NextRecords]_recordVars => (part = "schedule")'
  BY StepOfOnePart
<1>2. ~(part = "schedule") /\ [NextRecords]_recordVars => ~(part = "schedule")'
  BY StepOfOnePart
<1>3. QED
  BY <1>1, <1>2, InitOfEachPart, StepOfOnePart, PTL DEF SpecRecords, recordVars, H!Spec

LEMMA PartIsJ == SpecRecords => 
    /\ part = "projection" => J!Spec
    /\ [](part = "projection") \/ []~(part = "projection")
<1>1. part = "projection" /\ [NextRecords]_recordVars => (part = "projection")'
  BY StepOfOnePart
<1>2. ~(part = "projection") /\ [NextRecords]_recordVars => ~(part = "projection")'
  BY StepOfOnePart
<1>3. QED
  BY <1>1, <1>2, InitOfEachPart, StepOfOnePart, PTL DEF SpecRecords, recordVars, J!Spec

LEMMA PartIsL == SpecRecords => 
    /\ part = "completions" => L!Spec
    /\ [](part = "completions") \/ []~(part = "completions")
<1>1. part = "completions" /\ [NextRecords]_recordVars => (part = "completions")'
  BY StepOfOnePart
<1>2. ~(part = "completions") /\ [NextRecords]_recordVars => ~(part = "completions")'
  BY StepOfOnePart
<1>3. QED
  BY <1>1, <1>2, InitOfEachPart, StepOfOnePart, PTL DEF SpecRecords, recordVars, L!Spec

LEMMA PartIsU == SpecRecords => 
    /\ part = "rules" => U!Spec
    /\ [](part = "rules") \/ []~(part = "rules")
<1>1. part = "rules" /\ [NextRecords]_recordVars => (part = "rules")'
  BY StepOfOnePart
<1>2. ~(part = "rules") /\ [NextRecords]_recordVars => ~(part = "rules")'
  BY StepOfOnePart
<1>3. QED
  BY <1>1, <1>2, InitOfEachPart, StepOfOnePart, PTL DEF SpecRecords, recordVars, U!Spec

-----------------------------------------------------------------------------
(* What holds of the run of MCRecords *)

\* Every variable of every part has its type, after every sequence of
\* operations and for every interleaving of them.
THEOREM EveryPartTyped == SpecRecords => []AllTyped
<1> USE PartsAssumption
<1>1. EvidenceInv /\ OfferInv /\ MeteringInv /\ ReportsInv /\ AceInv /\ ApplicationsInv
      /\ AssessmentsInv /\ PlanInv /\ ProgramsInv /\ TiersInv /\ ListingsInv
      /\ BenchmarksInv /\ SampleInv /\ KeysInv /\ RoadmapsInv
      => /\ E!TypeOK /\ O!TypeOK /\ M!TypeOK /\ N!TypeOK /\ C!TypeOK /\ A!TypeOK
         /\ G!TypeOK /\ D!TypeOK /\ Q!TypeOK /\ T!TypeOK /\ S!TypeOK
         /\ B!TypeOK /\ K!TypeOK /\ X!TypeOK /\ R!TypeOK
  BY DEF EvidenceInv, OfferInv, MeteringInv, ReportsInv, AceInv, ApplicationsInv,
         AssessmentsInv, PlanInv, ProgramsInv, TiersInv, ListingsInv,
         BenchmarksInv, SampleInv, KeysInv, RoadmapsInv
<1>2. SpecRecords =>
        [](EvidenceInv /\ OfferInv /\ MeteringInv /\ ReportsInv /\ AceInv /\ ApplicationsInv
           /\ AssessmentsInv /\ PlanInv /\ ProgramsInv /\ TiersInv /\ ListingsInv
           /\ BenchmarksInv /\ SampleInv /\ KeysInv /\ RoadmapsInv)
  BY PartIsE, PartIsO, PartIsM, PartIsN, PartIsC, PartIsA, PartIsG, PartIsD, PartIsQ,
     PartIsT, PartIsS, PartIsB, PartIsK, PartIsX, PartIsR,
     EvidenceInvariance, OfferInvariance, MeteringInvariance, ReportsInvariance,
     AceInvariance, ApplicationsInvariance, AssessmentsInvariance, PlanInvariance,
     ProgramsInvariance, TiersInvariance, ListingsInvariance, BenchmarksInvariance,
     PercentilesInvariance, KeysInvariance, RoadmapsInvariance, PTL
<1>3. SpecRecords => [](TypeOK /\ P!TypeOK /\ F!TypeOK /\ W!TypeOK)
  BY PartIsMdf, PartIsP, PartIsF, PartIsW, TypeCorrect, LinksInvariance, FundingInvariance,
     WorkspaceTyped, PTL
<1>4. SpecRecords => []((part = "schedule" => H!TypeOK) /\ (part = "projection" => J!TypeOK)
                        /\ (part = "completions" => L!TypeOK) /\ (part = "rules" => U!TypeOK))
  BY PartIsH, PartIsJ, PartIsL, PartIsU, ScheduleTyped, ProjectionTyped, CompletionsTyped,
     RulesTyped, PTL
<1>5. (/\ E!TypeOK /\ O!TypeOK /\ M!TypeOK /\ N!TypeOK /\ C!TypeOK /\ A!TypeOK
       /\ G!TypeOK /\ D!TypeOK /\ Q!TypeOK /\ T!TypeOK /\ S!TypeOK
       /\ B!TypeOK /\ K!TypeOK /\ X!TypeOK /\ R!TypeOK
       /\ TypeOK /\ P!TypeOK /\ F!TypeOK /\ W!TypeOK
       /\ (part = "schedule" => H!TypeOK) /\ (part = "projection" => J!TypeOK)
       /\ (part = "completions" => L!TypeOK) /\ (part = "rules" => U!TypeOK))
      => AllTyped
  BY DEF AllTyped
<1>6. QED
  BY <1>1, <1>2, <1>3, <1>4, <1>5, PTL

\* However a roadmap is seeded, extended, reordered, shortened, re-pointed,
\* copied, finalized and reopened by any number of editors: as long as no two
\* edits of it overlap, its numbers have no gap, a dependency leads to an
\* earlier milestone, a catalog item has one milestone, and in a finalized one
\* every milestone has its task (roadmaps/operations.ts).
THEOREM RoadmapsHoldTogether == SpecRecords => []RoadmapSound
<1>1. RoadmapsInv => RoadmapSound
  BY RoadmapsShown, PartsAssumption DEF RoadmapSound
<1>2. QED
  BY <1>1, PartIsR, RoadmapsInvariance, PartsAssumption, PTL

\* An agency manages a customer only through a service user there, and after
\* the customer was asked, for any number of agencies (portfolio/operations.ts).
THEOREM LinksAgree == SpecRecords => []LinksAgreed
<1>1. P!ConsentFirst /\ P!ManagedHasService => LinksAgreed
  BY DEF LinksAgreed
<1>2. QED
  BY <1>1, PartIsP, LinksInvariance, PartsAssumption, PTL

\* No interleaving of uploads, scans, replacements and downloads streams an
\* object that the scanner has not passed (storage/malware-scan.ts).
THEOREM OnlyCleanIsServed == SpecRecords => []ServedClean
<1>1. EvidenceInv => ServedClean
  BY DEF EvidenceInv, ServedClean
<1>2. QED
  BY <1>1, PartIsE, EvidenceInvariance, PartsAssumption, PTL

\* A status agrees with what the record says of how it came about, whatever
\* operations overlap: offer and agreement, program and stamp, plan and tier,
\* recommendation and task.
THEOREM StatusAndRecordAgree == SpecRecords => []RecordsAgree
<1>1. OfferInv /\ ProgramsInv /\ TiersInv /\ AssessmentsInv => RecordsAgree
  BY DEF OfferInv, ProgramsInv, TiersInv, AssessmentsInv, RecordsAgree
<1>2. QED
  BY <1>1, PartIsO, PartIsQ, PartIsT, PartIsG, OfferInvariance, ProgramsInvariance,
     TiersInvariance, AssessmentsInvariance, PartsAssumption, PTL

\* Retries, receipts, conversions, onboardings, scorings and clicks are handed
\* over once, for any number of callers at once.
THEOREM NothingIsDoneTwice == SpecRecords => []HandedOverOnce
<1>1. MeteringInv /\ PlanInv /\ TiersInv /\ AssessmentsInv => 
        /\ M!RetriedOnce /\ M!ReceiptOnce /\ D!ConvertedOnceAlone /\ D!LinkIsOwn
        /\ T!HandsOverOnce /\ G!OneScoring
  BY DEF MeteringInv, PlanInv, TiersInv, AssessmentsInv
<1>2. KeysInv => X!OncePerClick /\ X!ClicksAreCarriedOut
  BY DEF KeysInv, FormSound, X!OncePerClick
<1>3. MeteringInv /\ PlanInv /\ TiersInv /\ AssessmentsInv /\ KeysInv => HandedOverOnce
  BY <1>1, <1>2 DEF HandedOverOnce
<1>4. QED
  BY <1>3, PartIsM, PartIsD, PartIsT, PartIsG, PartIsX, MeteringInvariance,
     PlanInvariance, TiersInvariance, AssessmentsInvariance, KeysInvariance,
     PartsAssumption, PTL

\* Where no two operations on a record have overlapped, a decision stands on
\* what was decided: of a submission, a report, an opportunity, an application
\* and an assessment.
THEOREM DecisionsStand == SpecRecords => []SoundAlone
<1>1. ReportsInv /\ AceInv /\ ApplicationsInv /\ AssessmentsInv /\ F!ApprovedWithinAskAlone
      => SoundAlone
  BY DEF ReportsInv, AceInv, ApplicationsInv, AssessmentsInv, SoundAlone
<1>2. QED
  BY <1>1, PartIsN, PartIsC, PartIsA, PartIsG, PartIsF, ReportsInvariance, AceInvariance,
     ApplicationsInvariance, AssessmentsInvariance, FundingInvariance, PartsAssumption, PTL

\* A draft is published with a price, and what a refresh settled AWS has said,
\* whatever retries, crashes and refreshes interleave (marketplace/operations.ts).
THEOREM ListingsStand == SpecRecords => []VerdictsAreAws
<1>1. ListingsInv => VerdictsAreAws
  BY DEF ListingsInv, VerdictsAreAws
<1>2. QED
  BY <1>1, PartIsS, ListingsInvariance, PartsAssumption, PTL

\* No cohort below the minimum is shown, whatever opts out while the capture
\* runs, and the percentiles of every sample split it and rank in order
\* (domain/benchmarks).
THEOREM CohortsStand == SpecRecords => []CohortsSound
<1>1. MaxValue \in Nat
  BY PartsAssumption DEF K!ConstantsOK
<1>2. BenchmarksInv => B!NeverThin
  BY BenchmarksShown, PartsAssumption
<1>3. SampleInv => K!Splits /\ K!Ranks
  BY <1>1, SplitsAll, RanksAll
<1>4. BenchmarksInv /\ SampleInv => CohortsSound
  BY <1>2, <1>3 DEF CohortsSound
<1>5. QED
  BY <1>4, PartIsB, PartIsK, BenchmarksInvariance, PercentilesInvariance,
     PartsAssumption, PTL

\* A schedule's conflicts, slack and critical path agree with its dates and its
\* dependencies, and a new plan resolves the conflicts; a forecast's verdict
\* agrees with its list and finishing a milestone never puts the end off; a
\* simulation's odds agree with its dates; the deadline of a fund request with
\* the checks that enforce it (domain/roadmaps, domain/forecast,
\* domain/mdf/compliance.ts), for every number of milestones and of runs.
THEOREM DatesHoldTogether == SpecRecords => []DatesAgree
<1> USE PartsAssumption
<1>1. SpecRecords =>
        []((part = "schedule" => DatesInv) /\ (part = "projection" => J!TypeOK)
           /\ (part = "completions" => RunsInv) /\ (part = "rules" => U!TypeOK))
  BY PartIsH, PartIsJ, PartIsL, PartIsU, DatesInvariance, ProjectionTyped,
     RunsInvariance, RulesTyped, PTL
<1>2. DatesInv => H!AnalysisAgrees /\ H!ReplanResolves
  BY AnalysisAll, ReplanAll
<1>3. J!TypeOK => J!VerdictAgrees /\ J!ProgressNeverDelays
  BY VerdictAll, ProgressAll
<1>4. RunsInv => L!OddsAgree
  BY OddsAll
<1>5. U!TypeOK => U!DeadlineIsEnforced
  BY DeadlineAll
<1>6. (/\ part = "schedule" => DatesInv
       /\ part = "projection" => J!TypeOK
       /\ part = "completions" => RunsInv
       /\ part = "rules" => U!TypeOK)
      => DatesAgree
  BY <1>2, <1>3, <1>4, <1>5 DEF DatesAgree
<1>7. QED
  BY <1>1, <1>6, PTL

\* The advice of the command center stands in every workspace, however large:
\* a suggested move takes a decision of its own off the queue and costs no
\* health, within the exceptions MovesHelp names, and no passing day brightens
\* the outlook (impact.ts, nextBestActions, whatBreaksNext).
THEOREM AdviceStands == SpecRecords => []AdviceSound
<1>1. Workspace(workspace) => AdviceSound
  BY MovesAll, ErodesAll DEF AdviceSound
<1>2. QED
  BY <1>1, PartIsW, AdviceInvariance, PTL

\* A record takes the transitions of its table and no other; no milestone joins
\* or leaves a finalized roadmap; a program is submitted ready and a settled
\* change set stays settled where nothing overlaps; no day unblocks an event.
THEOREM LifecyclesHold == SpecRecords => LifecyclesFollowed
<1> USE PartsAssumption
<1>1. (part = "rules" => U!TypeOK) /\ [NextRecords]_recordVars
        => [U!Blocks # {} => U!Blocks' # {}]_U!vars
  <2>1. CASE part = "rules" /\ U!TypeOK
    BY <2>1, StepOfOnePart, BlocksGrow
  <2>2. CASE part # "rules"
    <3>1. [NextRecords]_recordVars => UNCHANGED U!vars
      <4>1. Rest(part) => UNCHANGED ruleVars
        BY <2>2 DEF Rest
      <4>2. NextRecords => Rest(part)
        BY DEF NextRecords
      <4>3. UNCHANGED ruleVars => UNCHANGED U!vars
        BY DEF ruleVars, U!vars
      <4>4. UNCHANGED recordVars => UNCHANGED ruleVars
        BY DEF recordVars
      <4>5. QED
        BY <4>1, <4>2, <4>3, <4>4
    <3>2. QED
      BY <3>1
  <2>3. QED
    BY <2>1, <2>2
<1>2. SpecRecords => [](part = "rules" => U!TypeOK)
  BY PartIsU, RulesTyped, PTL
<1>3. SpecRecords => U!BlocksStay
  BY <1>1, <1>2, PTL DEF SpecRecords, recordVars, U!BlocksStay
<1>4. SpecRecords => F!FundingFollowsLifecycle
  BY PartIsF, FundingInvariance, PTL
<1>5. SpecRecords => /\ O!OffersFollowLifecycle /\ N!ReportsFollowLifecycle
                     /\ R!FinalizedFrozen /\ Q!SubmittedReadyAlone /\ S!SettledStaysAlone
  BY PartIsO, PartIsN, PartIsR, PartIsQ, PartIsS, OffersFollow, ReportsFollow,
     RoadmapsFollow, ProgramsFollow, ListingsFollow, PTL
<1>6. QED
  BY <1>3, <1>4, <1>5 DEF LifecyclesFollowed
=============================================================================
