------------------------- MODULE MutationGateProofs -------------------------
(***************************************************************************)
(* Safety of the mutation gate, for every number of calls, keys, bodies,   *)
(* actors and connections; and of the mirror between tasks and milestones, *)
(* the other part of MCLive, for every number of links and transactions.   *)
(*                                                                         *)
(* AtMostOnce and AuditAtomic are not inductive: they say nothing of a     *)
(* transaction that is still open.  GateInv adds what an open transaction  *)
(* knows (its pending writes are those its program counter says, its key   *)
(* is free and claimed by nobody else) and what a committed row knows (it  *)
(* is complete and names a committed, audited call of the same key).       *)
(* WindowInv adds that a window is a finite set of calls.                  *)
(*                                                                         *)
(* After it: the gate implements the keyed ledger when its handlers        *)
(* write through ctx.tx alone.  A commit is Execute, a served replay is    *)
(* Replay, every refusal, crash and limit is Refuse, the sweep is Forget,  *)
(* and every other statement is invisible.                                 *)
(*                                                                         *)
(* At the end: what an operation on tasks or milestones writes before it   *)
(* commits are whole pairs of a milestone and its task (MirrorInv).        *)
(***************************************************************************)
EXTENDS MCLive, FiniteSetTheorems, NaturalsInduction, Integers, Sequences, TLAPS

\* The writes a transaction holds are exactly those of the statements it ran.
PendingWrites ==
    \A c \in Calls :
        /\ pc[c] \in {"idle", "queued", "claiming", "taken", "done"} => txn[c] = {}
        /\ pc[c] \in {"handling", "nested"} => txn[c] = {"claim"}
        /\ pc[c] \in {"handled", "audited", "completed"} =>
               /\ "claim" \in txn[c]
               /\ Tenant(c) <=> "effect" \in txn[c]
        /\ pc[c] = "nested" => ~Tenant(c)
        /\ pc[c] \in {"audited", "completed"} <=> "audit" \in txn[c]
        /\ pc[c] = "completed" <=> "complete" \in txn[c]

\* A claimed key is free in the table, in one hand, and of the present era.
ClaimsHold ==
    /\ \A c \in Calls :
           "claim" \in txn[c] =>
               /\ table[Key(c)] = NoRow
               /\ era[c] = sweeps[Key(c)]
    /\ \A c, d \in Calls :
           "claim" \in txn[c] /\ "claim" \in txn[d] /\ Key(c) = Key(d) => c = d

\* A row is complete and stands for a committed, audited call of its key.
RowsHold ==
    \A k \in Keys :
        table[k] # NoRow =>
            /\ table[k].completed
            /\ table[k].by \in effects
            /\ table[k].by \in audit
            /\ Key(table[k].by) = k
            /\ request[table[k].by].body = table[k].body

\* Work that is committed belongs to a call that is over and was not refused,
\* and while its era lasts the row of its key names it.
EffectsHold ==
    /\ \A c \in effects :
           Tenant(c) =>
               /\ pc[c] = "done"
               /\ era[c] <= sweeps[Key(c)]
               /\ era[c] = sweeps[Key(c)] =>
                      table[Key(c)] # NoRow /\ table[Key(c)].by = c
    /\ \A c \in Calls :
           ~Tenant(c) /\ pc[c] \in {"handled", "audited", "completed"} =>
               c \in effects

\* A call has an answer exactly when it is over.
AnswersHold == \A c \in Calls : pc[c] = "done" <=> answer[c].status # "none"

GateInv ==
    /\ TypeOK
    /\ PendingWrites
    /\ ClaimsHold
    /\ RowsHold
    /\ EffectsHold
    /\ AnswersHold
    /\ AtMostOnce
    /\ AuditAtomic
    /\ AnswerIsCommitted
    /\ RefusalLeavesNoTrace

-----------------------------------------------------------------------------

\* Nothing is claimed, committed or answered at the start.
LEMMA InitGateInv == Init => GateInv
  BY NoCallAssumption
  DEF Init, GateInv, TypeOK, Request, InTxn, Status, PendingWrites, ClaimsHold,
      RowsHold, EffectsHold, AnswersHold, AtMostOnce, AuditAtomic, AnswerIsCommitted,
      RefusalLeavesNoTrace, Tenant, Key

\* A refusal before the transaction: the call holds no writes.
LEMMA DenyStep ==
  ASSUME GateInv, NEW c \in Calls, Deny(c)
  PROVE  GateInv'
  <1> USE NoCallAssumption, NoRowAssumption
      DEF GateInv, TypeOK, Request, InTxn, Status, Row, Write, Key,
          Deny, Leave
  <1>1. TypeOK'
    OBVIOUS
  <1>2. PendingWrites'
    BY DEF PendingWrites, Tenant
  <1>3. ClaimsHold'
    BY DEF ClaimsHold, PendingWrites
  <1>4. RowsHold'
    BY DEF RowsHold
  <1>5. EffectsHold'
    BY DEF EffectsHold, PendingWrites, Tenant
  <1>6. AnswersHold'
    BY DEF AnswersHold
  <1>7. AtMostOnce'
    BY DEF AtMostOnce, EffectsHold, Tenant
  <1>8. AuditAtomic'
    BY DEF AuditAtomic, PendingWrites, Tenant
  <1>9. AnswerIsCommitted'
    BY DEF AnswerIsCommitted, RowsHold
  <1>10. RefusalLeavesNoTrace'
    BY DEF RefusalLeavesNoTrace, EffectsHold, AuditAtomic, AnswersHold, Tenant
  <1>11. QED
    BY <1>1, <1>2, <1>3, <1>4, <1>5, <1>6, <1>7, <1>8, <1>9, <1>10

\* The limiter lets the call through.
LEMMA AdmitStep ==
  ASSUME GateInv, NEW c \in Calls, Admit(c)
  PROVE  GateInv'
  <1> USE NoCallAssumption, NoRowAssumption
      DEF GateInv, TypeOK, Request, InTxn, Status, Row, Write, Key,
          Admit, CountHit
  <1>1. TypeOK'
    OBVIOUS
  <1>2. PendingWrites'
    BY DEF PendingWrites, Tenant
  <1>3. ClaimsHold'
    BY DEF ClaimsHold, PendingWrites
  <1>4. RowsHold'
    BY DEF RowsHold
  <1>5. EffectsHold'
    BY DEF EffectsHold, PendingWrites, Tenant
  <1>6. AnswersHold'
    BY DEF AnswersHold
  <1>7. AtMostOnce'
    BY DEF AtMostOnce, EffectsHold, Tenant
  <1>8. AuditAtomic'
    BY DEF AuditAtomic, PendingWrites, Tenant
  <1>9. AnswerIsCommitted'
    BY DEF AnswerIsCommitted, RowsHold
  <1>10. RefusalLeavesNoTrace'
    BY DEF RefusalLeavesNoTrace, EffectsHold, AuditAtomic, AnswersHold, Tenant
  <1>11. QED
    BY <1>1, <1>2, <1>3, <1>4, <1>5, <1>6, <1>7, <1>8, <1>9, <1>10

\* The limiter turns the call away.
LEMMA LimitStep ==
  ASSUME GateInv, NEW c \in Calls, Limit(c)
  PROVE  GateInv'
  <1> USE NoCallAssumption, NoRowAssumption
      DEF GateInv, TypeOK, Request, InTxn, Status, Row, Write, Key,
          Limit, Leave, CountHit
  <1>1. TypeOK'
    OBVIOUS
  <1>2. PendingWrites'
    BY DEF PendingWrites, Tenant
  <1>3. ClaimsHold'
    BY DEF ClaimsHold, PendingWrites
  <1>4. RowsHold'
    BY DEF RowsHold
  <1>5. EffectsHold'
    BY DEF EffectsHold, PendingWrites, Tenant
  <1>6. AnswersHold'
    BY DEF AnswersHold
  <1>7. AtMostOnce'
    BY DEF AtMostOnce, EffectsHold, Tenant
  <1>8. AuditAtomic'
    BY DEF AuditAtomic, PendingWrites, Tenant
  <1>9. AnswerIsCommitted'
    BY DEF AnswerIsCommitted, RowsHold
  <1>10. RefusalLeavesNoTrace'
    BY DEF RefusalLeavesNoTrace, EffectsHold, AuditAtomic, AnswersHold, Tenant
  <1>11. QED
    BY <1>1, <1>2, <1>3, <1>4, <1>5, <1>6, <1>7, <1>8, <1>9, <1>10

\* The transaction opens with no writes.
LEMMA BeginStep ==
  ASSUME GateInv, NEW c \in Calls, Begin(c)
  PROVE  GateInv'
  <1> USE NoCallAssumption, NoRowAssumption
      DEF GateInv, TypeOK, Request, InTxn, Status, Row, Write, Key,
          Begin
  <1>1. TypeOK'
    OBVIOUS
  <1>2. PendingWrites'
    BY DEF PendingWrites, Tenant
  <1>3. ClaimsHold'
    BY DEF ClaimsHold, PendingWrites
  <1>4. RowsHold'
    BY DEF RowsHold
  <1>5. EffectsHold'
    BY DEF EffectsHold, PendingWrites, Tenant
  <1>6. AnswersHold'
    BY DEF AnswersHold
  <1>7. AtMostOnce'
    BY DEF AtMostOnce, EffectsHold, Tenant
  <1>8. AuditAtomic'
    BY DEF AuditAtomic, PendingWrites, Tenant
  <1>9. AnswerIsCommitted'
    BY DEF AnswerIsCommitted, RowsHold
  <1>10. RefusalLeavesNoTrace'
    BY DEF RefusalLeavesNoTrace, EffectsHold, AuditAtomic, AnswersHold, Tenant
  <1>11. QED
    BY <1>1, <1>2, <1>3, <1>4, <1>5, <1>6, <1>7, <1>8, <1>9, <1>10

\* The claim finds the key free and unclaimed: ClaimsHold gains a claimant.
LEMMA ClaimKeyStep ==
  ASSUME GateInv, NEW c \in Calls, ClaimKey(c)
  PROVE  GateInv'
  <1> USE NoCallAssumption, NoRowAssumption
      DEF GateInv, TypeOK, Request, InTxn, Status, Row, Write, Key,
          ClaimKey, Statement, Claimants
  <1>1. TypeOK'
    OBVIOUS
  <1>2. PendingWrites'
    BY DEF PendingWrites, Tenant
  <1>3. ClaimsHold'
    BY DEF ClaimsHold, PendingWrites
  <1>4. RowsHold'
    BY DEF RowsHold
  <1>5. EffectsHold'
    BY DEF EffectsHold, PendingWrites, Tenant, ClaimsHold
  <1>6. AnswersHold'
    BY DEF AnswersHold
  <1>7. AtMostOnce'
    BY DEF AtMostOnce, EffectsHold, Tenant, PendingWrites
  <1>8. AuditAtomic'
    BY DEF AuditAtomic, PendingWrites, Tenant
  <1>9. AnswerIsCommitted'
    BY DEF AnswerIsCommitted, RowsHold
  <1>10. RefusalLeavesNoTrace'
    BY DEF RefusalLeavesNoTrace, EffectsHold, AuditAtomic, AnswersHold, Tenant
  <1>11. QED
    BY <1>1, <1>2, <1>3, <1>4, <1>5, <1>6, <1>7, <1>8, <1>9, <1>10

\* The insert is turned away.
LEMMA KeyTakenStep ==
  ASSUME GateInv, NEW c \in Calls, KeyTaken(c)
  PROVE  GateInv'
  <1> USE NoCallAssumption, NoRowAssumption
      DEF GateInv, TypeOK, Request, InTxn, Status, Row, Write, Key,
          KeyTaken, Claimants
  <1>1. TypeOK'
    OBVIOUS
  <1>2. PendingWrites'
    BY DEF PendingWrites, Tenant
  <1>3. ClaimsHold'
    BY DEF ClaimsHold, PendingWrites
  <1>4. RowsHold'
    BY DEF RowsHold
  <1>5. EffectsHold'
    BY DEF EffectsHold, PendingWrites, Tenant
  <1>6. AnswersHold'
    BY DEF AnswersHold
  <1>7. AtMostOnce'
    BY DEF AtMostOnce, EffectsHold, Tenant
  <1>8. AuditAtomic'
    BY DEF AuditAtomic, PendingWrites, Tenant
  <1>9. AnswerIsCommitted'
    BY DEF AnswerIsCommitted, RowsHold
  <1>10. RefusalLeavesNoTrace'
    BY DEF RefusalLeavesNoTrace, EffectsHold, AuditAtomic, AnswersHold, Tenant
  <1>11. QED
    BY <1>1, <1>2, <1>3, <1>4, <1>5, <1>6, <1>7, <1>8, <1>9, <1>10

\* The row answers: RowsHold makes its call a committed one.
LEMMA ReplayStep ==
  ASSUME GateInv, NEW c \in Calls, Replay(c)
  PROVE  GateInv'
  <1> USE NoCallAssumption, NoRowAssumption
      DEF GateInv, TypeOK, Request, InTxn, Status, Row, Write, Key,
          Replay, Leave, Replays
  <1>1. TypeOK'
    OBVIOUS
  <1>2. PendingWrites'
    BY DEF PendingWrites, Tenant
  <1>3. ClaimsHold'
    BY DEF ClaimsHold, PendingWrites
  <1>4. RowsHold'
    BY DEF RowsHold
  <1>5. EffectsHold'
    BY DEF EffectsHold, PendingWrites, Tenant
  <1>6. AnswersHold'
    BY DEF AnswersHold
  <1>7. AtMostOnce'
    BY DEF AtMostOnce, EffectsHold, Tenant
  <1>8. AuditAtomic'
    BY DEF AuditAtomic, PendingWrites, Tenant
  <1>9. AnswerIsCommitted'
    BY DEF AnswerIsCommitted, RowsHold
  <1>10. RefusalLeavesNoTrace'
    BY DEF RefusalLeavesNoTrace, EffectsHold, AuditAtomic, AnswersHold, Tenant
  <1>11. QED
    BY <1>1, <1>2, <1>3, <1>4, <1>5, <1>6, <1>7, <1>8, <1>9, <1>10

\* The row does not answer.
LEMMA ConflictStep ==
  ASSUME GateInv, NEW c \in Calls, Conflict(c)
  PROVE  GateInv'
  <1> USE NoCallAssumption, NoRowAssumption
      DEF GateInv, TypeOK, Request, InTxn, Status, Row, Write, Key,
          Conflict, Leave, Replays
  <1>1. TypeOK'
    OBVIOUS
  <1>2. PendingWrites'
    BY DEF PendingWrites, Tenant
  <1>3. ClaimsHold'
    BY DEF ClaimsHold, PendingWrites
  <1>4. RowsHold'
    BY DEF RowsHold
  <1>5. EffectsHold'
    BY DEF EffectsHold, PendingWrites, Tenant
  <1>6. AnswersHold'
    BY DEF AnswersHold
  <1>7. AtMostOnce'
    BY DEF AtMostOnce, EffectsHold, Tenant
  <1>8. AuditAtomic'
    BY DEF AuditAtomic, PendingWrites, Tenant
  <1>9. AnswerIsCommitted'
    BY DEF AnswerIsCommitted, RowsHold
  <1>10. RefusalLeavesNoTrace'
    BY DEF RefusalLeavesNoTrace, EffectsHold, AuditAtomic, AnswersHold, Tenant
  <1>11. QED
    BY <1>1, <1>2, <1>3, <1>4, <1>5, <1>6, <1>7, <1>8, <1>9, <1>10

\* The handler's writes join the pending ones.
LEMMA RunHandlerStep ==
  ASSUME GateInv, NEW c \in Calls, RunHandler(c)
  PROVE  GateInv'
  <1> USE NoCallAssumption, NoRowAssumption
      DEF GateInv, TypeOK, Request, InTxn, Status, Row, Write, Key,
          RunHandler, Statement
  <1>1. TypeOK'
    OBVIOUS
  <1>2. PendingWrites'
    BY DEF PendingWrites, Tenant
  <1>3. ClaimsHold'
    BY DEF ClaimsHold, PendingWrites
  <1>4. RowsHold'
    BY DEF RowsHold
  <1>5. EffectsHold'
    BY DEF EffectsHold, PendingWrites, Tenant
  <1>6. AnswersHold'
    BY DEF AnswersHold
  <1>7. AtMostOnce'
    BY DEF AtMostOnce, EffectsHold, Tenant
  <1>8. AuditAtomic'
    BY DEF AuditAtomic, PendingWrites, Tenant
  <1>9. AnswerIsCommitted'
    BY DEF AnswerIsCommitted, RowsHold
  <1>10. RefusalLeavesNoTrace'
    BY DEF RefusalLeavesNoTrace, EffectsHold, AuditAtomic, AnswersHold, Tenant
  <1>11. QED
    BY <1>1, <1>2, <1>3, <1>4, <1>5, <1>6, <1>7, <1>8, <1>9, <1>10

\* The handler opens a transaction of its own.
LEMMA BeginNestedStep ==
  ASSUME GateInv, NEW c \in Calls, BeginNested(c)
  PROVE  GateInv'
  <1> USE NoCallAssumption, NoRowAssumption
      DEF GateInv, TypeOK, Request, InTxn, Status, Row, Write, Key,
          BeginNested
  <1>1. TypeOK'
    OBVIOUS
  <1>2. PendingWrites'
    BY DEF PendingWrites, Tenant
  <1>3. ClaimsHold'
    BY DEF ClaimsHold, PendingWrites
  <1>4. RowsHold'
    BY DEF RowsHold
  <1>5. EffectsHold'
    BY DEF EffectsHold, PendingWrites, Tenant
  <1>6. AnswersHold'
    BY DEF AnswersHold
  <1>7. AtMostOnce'
    BY DEF AtMostOnce, EffectsHold, Tenant
  <1>8. AuditAtomic'
    BY DEF AuditAtomic, PendingWrites, Tenant
  <1>9. AnswerIsCommitted'
    BY DEF AnswerIsCommitted, RowsHold
  <1>10. RefusalLeavesNoTrace'
    BY DEF RefusalLeavesNoTrace, EffectsHold, AuditAtomic, AnswersHold, Tenant
  <1>11. QED
    BY <1>1, <1>2, <1>3, <1>4, <1>5, <1>6, <1>7, <1>8, <1>9, <1>10

\* Only a call that is not Tenant gets its effect committed early.
LEMMA CommitNestedStep ==
  ASSUME GateInv, NEW c \in Calls, CommitNested(c)
  PROVE  GateInv'
  <1> USE NoCallAssumption, NoRowAssumption
      DEF GateInv, TypeOK, Request, InTxn, Status, Row, Write, Key,
          CommitNested
  <1>1. TypeOK'
    OBVIOUS
  <1>2. PendingWrites'
    BY DEF PendingWrites, Tenant
  <1>3. ClaimsHold'
    BY DEF ClaimsHold, PendingWrites
  <1>4. RowsHold'
    BY DEF RowsHold
  <1>5. EffectsHold'
    BY DEF EffectsHold, PendingWrites, Tenant
  <1>6. AnswersHold'
    BY DEF AnswersHold
  <1>7. AtMostOnce'
    BY DEF AtMostOnce, EffectsHold, Tenant, PendingWrites
  <1>8. AuditAtomic'
    BY DEF AuditAtomic, PendingWrites, Tenant
  <1>9. AnswerIsCommitted'
    BY DEF AnswerIsCommitted, RowsHold
  <1>10. RefusalLeavesNoTrace'
    BY DEF RefusalLeavesNoTrace, EffectsHold, AuditAtomic, AnswersHold, Tenant
  <1>11. QED
    BY <1>1, <1>2, <1>3, <1>4, <1>5, <1>6, <1>7, <1>8, <1>9, <1>10

\* The audit row joins the pending writes.
LEMMA WriteAuditStep ==
  ASSUME GateInv, NEW c \in Calls, WriteAudit(c)
  PROVE  GateInv'
  <1> USE NoCallAssumption, NoRowAssumption
      DEF GateInv, TypeOK, Request, InTxn, Status, Row, Write, Key,
          WriteAudit, Statement
  <1>1. TypeOK'
    OBVIOUS
  <1>2. PendingWrites'
    BY DEF PendingWrites, Tenant
  <1>3. ClaimsHold'
    BY DEF ClaimsHold, PendingWrites
  <1>4. RowsHold'
    BY DEF RowsHold
  <1>5. EffectsHold'
    BY DEF EffectsHold, PendingWrites, Tenant
  <1>6. AnswersHold'
    BY DEF AnswersHold
  <1>7. AtMostOnce'
    BY DEF AtMostOnce, EffectsHold, Tenant
  <1>8. AuditAtomic'
    BY DEF AuditAtomic, PendingWrites, Tenant
  <1>9. AnswerIsCommitted'
    BY DEF AnswerIsCommitted, RowsHold
  <1>10. RefusalLeavesNoTrace'
    BY DEF RefusalLeavesNoTrace, EffectsHold, AuditAtomic, AnswersHold, Tenant
  <1>11. QED
    BY <1>1, <1>2, <1>3, <1>4, <1>5, <1>6, <1>7, <1>8, <1>9, <1>10

\* The stored response joins the pending writes.
LEMMA CompleteKeyStep ==
  ASSUME GateInv, NEW c \in Calls, CompleteKey(c)
  PROVE  GateInv'
  <1> USE NoCallAssumption, NoRowAssumption
      DEF GateInv, TypeOK, Request, InTxn, Status, Row, Write, Key,
          CompleteKey, Statement
  <1>1. TypeOK'
    OBVIOUS
  <1>2. PendingWrites'
    BY DEF PendingWrites, Tenant
  <1>3. ClaimsHold'
    BY DEF ClaimsHold, PendingWrites
  <1>4. RowsHold'
    BY DEF RowsHold
  <1>5. EffectsHold'
    BY DEF EffectsHold, PendingWrites, Tenant
  <1>6. AnswersHold'
    BY DEF AnswersHold
  <1>7. AtMostOnce'
    BY DEF AtMostOnce, EffectsHold, Tenant
  <1>8. AuditAtomic'
    BY DEF AuditAtomic, PendingWrites, Tenant
  <1>9. AnswerIsCommitted'
    BY DEF AnswerIsCommitted, RowsHold
  <1>10. RefusalLeavesNoTrace'
    BY DEF RefusalLeavesNoTrace, EffectsHold, AuditAtomic, AnswersHold, Tenant
  <1>11. QED
    BY <1>1, <1>2, <1>3, <1>4, <1>5, <1>6, <1>7, <1>8, <1>9, <1>10

\* The handler throws: a Tenant call in a transaction has no committed effect.
LEMMA RejectStep ==
  ASSUME GateInv, NEW c \in Calls, Reject(c)
  PROVE  GateInv'
  <1> USE NoCallAssumption, NoRowAssumption
      DEF GateInv, TypeOK, Request, InTxn, Status, Row, Write, Key,
          Reject, Leave
  <1>1. TypeOK'
    OBVIOUS
  <1>2. PendingWrites'
    BY DEF PendingWrites, Tenant
  <1>3. ClaimsHold'
    BY DEF ClaimsHold, PendingWrites
  <1>4. RowsHold'
    BY DEF RowsHold
  <1>5. EffectsHold'
    BY DEF EffectsHold, PendingWrites, Tenant
  <1>6. AnswersHold'
    BY DEF AnswersHold
  <1>7. AtMostOnce'
    BY DEF AtMostOnce, EffectsHold, Tenant
  <1>8. AuditAtomic'
    BY DEF AuditAtomic, PendingWrites, Tenant
  <1>9. AnswerIsCommitted'
    BY DEF AnswerIsCommitted, RowsHold
  <1>10. RefusalLeavesNoTrace'
    BY DEF RefusalLeavesNoTrace, EffectsHold, AuditAtomic, AnswersHold, Tenant
  <1>11. QED
    BY <1>1, <1>2, <1>3, <1>4, <1>5, <1>6, <1>7, <1>8, <1>9, <1>10

\* The transaction is lost with everything it held.
LEMMA CrashStep ==
  ASSUME GateInv, NEW c \in Calls, Crash(c)
  PROVE  GateInv'
  <1> USE NoCallAssumption, NoRowAssumption
      DEF GateInv, TypeOK, Request, InTxn, Status, Row, Write, Key,
          Crash, Leave
  <1>1. TypeOK'
    OBVIOUS
  <1>2. PendingWrites'
    BY DEF PendingWrites, Tenant
  <1>3. ClaimsHold'
    BY DEF ClaimsHold, PendingWrites
  <1>4. RowsHold'
    BY DEF RowsHold
  <1>5. EffectsHold'
    BY DEF EffectsHold, PendingWrites, Tenant
  <1>6. AnswersHold'
    BY DEF AnswersHold
  <1>7. AtMostOnce'
    BY DEF AtMostOnce, EffectsHold, Tenant
  <1>8. AuditAtomic'
    BY DEF AuditAtomic, PendingWrites, Tenant
  <1>9. AnswerIsCommitted'
    BY DEF AnswerIsCommitted, RowsHold
  <1>10. RefusalLeavesNoTrace'
    BY DEF RefusalLeavesNoTrace, EffectsHold, AuditAtomic, AnswersHold, Tenant
  <1>11. QED
    BY <1>1, <1>2, <1>3, <1>4, <1>5, <1>6, <1>7, <1>8, <1>9, <1>10

\* The commit moves every pending write into the tables at once: the key was
\* free, so the new row takes nobody's place.
LEMMA CommitStep ==
  ASSUME GateInv, NEW c \in Calls, Commit(c)
  PROVE  GateInv'
  <1> USE NoCallAssumption, NoRowAssumption
      DEF GateInv, TypeOK, Request, InTxn, Status, Row, Write
  <1> DEFINE row == [body |-> request[c].body, by |-> c, completed |-> TRUE]
  <1>1. /\ pc[c] = "completed"
        /\ {"claim", "audit", "complete"} \subseteq txn[c]
        /\ Tenant(c) <=> "effect" \in txn[c]
    BY DEF Commit, PendingWrites
  <1>2. /\ table[Key(c)] = NoRow
        /\ era[c] = sweeps[Key(c)]
        /\ \A d \in Calls : "claim" \in txn[d] /\ Key(d) = Key(c) => d = c
    BY <1>1 DEF ClaimsHold
  <1>3. /\ \A d \in Calls : Key(d)' = Key(d) /\ Tenant(d)' = Tenant(d) /\ Key(d) \in Keys
        /\ UNCHANGED <<request, hits, sweeps, era>>
    BY DEF Commit, Key, Tenant
  <1>4. /\ table' = [table EXCEPT ![Key(c)] = row]
        /\ effects' = effects \cup {c}
        /\ audit' = audit \cup {c}
    <2>1. ~Tenant(c) => c \in effects
      BY <1>1 DEF EffectsHold
    <2>2. table' = [table EXCEPT ![Key(c)] = row]
      <3>1. ("complete" \in txn[c]) = TRUE
        BY <1>1
      <3>2. QED
        BY <3>1, Zenon DEF Commit, Publish
    <2>3. audit' = audit \cup {c} /\ effects' = effects \cup {c}
      BY <1>1, <2>1 DEF Commit, Publish
    <2>4. QED
      BY <2>2, <2>3
  <1>5. /\ pc' = [pc EXCEPT ![c] = "done"]
        /\ txn' = [txn EXCEPT ![c] = {}]
        /\ \/ answer' = [answer EXCEPT ![c] = [status |-> "ok", by |-> c]]
           \/ answer' = [answer EXCEPT ![c] = [status |-> "lost", by |-> NoCall]]
    BY DEF Commit, Leave
  <1>6. row \in Row /\ row # NoRow
    <2>1. request[c].body \in Bodies
      OBVIOUS
    <2>2. row \in Row
      BY <2>1
    <2>3. QED
      BY <2>2 DEF Row
  <1>7. TypeOK'
    <2>1. table' \in [Keys -> Row \cup {NoRow}]
      BY <1>4, <1>6
    <2>2. QED
      BY <1>3, <1>4, <1>5, <2>1, SMTT(30)
  <1>8. PendingWrites'
    BY <1>3, <1>5 DEF PendingWrites
  <1>9. ClaimsHold'
    <2>1. \A d \in Calls : "claim" \in txn[d]' => d # c /\ "claim" \in txn[d]
      BY <1>5
    <2>2. \A d \in Calls : "claim" \in txn[d]' => table'[Key(d)] = table[Key(d)]
      BY <1>2, <1>3, <1>4, <2>1
    <2>3. QED
      BY <1>3, <2>1, <2>2 DEF ClaimsHold
  <1>10. RowsHold'
    <2>1. ASSUME NEW k \in Keys, k # Key(c), table'[k] # NoRow
          PROVE  table'[k] = table[k] /\ table[k].by \in Calls
      BY <1>3, <1>4, <2>1
    <2>2. table'[Key(c)] = row
      BY <1>3, <1>4
    <2>3. QED
      BY <1>3, <1>4, <2>1, <2>2 DEF RowsHold
  <1>11. EffectsHold'
    <2>1. ASSUME NEW d \in effects', Tenant(d)
          PROVE  /\ pc'[d] = "done"
                 /\ era[d] <= sweeps[Key(d)]
                 /\ era[d] = sweeps[Key(d)] =>
                       table'[Key(d)] # NoRow /\ table'[Key(d)].by = d
      <3>1. CASE d = c
        <4>1. table'[Key(c)] = row /\ row.by = c
          BY <1>3, <1>4
        <4>2. QED
          BY <1>2, <1>3, <1>5, <1>6, <3>1, <4>1
      <3>2. CASE d # c
        <4>1. d \in effects /\ d \in Calls /\ pc[d] = "done"
          BY <1>4, <2>1, <3>2 DEF EffectsHold
        <4>2. era[d] = sweeps[Key(d)] => Key(d) # Key(c)
          BY <1>2, <2>1, <4>1 DEF EffectsHold
        <4>3. Key(d) # Key(c) => table'[Key(d)] = table[Key(d)]
          BY <1>3, <1>4, <4>1
        <4>4. QED
          BY <1>5, <2>1, <3>2, <4>1, <4>2, <4>3 DEF EffectsHold
      <3>3. QED
        BY <3>1, <3>2
    <2>2. ASSUME NEW d \in Calls, ~Tenant(d),
                 pc'[d] \in {"handled", "audited", "completed"}
          PROVE  d \in effects'
      BY <1>4, <1>5, <2>2 DEF EffectsHold
    <2>3. QED
      BY <1>3, <1>4, <2>1, <2>2 DEF EffectsHold
  <1>12. AnswersHold'
    BY <1>5 DEF AnswersHold
  <1>13. AuditAtomic'
    BY <1>3, <1>4 DEF AuditAtomic
  <1>14. AnswerIsCommitted'
    BY <1>3, <1>4, <1>5, SMTT(30) DEF AnswerIsCommitted
  <1>15. RefusalLeavesNoTrace'
    BY <1>3, <1>4, <1>5 DEF RefusalLeavesNoTrace
  <1>16. AtMostOnce'
    <2>1. ASSUME NEW d \in effects, d # c, Tenant(d), Key(d) = Key(c)
          PROVE  era[d] # era[c]
      BY <1>2, <2>1 DEF EffectsHold
    <2>2. \A d, e \in effects :
              Tenant(d) /\ Tenant(e) /\ Key(d) = Key(e) /\ era[d] = era[e] => d = e
      BY DEF AtMostOnce
    <2>3. QED
      BY <1>3, <1>4, <2>1, <2>2 DEF AtMostOnce
  <1>17. QED
    BY <1>7, <1>8, <1>9, <1>10, <1>11, <1>12, <1>13, <1>14, <1>15, <1>16

-----------------------------------------------------------------------------

\* The limiter's window and the clock touch no call.
LEMMA ResetWindowStep ==
  ASSUME GateInv, NEW a \in Actors, ResetWindow(a)
  PROVE  GateInv'
  BY DEF GateInv, ResetWindow, TypeOK, InTxn, Key, Tenant, PendingWrites,
         ClaimsHold, RowsHold, EffectsHold, AnswersHold, AtMostOnce, AuditAtomic,
         AnswerIsCommitted, RefusalLeavesNoTrace

\* The sweep ends the key's era, so the call the row named is of a past one;
\* a key with a row has no claimant whose era could end.
LEMMA SweepStep ==
  ASSUME GateInv, NEW k \in Keys, Sweep(k)
  PROVE  GateInv'
  <1> USE NoRowAssumption DEF GateInv, TypeOK, Request, Row, InTxn, Key, Sweep
  <1>1. TypeOK'
    OBVIOUS
  <1>2. PendingWrites' /\ AnswersHold' /\ AtMostOnce' /\ AuditAtomic'
        /\ AnswerIsCommitted' /\ RefusalLeavesNoTrace'
    BY DEF PendingWrites, AnswersHold, AtMostOnce, AuditAtomic, AnswerIsCommitted,
           RefusalLeavesNoTrace, Tenant
  <1>3. ClaimsHold'
    BY DEF ClaimsHold
  <1>4. RowsHold'
    BY DEF RowsHold
  <1>5. EffectsHold'
    BY DEF EffectsHold, Tenant
  <1>6. QED
    BY <1>1, <1>2, <1>3, <1>4, <1>5

\* The invariant is inductive: every step of a call, of the limiter's clock and of
\* the sweep keeps it.
LEMMA NextGateInv == GateInv /\ [Next]_vars => GateInv'
  <1> SUFFICES ASSUME GateInv, [Next]_vars
               PROVE  GateInv'
    OBVIOUS
  <1>1. ASSUME NEW c \in Calls, Step(c)
        PROVE  GateInv'
    BY <1>1, DenyStep, AdmitStep, LimitStep, BeginStep, ClaimKeyStep,
       KeyTakenStep, ReplayStep, ConflictStep, RunHandlerStep,
       BeginNestedStep, CommitNestedStep, WriteAuditStep, CompleteKeyStep,
       CommitStep, RejectStep, CrashStep
    DEF Step, Progress
  <1>2. ASSUME NEW a \in Actors, ResetWindow(a)
        PROVE  GateInv'
    BY <1>2, ResetWindowStep
  <1>3. ASSUME NEW k \in Keys, Sweep(k)
        PROVE  GateInv'
    BY <1>3, SweepStep
  <1>4. CASE UNCHANGED vars
    BY <1>4 DEF vars, GateInv, TypeOK, InTxn, Key, Tenant, PendingWrites,
         ClaimsHold, RowsHold, EffectsHold, AnswersHold, AtMostOnce, AuditAtomic,
         AnswerIsCommitted, RefusalLeavesNoTrace
  <1>5. QED
    BY <1>1, <1>2, <1>3, <1>4 DEF Next

\* Every reachable state of the gate satisfies the inductive invariant.
THEOREM GateInvariant == Spec => []GateInv
  <1>1. QED
    BY InitGateInv, NextGateInv, PTL DEF Spec

-----------------------------------------------------------------------------

\* The gate's variables keep their types (src/gate/mutation-gate.ts).
THEOREM TypeCorrect == Spec => []TypeOK
  <1>1. GateInv => TypeOK
    BY DEF GateInv
  <1>2. QED
    BY <1>1, GateInvariant, PTL

\* Two committed executions of one key by handlers that write through ctx.tx
\* are separated by a retention sweep (idempotency claim, lines 110-157).
THEOREM ExecutesAtMostOnce == Spec => []AtMostOnce
  <1>1. GateInv => AtMostOnce
    BY DEF GateInv
  <1>2. QED
    BY <1>1, GateInvariant, PTL

\* The handler's writes and the audit row commit together (lines 32-33).
THEOREM AuditIsAtomic == Spec => []AuditAtomic
  <1>1. GateInv => AuditAtomic
    BY DEF GateInv
  <1>2. QED
    BY <1>1, GateInvariant, PTL

\* Every "ok" carries the response of a committed, audited execution of the
\* same key and body (the replay branch, lines 147-154).
THEOREM AnswersAreCommitted == Spec => []AnswerIsCommitted
  <1>1. GateInv => AnswerIsCommitted
    BY DEF GateInv
  <1>2. QED
    BY <1>1, GateInvariant, PTL

\* A refused call has changed nothing (lines 32 and 198-211).
THEOREM RefusalsLeaveNoTrace == Spec => []RefusalLeavesNoTrace
  <1>1. GateInv => RefusalLeavesNoTrace
    BY DEF GateInv
  <1>2. QED
    BY <1>1, GateInvariant, PTL

\* No transaction ever reads a committed key that is incomplete (line 156).
THEOREM KeysAreComplete == Spec => []CommittedKeysComplete
  <1>1. GateInv => CommittedKeysComplete
    BY DEF GateInv, RowsHold, CommittedKeysComplete
  <1>2. QED
    BY <1>1, GateInvariant, PTL

-----------------------------------------------------------------------------
(* The rate limiter *)

\* The calls of a's window that the limiter did not turn away.
Passed(a) == {c \in hits[a] : answer[c].status # "limited"}

WindowInv ==
    /\ \A a \in Actors : IsFiniteSet(hits[a])
    /\ WindowBudget

LEMMA InitWindowInv == Init => WindowInv
  <1> SUFFICES ASSUME Init, NEW a \in Actors
               PROVE  IsFiniteSet(hits[a]) /\ Cardinality(Passed(a)) <= MaxHits
    BY DEF WindowInv, WindowBudget, Passed
  <1>1. hits[a] = {} /\ Passed(a) = {}
    BY DEF Init, Passed
  <1>2. QED
    BY <1>1, FS_EmptySet, BoundsAssumption

\* Where the windows stand and no more calls of them have passed, the budget
\* is kept.
LEMMA FewerPassed ==
  ASSUME WindowInv, hits' = hits,
         \A a \in Actors : Passed(a)' \subseteq Passed(a)
  PROVE  WindowInv'
  <1> SUFFICES ASSUME NEW a \in Actors
               PROVE  IsFiniteSet(hits[a])' /\ (Cardinality(Passed(a)) <= MaxHits)'
    BY DEF WindowInv, WindowBudget, Passed
  <1>1. /\ IsFiniteSet(hits[a])
        /\ Cardinality(Passed(a)) <= MaxHits
        /\ Passed(a) \in SUBSET hits[a]
    BY DEF WindowInv, WindowBudget, Passed
  <1>2. IsFiniteSet(Passed(a)) /\ Cardinality(Passed(a)) \in Nat
    BY <1>1, FS_Subset, FS_CardinalityType
  <1>3. /\ IsFiniteSet(Passed(a)')
        /\ Cardinality(Passed(a)') <= Cardinality(Passed(a))
        /\ Cardinality(Passed(a)') \in Nat
    BY <1>2, FS_Subset, FS_CardinalityType
  <1>4. QED
    BY <1>1, <1>2, <1>3, BoundsAssumption

\* A call that leaves with another answer than "limited" had passed before, if
\* it was counted: it had no answer yet.
LEMMA LeavePassed ==
  ASSUME GateInv, WindowInv, NEW c \in Calls, NEW s \in Status, NEW by,
         pc[c] # "done", s # "limited", Leave(c, s, by), hits' = hits
  PROVE  WindowInv'
  <1>1. answer[c].status = "none"
    BY DEF GateInv, AnswersHold
  <1>2. \A a \in Actors : Passed(a)' \subseteq Passed(a)
    BY <1>1 DEF GateInv, TypeOK, Leave, Passed
  <1>3. QED
    BY <1>2, FewerPassed

\* CountHit makes one window larger by one call.
LEMMA CountHitGrows ==
  ASSUME GateInv, WindowInv, NEW c \in Calls, CountHit(c)
  PROVE  \A a \in Actors :
             /\ hits'[a] = IF a = request[c].actor THEN hits[a] \cup {c} ELSE hits[a]
             /\ IsFiniteSet(hits'[a])
  <1> TAKE a \in Actors
  <1>1. hits'[a] = IF a = request[c].actor THEN hits[a] \cup {c} ELSE hits[a]
    BY DEF GateInv, TypeOK, CountHit
  <1>2. IsFiniteSet(hits[a] \cup {c}) /\ IsFiniteSet(hits[a])
    BY FS_AddElement DEF WindowInv
  <1>3. QED
    BY <1>1, <1>2

\* The call that is let through is one of at most MaxHits that were counted.
LEMMA AdmitWindow ==
  ASSUME GateInv, WindowInv, NEW c \in Calls, Admit(c)
  PROVE  WindowInv'
  <1> SUFFICES ASSUME NEW a \in Actors
               PROVE  IsFiniteSet(hits[a])' /\ (Cardinality(Passed(a)) <= MaxHits)'
    BY DEF WindowInv, WindowBudget, Passed
  <1>1. /\ hits'[a] = IF a = request[c].actor THEN hits[a] \cup {c} ELSE hits[a]
        /\ IsFiniteSet(hits'[a])
    BY CountHitGrows DEF Admit
  <1>2. CASE a = request[c].actor
    <2>1. Cardinality(hits'[a]) <= MaxHits
      BY <1>2 DEF Admit, WithinLimit
    <2>2. Passed(a)' \in SUBSET hits'[a]
      BY DEF Passed
    <2>3. /\ Cardinality(Passed(a)') <= Cardinality(hits'[a])
          /\ IsFiniteSet(Passed(a)')
      BY <1>1, <2>2, FS_Subset
    <2>4. Cardinality(Passed(a)') \in Nat /\ Cardinality(hits'[a]) \in Nat
      BY <1>1, <2>3, FS_CardinalityType
    <2>5. QED
      BY <1>1, <2>1, <2>3, <2>4, BoundsAssumption
  <1>3. CASE a # request[c].actor
    <2>1. Passed(a)' = Passed(a)
      BY <1>1, <1>3 DEF Admit, Passed
    <2>2. QED
      BY <1>1, <2>1 DEF WindowInv, WindowBudget, Passed
  <1>4. QED
    BY <1>2, <1>3

\* A call that is turned away is counted, but not among those that passed.
LEMMA LimitWindow ==
  ASSUME GateInv, WindowInv, NEW c \in Calls, Limit(c)
  PROVE  WindowInv'
  <1> SUFFICES ASSUME NEW a \in Actors
               PROVE  IsFiniteSet(hits[a])' /\ (Cardinality(Passed(a)) <= MaxHits)'
    BY DEF WindowInv, WindowBudget, Passed
  <1>1. /\ hits'[a] = IF a = request[c].actor THEN hits[a] \cup {c} ELSE hits[a]
        /\ IsFiniteSet(hits'[a])
    BY CountHitGrows DEF Limit
  <1>2. answer[c].status = "none"
    BY DEF GateInv, AnswersHold, Limit
  <1>3. \A d \in Calls :
            answer'[d].status = IF d = c THEN "limited" ELSE answer[d].status
    BY DEF GateInv, TypeOK, Limit, Leave
  <1>4. hits[a] \subseteq Calls
    BY DEF GateInv, TypeOK
  <1>5. Passed(a)' \in SUBSET Passed(a)
    BY <1>1, <1>3, <1>4 DEF Passed
  <1>6. /\ IsFiniteSet(Passed(a)) /\ Cardinality(Passed(a)) \in Nat
        /\ Cardinality(Passed(a)) <= MaxHits
    <2>1. Passed(a) \in SUBSET hits[a] /\ IsFiniteSet(hits[a])
      BY DEF Passed, WindowInv
    <2>2. QED
      BY <2>1, FS_Subset, FS_CardinalityType DEF WindowInv, WindowBudget, Passed
  <1>7. /\ Cardinality(Passed(a)') <= Cardinality(Passed(a))
        /\ Cardinality(Passed(a)') \in Nat
    BY <1>5, <1>6, FS_Subset, FS_CardinalityType
  <1>8. QED
    BY <1>1, <1>6, <1>7, BoundsAssumption

\* A fresh window has counted nobody.
LEMMA ResetWindowWindow ==
  ASSUME GateInv, WindowInv, NEW b \in Actors, ResetWindow(b)
  PROVE  WindowInv'
  <1> SUFFICES ASSUME NEW a \in Actors
               PROVE  IsFiniteSet(hits[a])' /\ (Cardinality(Passed(a)) <= MaxHits)'
    BY DEF WindowInv, WindowBudget, Passed
  <1>1. hits'[a] = (IF a = b THEN {} ELSE hits[a]) /\ answer' = answer
    BY DEF GateInv, TypeOK, ResetWindow
  <1>2. CASE a = b
    <2>1. hits'[a] = {} /\ Passed(a)' = {}
      BY <1>1, <1>2 DEF Passed
    <2>2. QED
      BY <2>1, FS_EmptySet, BoundsAssumption
  <1>3. CASE a # b
    BY <1>1, <1>3 DEF WindowInv, WindowBudget, Passed
  <1>4. QED
    BY <1>2, <1>3

\* Every step keeps the budget: a call passes only through Admit.
LEMMA NextWindowInv == GateInv /\ WindowInv /\ [Next]_vars => WindowInv'
  <1> SUFFICES ASSUME GateInv, WindowInv, [Next]_vars
               PROVE  WindowInv'
    OBVIOUS
  <1>1. ASSUME NEW c \in Calls,
               Deny(c) \/ Conflict(c) \/ Reject(c) \/ Crash(c) \/ Replay(c) \/ Commit(c)
        PROVE  WindowInv'
    <2>1. PICK s \in {"ok", "denied", "conflict", "rejected", "lost"},
               by \in Calls \cup {NoCall} : Leave(c, s, by)
      <3>1. CASE Replay(c)
        <4>1. table[Key(c)].by \in Calls
          BY <3>1 DEF GateInv, TypeOK, Request, Row, Replay, Replays, Key
        <4>2. QED
          BY <3>1, <4>1 DEF Replay
      <3>2. CASE ~Replay(c)
        BY <1>1, <3>2 DEF Deny, Conflict, Reject, Crash, Commit
      <3>3. QED
        BY <3>1, <3>2
    <2>2. hits' = hits /\ pc[c] # "done"
      BY <1>1 DEF Deny, Conflict, Reject, Crash, Replay, Commit, InTxn
    <2>3. QED
      BY <2>1, <2>2, LeavePassed DEF Status
  <1>2. ASSUME NEW c \in Calls,
               \/ Begin(c) \/ ClaimKey(c) \/ KeyTaken(c) \/ RunHandler(c)
               \/ BeginNested(c) \/ CommitNested(c) \/ WriteAudit(c) \/ CompleteKey(c)
        PROVE  WindowInv'
    <2>1. hits' = hits /\ answer' = answer
      BY <1>2 DEF Begin, ClaimKey, KeyTaken, RunHandler, BeginNested, CommitNested,
                  WriteAudit, CompleteKey
    <2>2. QED
      BY <2>1, FewerPassed DEF Passed
  <1>3. ASSUME NEW k \in Keys, Sweep(k)
        PROVE  WindowInv'
    BY <1>3, FewerPassed DEF Passed, Sweep
  <1>4. CASE UNCHANGED vars
    BY <1>4, FewerPassed DEF Passed, vars
  <1>5. QED
    BY <1>1, <1>2, <1>3, <1>4, AdmitWindow, LimitWindow, ResetWindowWindow
    DEF Next, Step, Progress

\* Of the calls counted in an actor's window at most MaxHits got past the
\* limiter (the limiter's check in src/gate/mutation-gate.ts counts a call
\* whether or not it passes).
THEOREM WindowsKeepTheirBudget == Spec => []WindowBudget
  <1>1. GateInv /\ WindowInv /\ [Next]_vars /\ GateInv' => WindowInv'
    BY NextWindowInv
  <1>2. WindowInv => WindowBudget
    BY DEF WindowInv
  <1>3. QED
    BY <1>1, <1>2, InitWindowInv, GateInvariant, PTL DEF Spec

-----------------------------------------------------------------------------
(* The keyed ledger *)

\* Initial states map to initial states.
LEMMA InitRefines == Init => Ledger!Init
  <1> SUFFICES ASSUME Init
               PROVE  Ledger!Init
    OBVIOUS
  <1>1. \A c \in Calls : OutcomeOf(c) = "open"
    BY DEF Init, OutcomeOf
  <1>2. QED
    BY <1>1 DEF Init, Request, Ledger!Init

\* A call that is still open and leaves changes its own outcome and no other.
LEMMA LeaveCloses ==
  ASSUME GateInv, NEW c \in Calls, NEW s, NEW by,
         pc[c] # "done", Leave(c, s, by), request' = request,
         NEW o, OutcomeOf(c)' = o
  PROVE  Ledger!Close(c, o)
  <1>1. OutcomeOf(c) = "open"
    BY DEF GateInv, AnswersHold, OutcomeOf
  <1>2. \A d \in Calls \ {c} : OutcomeOf(d)' = OutcomeOf(d)
    BY DEF GateInv, TypeOK, Leave, OutcomeOf
  <1>3. QED
    BY <1>1, <1>2 DEF Ledger!Close

\* The outcomes of all calls stand when the answers do.
LEMMA SameAnswers ==
  ASSUME answer' = answer
  PROVE  [c \in Calls |-> OutcomeOf(c)]' = [c \in Calls |-> OutcomeOf(c)]
  BY DEF OutcomeOf

\* Deny, Limit, Conflict, Reject and Crash refuse.
LEMMA RefusalRefines ==
  ASSUME GateInv, NEW c \in Calls,
         NEW s \in {"denied", "limited", "conflict", "rejected", "lost"},
         pc[c] # "done", Leave(c, s, NoCall),
         UNCHANGED <<request, table, effects, audit>>
  PROVE  Ledger!Refuse(c)
  <1>1. OutcomeOf(c)' \in {"refused", "lost"}
    BY DEF GateInv, TypeOK, Leave, OutcomeOf
  <1>2. Ledger!Close(c, "refused") \/ Ledger!Close(c, "lost")
    BY <1>1, LeaveCloses
  <1>3. QED
    BY <1>2 DEF Ledger!Refuse

\* A served replay.  The row's call is not the one that asks: a call whose
\* work is committed is over.
LEMMA ReplayRefines ==
  ASSUME GateInv, Kinds = {"tenant"}, NEW c \in Calls, Replay(c)
  PROVE  Ledger!Replay(c)
  <1> DEFINE d == table[Key(c)].by
  <1>1. /\ Key(c) \in Keys
        /\ table[Key(c)] # NoRow
        /\ d \in Calls
        /\ d \in effects
        /\ request[d].body = request[c].body
    BY DEF Replay, Replays, GateInv, TypeOK, RowsHold, Request, Key, Row
  <1>2. d # c
    <2>1. Tenant(c)
      BY DEF GateInv, TypeOK, Request, Tenant
    <2>2. QED
      BY <1>1, <2>1 DEF GateInv, EffectsHold, Replay
  <1>3. OutcomeOf(c)' = "replayed"
    BY <1>2 DEF Replay, Leave, GateInv, TypeOK, OutcomeOf
  <1>4. Ledger!Close(c, "replayed")
    BY <1>3, LeaveCloses DEF Replay
  <1>5. d # NoCall
    BY <1>1, NoCallAssumption
  <1>6. UNCHANGED <<table, effects, audit>>
    BY DEF Replay
  <1>7. QED
    BY <1>1, <1>4, <1>5, <1>6 DEF Ledger!Replay, Key

\* A commit executes: the claim kept the key out of the ledger until now.
LEMMA CommitRefines ==
  ASSUME GateInv, NEW c \in Calls, Commit(c), Kinds = {"tenant"}
  PROVE  Ledger!Execute(c)
  <1> DEFINE led == [k \in Keys |-> IF table[k] = NoRow THEN NoCall ELSE table[k].by]
             row == [body |-> request[c].body, by |-> c, completed |-> TRUE]
  <1>1. /\ Tenant(c)
        /\ Key(c) \in Keys
        /\ request[c].body \in Bodies
    BY DEF GateInv, TypeOK, Request, Tenant, Key
  <1>2. /\ pc[c] = "completed"
        /\ {"claim", "audit", "complete", "effect"} \subseteq txn[c]
    BY <1>1 DEF Commit, GateInv, PendingWrites
  <1>3. table[Key(c)] = NoRow
    BY <1>2 DEF GateInv, ClaimsHold
  <1>4. table' = [table EXCEPT ![Key(c)] = row]
    <2>1. ("complete" \in txn[c]) = TRUE
      BY <1>2
    <2>2. QED
      BY <2>1, Zenon DEF Commit, Publish
  <1>5. effects' = effects \cup {c} /\ audit' = audit \cup {c}
    BY <1>2 DEF Commit, Publish
  <1>6. row # NoRow
    <2>1. row \in Row
      BY <1>1 DEF Row
    <2>2. QED
      BY <2>1, NoRowAssumption
  <1>7. led' = [led EXCEPT ![Key(c)] = c]
    <2>1. \A k \in Keys : table'[k] = IF k = Key(c) THEN row ELSE table[k]
      BY <1>4 DEF GateInv, TypeOK
    <2>2. \A k \in Keys : led'[k] = IF k = Key(c) THEN c ELSE led[k]
      BY <2>1, <1>6
    <2>3. QED
      BY <2>2
  <1>8. Ledger!Close(c, "executed") \/ Ledger!Close(c, "lost")
    <2>1. OutcomeOf(c)' = "executed" \/ OutcomeOf(c)' = "lost"
      BY DEF Commit, Leave, GateInv, TypeOK, OutcomeOf
    <2>2. Leave(c, "ok", c) \/ Leave(c, "lost", NoCall)
      BY DEF Commit
    <2>3. request' = request
      BY DEF Commit
    <2>4. QED
      BY <1>2, <2>1, <2>2, <2>3, LeaveCloses
  <1>9. QED
    BY <1>1, <1>3, <1>5, <1>7, <1>8 DEF Ledger!Execute, Key

\* The sweep forgets.
LEMMA SweepRefines ==
  ASSUME GateInv, NEW k \in Keys, Sweep(k)
  PROVE  Ledger!Forget(k)
  <1> DEFINE led == [j \in Keys |-> IF table[j] = NoRow THEN NoCall ELSE table[j].by]
  <1>1. table[k] # NoRow /\ table[k].by \in Calls
    BY DEF Sweep, GateInv, TypeOK, Row
  <1>2. led[k] # NoCall
    BY <1>1, NoCallAssumption
  <1>3. led' = [led EXCEPT ![k] = NoCall]
    BY DEF Sweep, GateInv, TypeOK
  <1>4. [c \in Calls |-> OutcomeOf(c)]' = [c \in Calls |-> OutcomeOf(c)]
    BY SameAnswers DEF Sweep
  <1>5. UNCHANGED <<request, effects, audit>>
    BY DEF Sweep
  <1>6. QED
    BY <1>2, <1>3, <1>4, <1>5 DEF Ledger!Forget

\* A step that leaves the answers and the tables alone is a stutter.
LEMMA QuietRefines ==
  ASSUME UNCHANGED <<request, table, effects, audit, answer>>
  PROVE  UNCHANGED Ledger!lvars
  <1>1. [c \in Calls |-> OutcomeOf(c)]' = [c \in Calls |-> OutcomeOf(c)]
    BY SameAnswers
  <1>2. QED
    BY <1>1 DEF Ledger!lvars

\* Every step maps to a step or a stutter.
LEMMA NextRefines ==
  ASSUME GateInv, Kinds = {"tenant"}, [Next]_vars
  PROVE  [Ledger!Next]_(Ledger!lvars)
  <1>1. ASSUME NEW c \in Calls, Deny(c) \/ Limit(c) \/ Conflict(c) \/ Reject(c) \/ Crash(c)
        PROVE  Ledger!Next
    <2>1. PICK s \in {"denied", "limited", "conflict", "rejected", "lost"} :
              Leave(c, s, NoCall)
      BY <1>1 DEF Deny, Limit, Conflict, Reject, Crash
    <2>2. pc[c] # "done" /\ UNCHANGED <<request, table, effects, audit>>
      BY <1>1 DEF Deny, Limit, Conflict, Reject, Crash, InTxn
    <2>3. Ledger!Refuse(c)
      BY <2>1, <2>2, RefusalRefines
    <2>4. QED
      BY <2>3 DEF Ledger!Next
  <1>2. ASSUME NEW c \in Calls, Replay(c)
        PROVE  Ledger!Next
    BY <1>2, ReplayRefines DEF Ledger!Next
  <1>3. ASSUME NEW c \in Calls, Commit(c)
        PROVE  Ledger!Next
    BY <1>3, CommitRefines DEF Ledger!Next
  <1>4. ASSUME NEW c \in Calls,
               \/ Admit(c) \/ Begin(c) \/ ClaimKey(c) \/ KeyTaken(c)
               \/ RunHandler(c) \/ BeginNested(c) \/ WriteAudit(c) \/ CompleteKey(c)
        PROVE  UNCHANGED Ledger!lvars
    BY <1>4, QuietRefines
    DEF Admit, Begin, ClaimKey, KeyTaken, RunHandler, BeginNested, WriteAudit,
        CompleteKey
  <1>5. ASSUME NEW c \in Calls
        PROVE  ~CommitNested(c)
    <2>1. Tenant(c)
      BY DEF GateInv, TypeOK, Request, Tenant
    <2>2. QED
      BY <2>1 DEF GateInv, PendingWrites, CommitNested
  <1>6. ASSUME NEW a \in Actors, ResetWindow(a)
        PROVE  UNCHANGED Ledger!lvars
    BY <1>6, QuietRefines DEF ResetWindow
  <1>7. ASSUME NEW k \in Keys, Sweep(k)
        PROVE  Ledger!Next
    BY <1>7, SweepRefines DEF Ledger!Next
  <1>8. CASE UNCHANGED vars
    BY <1>8, QuietRefines DEF vars
  <1>9. QED
    BY <1>1, <1>2, <1>3, <1>4, <1>5, <1>6, <1>7, <1>8 DEF Next, Step, Progress

\* The gate implements the keyed ledger (src/gate/mutation-gate.ts lines
\* 21-34) when every handler writes through ctx.tx.
THEOREM GateImplementsLedger ==
  ASSUME Kinds = {"tenant"}
  PROVE  Spec => ImplementsLedger
  <1>1. Init => Ledger!Init
    BY InitRefines
  <1>2. GateInv /\ [Next]_vars => [Ledger!Next]_(Ledger!lvars)
    BY NextRefines
  <1>3. QED
    BY <1>1, <1>2, GateInvariant, PTL DEF Spec, ImplementsLedger, Ledger!Spec

-----------------------------------------------------------------------------
(* Who waits, and for whom *)

\* A call that waits for a key waits for one that runs its handler or is past
\* it, which waits for a connection at most.
LEMMA HolderGoesOn ==
    ASSUME GateInv, NEW c \in Calls, "claim" \in txn[c], Tenant(c) \/ Connections < PoolSize
    PROVE  c \in InGate /\ ~Waits(c)
<1>1. pc[c] \in {"idle", "queued", "done"} \cup InTxn
  BY DEF GateInv, TypeOK
<1>2. pc[c] \notin {"idle", "queued", "claiming", "taken", "done"}
  BY DEF GateInv, PendingWrites
<1>3. QED
  BY <1>1, <1>2 DEF InGate, Waits, InTxn

\* Without a call in a transaction every connection is free.
LEMMA IdlePool ==
    ASSUME GateInv, \A c \in Calls : pc[c] \notin InTxn
    PROVE  Connections < PoolSize
<1>1. {c \in Calls : pc[c] \in InTxn} = {} /\ {c \in Calls : pc[c] = "nested"} = {}
  BY DEF InTxn
<1>2. Connections = 0 + 0
  BY <1>1, FS_EmptySet DEF Connections
<1>3. QED
  BY <1>2, PoolAssumption

LEMMA SomeoneGoes == GateInv => SomeoneGoesOn
<1> SUFFICES ASSUME GateInv, InGate # {}, Connections < PoolSize \/ \A c \in Calls : Tenant(c)
             PROVE  \E c \in InGate : ~Waits(c)
  BY DEF SomeoneGoesOn
<1>1. CASE \A c \in Calls : pc[c] \notin InTxn
  <2>1. Connections < PoolSize
    BY <1>1, IdlePool
  <2>2. PICK c \in Calls : pc[c] = "queued"
    BY <1>1 DEF InGate
  <2>3. c \in InGate /\ ~Waits(c)
    BY <2>1, <2>2 DEF InGate, Waits
  <2>4. QED
    BY <2>3
<1>2. ASSUME NEW c \in Calls, pc[c] \in InTxn PROVE \E d \in InGate : ~Waits(d)
  <2>1. c \in InGate
    BY <1>2 DEF InGate
  <2>2. CASE ~Waits(c)
    BY <2>1, <2>2
  <2>3. CASE Waits(c)
    <3>1. pc[c] # "queued" /\ ~(pc[c] = "handling" /\ ~Tenant(c) /\ ~(Connections < PoolSize))
      BY <1>2 DEF InTxn
    <3>2. PICK d \in Calls : "claim" \in txn[d]
      BY <2>3, <3>1 DEF Waits, Claimants
    <3>3. QED
      BY <3>2, HolderGoesOn
  <2>4. QED
    BY <2>2, <2>3
<1>3. QED
  BY <1>1, <1>2

\* While a connection is free, or no handler asks for a second one, somebody
\* among the admitted calls waits for nobody: neither the pool nor the keys
\* close a cycle of waiting, however many calls, keys and connections there are.
THEOREM WaitingHasAnEnd == Spec => []SomeoneGoesOn
  BY GateInvariant, SomeoneGoes, PTL

-----------------------------------------------------------------------------
(* The mirror: statements that reach whole pairs *)

LEMMA LeastNat ==
    ASSUME NEW S2 \in SUBSET Nat, S2 # {}
    PROVE  \E m \in S2 : \A n \in S2 : m <= n
<1> DEFINE less == {xy \in Nat \X Nat : xy[1] < xy[2]}
<1>1. IsWellFoundedOn(less, Nat)
  BY NatLessThanWellFounded DEF OpToRel
<1>2. PICK m \in S2 : \A n \in S2 : <<n, m>> \notin less
  <2> HIDE DEF less
  <2>1. QED
    BY <1>1, WFMin
<1>3. ASSUME NEW n \in S2 PROVE m <= n
  <2>1. n \in Nat /\ m \in Nat
    OBVIOUS
  <2>2. <<n, m>> \notin less
    BY <1>2
  <2>3. ~(n < m)
    BY <2>1, <2>2
  <2>4. QED
    BY <2>1, <2>3
<1>4. QED
  BY <1>3

\* A row that a sequence of statements reaches.
Reaches(s, r) == \E i \in 1..Len(s) : s[i] = r

LEMMA ReachesConcat ==
    ASSUME NEW s1 \in Seq(T!Row), NEW s2 \in Seq(T!Row)
    PROVE  /\ s1 \o s2 \in Seq(T!Row)
           /\ \A r : Reaches(s1 \o s2, r) <=> Reaches(s1, r) \/ Reaches(s2, r)
<1> DEFINE s == s1 \o s2
           m == Len(s1)
           n == Len(s2)
<1>1. s \in Seq(T!Row) /\ Len(s) = m + n /\ m \in Nat /\ n \in Nat
  OBVIOUS
<1>2. \A i \in 1..m : s[i] = s1[i]
  OBVIOUS
<1>3. \A i \in 1..n : i + m \in 1..(m + n) /\ s[i + m] = s2[i]
  OBVIOUS
<1>4. \A i \in 1..(m + n) : i \in 1..m \/ (i - m \in 1..n /\ (i - m) + m = i)
  BY <1>1
<1> HIDE DEF s, m, n
<1>5. ASSUME NEW r, NEW i \in 1..(m + n), s[i] = r PROVE Reaches(s1, r) \/ Reaches(s2, r)
  <2>1. CASE i \in 1..m
    BY <1>2, <1>5, <2>1 DEF Reaches, m
  <2>2. CASE i - m \in 1..n /\ (i - m) + m = i
    BY <1>3, <1>5, <2>2 DEF Reaches, n
  <2>3. QED
    BY <1>4, <2>1, <2>2
<1>6. ASSUME NEW r, NEW i \in 1..m, s1[i] = r PROVE \E j \in 1..(m + n) : s[j] = r
  <2>1. i \in 1..(m + n)
    BY <1>1
  <2>2. QED
    BY <1>2, <1>6, <2>1
<1>7. ASSUME NEW r, NEW i \in 1..n, s2[i] = r PROVE \E j \in 1..(m + n) : s[j] = r
  BY <1>3, <1>7
<1>8. QED
  BY <1>1, <1>5, <1>6, <1>7 DEF Reaches, s, m, n

LEMMA MirrorCardinality == \A I : T!Cardinality(I) = Cardinality(I)
  BY DEF T!Cardinality, Cardinality

\* A statement writes each of its rows once, in some order.
LEMMA OrderCovers ==
    ASSUME NEW S2, IsFiniteSet(S2), NEW f \in T!Orders(S2)
    PROVE  \E n \in Nat : f \in [1..n -> S2] /\ \A r \in S2 : \E i \in 1..n : f[i] = r
<1> DEFINE n == Cardinality(S2)
<1>1. n \in Nat
  BY FS_CardinalityType
<1>2. f \in [1..n -> S2] /\ \A i, j \in 1..n : i # j => f[i] # f[j]
  BY MirrorCardinality DEF T!Orders, T!SetToSeqs
<1> HIDE DEF n
<1>3. f \in Injection(1..n, S2)
  BY <1>2 DEF Injection, IsInjective
<1>4. Cardinality(1..n) = n
  <2>1. 1 \in Int /\ n \in Int
    BY <1>1
  <2>2. Cardinality(1..n) = IF 1 > n THEN 0 ELSE n - 1 + 1
    BY <2>1, FS_Interval
  <2>3. QED
    BY <1>1, <2>2
<1>5. f \in Surjection(1..n, S2)
  BY <1>3, <1>4, FS_Injection DEF n
<1>6. QED
  BY <1>1, <1>2, <1>5 DEF Surjection

\* The statements of one reconciliation, flattened.
Flat(f, seqs, n) == f = [i \in 1..n |-> IF i = 1 THEN seqs[i] ELSE f[i - 1] \o seqs[i]]

\* The recursion defines a function.
LEMMA FlatExists == ASSUME NEW seqs, NEW n \in Nat PROVE \E f : Flat(f, seqs, n)
<1> DEFINE Without == {k \in 0..n : ~\E f : Flat(f, seqs, k)}
<1>1. SUFFICES ASSUME Without # {} PROVE FALSE
  <2>1. n \in 0..n
    OBVIOUS
  <2>2. QED
    BY <2>1
<1>2. PICK k \in Without : \A j \in Without : k <= j
  <2>1. Without \in SUBSET Nat
    OBVIOUS
  <2> HIDE DEF Without
  <2>2. QED
    BY <1>1, <2>1, LeastNat
<1>3. k \in 0..n /\ ~\E f : Flat(f, seqs, k)
  OBVIOUS
<1>4. k # 0
  <2>1. Flat([i \in 1..0 |-> seqs[i]], seqs, 0)
    BY DEF Flat
  <2>2. QED
    BY <1>3, <2>1
<1>5. k - 1 \in 0..n /\ k - 1 \notin Without
  <2>1. k - 1 \in 0..n /\ ~(k <= k - 1)
    BY <1>3, <1>4
  <2> HIDE DEF Without
  <2>2. QED
    BY <1>2, <2>1
<1>6. PICK f : Flat(f, seqs, k - 1)
  BY <1>5
<1> DEFINE final == IF k = 1 THEN seqs[k] ELSE f[k - 1] \o seqs[k]
           g == [j \in 1..k |-> IF j = k THEN final ELSE f[j]]
<1>7. Flat(g, seqs, k)
  <2>1. \A j \in 1..(k - 1) : f[j] = IF j = 1 THEN seqs[j] ELSE f[j - 1] \o seqs[j]
    BY <1>6 DEF Flat
  <2> HIDE DEF final
  <2>2. \A j \in 1..k : j # 1 => j - 1 \in 1..k /\ g[j - 1] = f[j - 1]
    BY <1>3
  <2>3. final = IF k = 1 THEN seqs[k] ELSE f[k - 1] \o seqs[k]
    BY DEF final
  <2>4. \A j \in 1..k : g[j] = IF j = 1 THEN seqs[j] ELSE g[j - 1] \o seqs[j]
    <3> TAKE j \in 1..k
    <3>1. CASE j = k
      BY <1>3, <1>4, <2>2, <2>3, <3>1
    <3>2. CASE j # k
      <4>1. j \in 1..(k - 1) /\ g[j] = f[j]
        BY <1>3, <3>2
      <4>2. QED
        BY <2>1, <2>2, <4>1
    <3>3. QED
      BY <3>1, <3>2
  <2>5. g = [j \in 1..k |-> IF j = 1 THEN seqs[j] ELSE g[j - 1] \o seqs[j]]
    BY <2>4
  <2> HIDE DEF g
  <2>6. QED
    BY <2>5 DEF Flat
<1>8. QED
  BY <1>3, <1>7

\* Statements that reach a milestone iff they reach its task.
Paired(s) ==
    /\ s \in Seq(T!Row)
    /\ \A l \in Links : Reaches(s, T!M(l)) <=> Reaches(s, T!T(l))

LEMMA PairIsPaired == ASSUME NEW l \in Links PROVE Paired(<<T!M(l), T!T(l)>>) /\ Paired(<<T!T(l), T!M(l)>>)
<1>1. T!M(l) \in T!Row /\ T!T(l) \in T!Row
  BY DEF T!M, T!T, T!Row
<1>2. \A r : /\ Reaches(<<T!M(l), T!T(l)>>, r) <=> r = T!M(l) \/ r = T!T(l)
             /\ Reaches(<<T!T(l), T!M(l)>>, r) <=> r = T!M(l) \/ r = T!T(l)
  BY DEF Reaches
<1>3. \A k \in Links : /\ T!M(k) = T!M(l) <=> k = l
                       /\ T!T(k) = T!T(l) <=> k = l
                       /\ T!M(k) # T!T(l) /\ T!T(k) # T!M(l)
  BY DEF T!M, T!T
<1>4. QED
  BY <1>1, <1>2, <1>3 DEF Paired

LEMMA ConcatPaired == ASSUME NEW s1, Paired(s1), NEW s2, Paired(s2) PROVE Paired(s1 \o s2)
<1>1. s1 \in Seq(T!Row) /\ s2 \in Seq(T!Row)
  BY DEF Paired
<1>2. /\ s1 \o s2 \in Seq(T!Row)
      /\ \A r : Reaches(s1 \o s2, r) <=> Reaches(s1, r) \/ Reaches(s2, r)
  BY <1>1, ReachesConcat
<1>3. QED
  BY <1>2 DEF Paired

LEMMA NothingPaired == Paired(<<>>)
  BY DEF Paired, Reaches

\* Reconciliation goes from one pair to the next.
LEMMA FlattenPaired ==
    ASSUME NEW n \in Nat, NEW seqs, DOMAIN seqs = 1..n, seqs = [i \in 1..n |-> seqs[i]],
           \A i \in 1..n : Paired(seqs[i])
    PROVE  Paired(T!FlattenSeq(seqs))
<1>1. Len(seqs) = n
  <2>1. seqs \in Seq(Seq(T!Row))
    BY DEF Paired
  <2>2. QED
    BY <2>1
<1>2. CASE n = 0
  <2>1. seqs = <<>>
    BY <1>2
  <2>2. T!FlattenSeq(seqs) = seqs
    BY <1>1, <1>2 DEF T!FlattenSeq
  <2>3. QED
    BY <2>1, <2>2, NothingPaired
<1>3. CASE n # 0
  <2> DEFINE chain == CHOOSE f : Flat(f, seqs, n)
  <2>1. T!FlattenSeq(seqs) = chain[n]
    BY <1>1, <1>3 DEF T!FlattenSeq, Flat
  <2>2. Flat(chain, seqs, n)
    BY FlatExists, Zenon
  <2> HIDE DEF chain
  <2>3. \A k \in 1..n : chain[k] = IF k = 1 THEN seqs[k] ELSE chain[k - 1] \o seqs[k]
    BY <2>2 DEF Flat
  <2>4. \A k \in 1..n : Paired(chain[k])
    <3> DEFINE Bad == {k \in 1..n : ~Paired(chain[k])}
    <3>1. SUFFICES ASSUME Bad # {} PROVE FALSE
      OBVIOUS
    <3>2. PICK k \in Bad : \A j \in Bad : k <= j
      <4>1. Bad \in SUBSET Nat
        OBVIOUS
      <4> HIDE DEF Bad
      <4>2. QED
        BY <3>1, <4>1, LeastNat
    <3>3. k \in 1..n /\ ~Paired(chain[k]) /\ Paired(seqs[k])
      OBVIOUS
    <3>4. k # 1
      BY <2>3, <3>3
    <3>5. k - 1 \in 1..n /\ k - 1 \notin Bad
      <4>1. k - 1 \in 1..n /\ ~(k <= k - 1)
        BY <3>3, <3>4
      <4> HIDE DEF Bad
      <4>2. QED
        BY <3>2, <4>1
    <3>6. Paired(chain[k - 1])
      BY <3>5
    <3>7. chain[k] = chain[k - 1] \o seqs[k]
      BY <2>3, <3>3, <3>4
    <3>8. QED
      BY <3>3, <3>6, <3>7, ConcatPaired
  <2>5. n \in 1..n
    BY <1>3
  <2>6. QED
    BY <2>1, <2>4, <2>5
<1>4. QED
  BY <1>2, <1>3

-----------------------------------------------------------------------------
(* The mirror: what a transaction has written and has still to write *)

\* The rows of one table for some of the links.
LEMMA BulkPaired ==
    ASSUME NEW S2 \in SUBSET Links,
           NEW ts \in T!Orders({T!T(l) : l \in S2}), NEW ms \in T!Orders({T!M(l) : l \in S2})
    PROVE  Paired(ts \o ms)
<1> DEFINE tasks == {T!T(l) : l \in S2}
           milestones == {T!M(l) : l \in S2}
           ft == [l \in S2 |-> T!T(l)]
           fm == [l \in S2 |-> T!M(l)]
<1>1. IsFiniteSet(S2)
  BY LinksAssumption, FS_Subset
<1>2. IsFiniteSet(tasks)
  <2>1. ft \in Surjection(S2, tasks)
    BY DEF Surjection
  <2> HIDE DEF ft, tasks
  <2>2. QED
    BY <1>1, <2>1, FS_Surjection
<1>3. IsFiniteSet(milestones)
  <2>1. fm \in Surjection(S2, milestones)
    BY DEF Surjection
  <2> HIDE DEF fm, milestones
  <2>2. QED
    BY <1>1, <2>1, FS_Surjection
<1>4. tasks \in SUBSET T!Row /\ milestones \in SUBSET T!Row
  BY DEF T!T, T!M, T!Row
<1>5. /\ \A l \in Links : T!T(l) \in tasks <=> l \in S2
      /\ \A l \in Links : T!M(l) \in milestones <=> l \in S2
      /\ \A l \in Links : T!M(l) \notin tasks /\ T!T(l) \notin milestones
  BY DEF T!T, T!M
<1>6. ts \in T!Orders(tasks) /\ ms \in T!Orders(milestones)
  OBVIOUS
<1> HIDE DEF tasks, milestones
<1>7. PICK n \in Nat : ts \in [1..n -> tasks] /\ \A r \in tasks : \E i \in 1..n : ts[i] = r
  BY <1>2, <1>6, OrderCovers
<1>8. PICK m \in Nat : ms \in [1..m -> milestones] /\ \A r \in milestones : \E i \in 1..m : ms[i] = r
  BY <1>3, <1>6, OrderCovers
<1>9. ts \in Seq(T!Row) /\ Len(ts) = n /\ ms \in Seq(T!Row) /\ Len(ms) = m
  BY <1>4, <1>7, <1>8
<1>10. \A r : Reaches(ts, r) <=> r \in tasks
  BY <1>7, <1>9 DEF Reaches
<1>11. \A r : Reaches(ms, r) <=> r \in milestones
  BY <1>8, <1>9 DEF Reaches
<1>12. /\ ts \o ms \in Seq(T!Row)
       /\ \A r : Reaches(ts \o ms, r) <=> Reaches(ts, r) \/ Reaches(ms, r)
  BY <1>9, ReachesConcat
<1>13. QED
  BY <1>5, <1>10, <1>11, <1>12 DEF Paired

LEMMA ReconcilePaired ==
    ASSUME NEW S2 \in SUBSET Links, NEW order \in T!Orders(S2)
    PROVE  Paired(T!FlattenSeq([i \in DOMAIN order |-> <<T!M(order[i]), T!T(order[i])>>]))
<1>1. IsFiniteSet(S2)
  BY LinksAssumption, FS_Subset
<1>2. PICK n \in Nat : order \in [1..n -> S2]
  BY <1>1, OrderCovers
<1> DEFINE seqs == [i \in DOMAIN order |-> <<T!M(order[i]), T!T(order[i])>>]
<1>3. DOMAIN seqs = 1..n /\ \A i \in 1..n : order[i] \in Links
  BY <1>2
<1>4. \A i \in 1..n : Paired(seqs[i])
  BY <1>2, <1>3, PairIsPaired
<1>5. seqs = [i \in 1..n |-> seqs[i]]
  BY <1>3
<1> HIDE DEF seqs
<1>6. QED
  BY <1>3, <1>4, <1>5, FlattenPaired DEF seqs

\* A transaction sets both halves of a pair or neither, by the time it has
\* written what it has still to write, and to one status.
MirrorInv ==
    /\ work \in [Txns -> T!Txn]
    /\ \A x \in Txns :
          /\ work[x].task = T!MilestoneStatusToTask(work[x].milestone)
          /\ \A l \in Links :
                (T!M(l) \in work[x].held \/ Reaches(work[x].todo, T!M(l)))
                   <=> (T!T(l) \in work[x].held \/ Reaches(work[x].todo, T!T(l)))

LEMMA MirrorInit == ASSUME T!Init PROVE MirrorInv
<1> DEFINE r == [state |-> "new", kind |-> "none", milestone |-> "planned",
                 task |-> "open", todo |-> <<>>, held |-> {}]
<1>1. work = [x \in Txns |-> r]
  BY DEF T!Init
<1>2. r \in T!Txn /\ r.task = T!MilestoneStatusToTask(r.milestone)
  BY DEF T!Txn, T!MilestoneStatus, T!TaskStatus, T!MilestoneStatusToTask
<1>3. r.held = {} /\ r.todo = <<>>
  OBVIOUS
<1> HIDE DEF r
<1>4. \A u : ~Reaches(<<>>, u)
  BY DEF Reaches
<1>5. QED
  BY <1>1, <1>2, <1>3, <1>4 DEF MirrorInv

LEMMA MirrorBegin ==
    ASSUME MirrorInv, NEW x \in Txns, NEW kind \in {"set", "update", "bulk", "complete", "reconcile"},
           NEW s1 \in T!MilestoneStatus, NEW s2 \in T!TaskStatus, s2 = T!MilestoneStatusToTask(s1),
           NEW todo, Paired(todo), T!Begin(x, kind, s1, s2, todo)
    PROVE  MirrorInv'
<1> DEFINE r == [state |-> "running", kind |-> kind, milestone |-> s1,
                 task |-> s2, todo |-> todo, held |-> {}]
<1>1. work' = [work EXCEPT ![x] = r]
  BY DEF T!Begin
<1>2. r \in T!Txn /\ r.task = T!MilestoneStatusToTask(r.milestone)
  BY DEF T!Txn, Paired
<1>3. r.held = {} /\ r.todo = todo
  OBVIOUS
<1> HIDE DEF r
<1>4. work' \in [Txns -> T!Txn] /\ work'[x] = r /\ \A y \in Txns : y # x => work'[y] = work[y]
  BY <1>1, <1>2 DEF MirrorInv
<1>5. QED
  BY <1>2, <1>3, <1>4 DEF MirrorInv, Paired

LEMMA MirrorStart == ASSUME MirrorInv, NEW x \in Txns, T!Start(x) PROVE MirrorInv'
<1>1. /\ \A s \in T!MilestoneStatus : T!MilestoneStatusToTask(s) \in T!TaskStatus
      /\ \A s \in T!TaskStatus : /\ T!TaskStatusToMilestone(s) \in T!MilestoneStatus
                                 /\ T!MilestoneStatusToTask(T!TaskStatusToMilestone(s)) = s
      /\ T!OpenStatus \subseteq T!TaskStatus
      /\ "done" \in T!TaskStatus /\ "done" \in T!MilestoneStatus /\ T!MilestoneStatusToTask("done") = "done"
  BY DEF T!MilestoneStatus, T!TaskStatus, T!OpenStatus, T!MilestoneStatusToTask, T!TaskStatusToMilestone
<1>2. ASSUME NEW l \in Links, NEW s \in T!MilestoneStatus, T!SetMilestone(x, l, s) PROVE MirrorInv'
  BY <1>1, <1>2, PairIsPaired, MirrorBegin DEF T!SetMilestone
<1>3. ASSUME NEW l \in Links, NEW s \in T!OpenStatus, T!UpdateTask(x, l, s) PROVE MirrorInv'
  <2>1. s \in T!TaskStatus
    BY <1>1
  <2>2. QED
    BY <1>1, <1>3, <2>1, PairIsPaired, MirrorBegin DEF T!UpdateTask
<1>4. ASSUME NEW l \in Links, T!CompleteTask(x, l) PROVE MirrorInv'
  BY <1>1, <1>4, PairIsPaired, MirrorBegin DEF T!CompleteTask
<1>5. ASSUME NEW S2 \in SUBSET Links, NEW s \in T!TaskStatus, T!BulkUpdate(x, S2, s) PROVE MirrorInv'
  <2>1. PICK ts \in T!Orders({T!T(l) : l \in S2}), ms \in T!Orders({T!M(l) : l \in S2}) :
            T!Begin(x, "bulk", T!TaskStatusToMilestone(s), s, ts \o ms)
    BY <1>5 DEF T!BulkUpdate
  <2>2. Paired(ts \o ms)
    BY BulkPaired
  <2>3. QED
    BY <1>1, <2>1, <2>2, MirrorBegin
<1>6. ASSUME NEW S2 \in SUBSET Links, T!Reconcile(x, S2) PROVE MirrorInv'
  <2>1. PICK order \in T!Orders(T!ToAdvance(S2)) :
            T!Begin(x, "reconcile", "done", "done",
                    T!FlattenSeq([i \in DOMAIN order |-> <<T!M(order[i]), T!T(order[i])>>]))
    BY <1>6 DEF T!Reconcile
  <2>2. T!ToAdvance(S2) \in SUBSET Links
    BY DEF T!ToAdvance
  <2>3. Paired(T!FlattenSeq([i \in DOMAIN order |-> <<T!M(order[i]), T!T(order[i])>>]))
    BY <2>2, ReconcilePaired
  <2>4. QED
    BY <1>1, <2>1, <2>3, MirrorBegin
<1>7. QED
  BY <1>2, <1>3, <1>4, <1>5, <1>6 DEF T!Start

LEMMA MirrorWrite == ASSUME MirrorInv, NEW x \in Txns, T!Write(x) PROVE MirrorInv'
<1> DEFINE r == work[x]
           u == Head(work[x].todo)
           s == Tail(work[x].todo)
           q == work[x].todo
<1>1. r \in T!Txn /\ q \in Seq(T!Row) /\ q # <<>>
  BY DEF MirrorInv, T!Txn, T!Write
<1>2. u \in T!Row /\ s \in Seq(T!Row) /\ \A v : Reaches(q, v) <=> v = u \/ Reaches(s, v)
  <2>1. /\ u \in T!Row /\ s \in Seq(T!Row) /\ Len(q) \in Nat /\ Len(q) > 0 /\ Len(s) = Len(q) - 1
        /\ u = q[1] /\ \A i \in 1..Len(s) : s[i] = q[i + 1]
    BY <1>1
  <2> HIDE DEF u, s, q
  <2>2. \A i \in 1..Len(q) : i = 1 \/ (i - 1 \in 1..Len(s) /\ q[i] = s[i - 1])
    <3> TAKE i \in 1..Len(q)
    <3>1. i = 1 \/ (i - 1 \in 1..Len(s) /\ (i - 1) + 1 = i)
      BY <2>1
    <3>2. QED
      BY <2>1, <3>1
  <2>3. \A i \in 1..Len(s) : i + 1 \in 1..Len(q) /\ s[i] = q[i + 1]
    BY <2>1
  <2>4. 1 \in 1..Len(q)
    BY <2>1
  <2>5. QED
    BY <2>1, <2>2, <2>3, <2>4 DEF Reaches
<1>3. work' = [work EXCEPT ![x] = [r EXCEPT !.held = r.held \cup {u}, !.todo = s]]
  BY DEF T!Write, T!Wanted, MirrorInv
<1>4. /\ work' \in [Txns -> T!Txn]
      /\ work'[x].held = r.held \cup {u} /\ work'[x].todo = s
      /\ work'[x].task = r.task /\ work'[x].milestone = r.milestone
      /\ \A y \in Txns : y # x => work'[y] = work[y]
  <2> HIDE DEF u, s
  <2>1. [r EXCEPT !.held = r.held \cup {u}, !.todo = s] \in T!Txn
    BY <1>1, <1>2 DEF T!Txn
  <2>2. QED
    BY <1>1, <1>3, <2>1 DEF MirrorInv, T!Txn
<1> HIDE DEF u, s
<1>5. \A v : (v \in r.held \/ Reaches(q, v)) <=> (v \in work'[x].held \/ Reaches(work'[x].todo, v))
  BY <1>2, <1>4
<1>6. QED
  BY <1>4, <1>5 DEF MirrorInv

LEMMA MirrorRoll == ASSUME MirrorInv, NEW x \in Txns, T!Roll(x) PROVE MirrorInv'
<1> DEFINE r == work[x]
<1>1. work' = [work EXCEPT ![x] = [r EXCEPT !.state = "aborted", !.todo = <<>>, !.held = {}]]
  BY DEF T!Roll, MirrorInv
<1>2. /\ work' \in [Txns -> T!Txn]
      /\ work'[x].held = {} /\ work'[x].todo = <<>>
      /\ work'[x].task = r.task /\ work'[x].milestone = r.milestone
      /\ \A y \in Txns : y # x => work'[y] = work[y]
  <2>1. r \in T!Txn /\ <<>> \in Seq(T!Row)
    BY DEF MirrorInv
  <2>2. [r EXCEPT !.state = "aborted", !.todo = <<>>, !.held = {}] \in T!Txn
    BY <2>1 DEF T!Txn
  <2>3. QED
    BY <1>1, <2>1, <2>2 DEF MirrorInv, T!Txn
<1>3. \A v : ~Reaches(<<>>, v)
  BY DEF Reaches
<1>4. QED
  BY <1>2, <1>3 DEF MirrorInv

LEMMA MirrorCommit == ASSUME MirrorInv, NEW x \in Txns, T!Commit(x) PROVE MirrorInv'
<1> DEFINE r == work[x]
<1>1. work' = [work EXCEPT ![x] = [r EXCEPT !.state = "committed", !.held = {}]] /\ r.todo = <<>>
  BY DEF T!Commit, MirrorInv
<1>2. /\ work' \in [Txns -> T!Txn]
      /\ work'[x].held = {} /\ work'[x].todo = <<>>
      /\ work'[x].task = r.task /\ work'[x].milestone = r.milestone
      /\ \A y \in Txns : y # x => work'[y] = work[y]
  BY <1>1 DEF MirrorInv, T!Txn
<1>3. \A v : ~Reaches(<<>>, v)
  BY DEF Reaches
<1>4. QED
  BY <1>2, <1>3 DEF MirrorInv

LEMMA MirrorStep == ASSUME MirrorInv, [T!Next]_T!vars PROVE MirrorInv'
<1>1. CASE UNCHANGED T!vars
  BY <1>1 DEF MirrorInv, T!vars
<1>2. ASSUME NEW x \in Txns, T!Start(x) \/ T!Progress(x) PROVE MirrorInv'
  BY <1>2, MirrorStart, MirrorWrite, MirrorRoll, MirrorCommit
     DEF T!Progress, T!Refuse, T!Victim
<1>3. QED
  BY <1>1, <1>2 DEF T!Next

\* Only a commit changes what others see, and it has written whole pairs.
LEMMA CommitMirrors ==
    ASSUME MirrorInv, [T!Next]_T!vars, NEW l \in Links,
           milestone'[l] # milestone[l] \/ task'[l] # task[l]
    PROVE  T!Agree(l)'
<1>1. PICK x \in Txns : T!Commit(x)
  BY DEF T!Next, T!vars, T!Start, T!Progress, T!Write, T!Refuse, T!Victim, T!Roll, T!SetMilestone,
         T!UpdateTask, T!CompleteTask, T!BulkUpdate, T!Reconcile, T!Begin
<1>2. /\ milestone'[l] = IF T!M(l) \in work[x].held THEN work[x].milestone ELSE milestone[l]
      /\ task'[l] = IF T!T(l) \in work[x].held THEN work[x].task ELSE task[l]
      /\ work[x].todo = <<>>
  BY <1>1 DEF T!Commit
<1>3. T!M(l) \in work[x].held <=> T!T(l) \in work[x].held
  <2>1. \A v : ~Reaches(<<>>, v)
    BY DEF Reaches
  <2>2. QED
    BY <1>2, <2>1 DEF MirrorInv
<1>4. T!M(l) \in work[x].held /\ T!T(l) \in work[x].held
  BY <1>2, <1>3
<1>5. milestone'[l] = work[x].milestone /\ task'[l] = work[x].task
  BY <1>2, <1>4
<1>6. QED
  BY <1>5 DEF T!Agree, MirrorInv, T!MilestoneStatusToTask

\* Whatever edits of tasks, of milestones, of many tasks and of
\* reconciliation overlap, on however many links, the step that changes a task
\* or its milestone leaves the two with one status (tasks/operations.ts,
\* roadmaps/operations.ts).
THEOREM MirrorsAgree == SpecLive => ChangeMirrors
<1>1. [NextLive]_<<part, vars, mirrorVars>> => [T!Next]_T!vars
  BY DEF NextLive, mirrorVars, T!vars
<1>2. InitLive => MirrorInv
  BY MirrorInit DEF InitLive
<1>3. MirrorInv /\ [NextLive]_<<part, vars, mirrorVars>> => MirrorInv'
  BY <1>1, MirrorStep
<1>4. MirrorInv /\ [NextLive]_<<part, vars, mirrorVars>>
        => [\A l \in Links : milestone'[l] # milestone[l] \/ task'[l] # task[l] => T!Agree(l)']_T!vars
  BY <1>1, CommitMirrors
<1>5. QED
  BY <1>2, <1>3, <1>4, PTL DEF SpecLive, ChangeMirrors, T!ChangeMirrors
=============================================================================
