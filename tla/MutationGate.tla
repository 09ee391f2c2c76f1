---------------------------- MODULE MutationGate ----------------------------
(***************************************************************************)
(* The mutation gate (src/gate/mutation-gate.ts): the one path every write *)
(* of the application takes.  A call is one invocation of runMutation.  It *)
(* is checked, counted by the rate limiter, and then runs one tenant       *)
(* transaction: claim the idempotency key, run the handler, append the     *)
(* audit row, store the response, commit.  A client that retries makes a   *)
(* new call with the same key.                                             *)
(*                                                                         *)
(* The database is Postgres at READ COMMITTED: a transaction's writes are  *)
(* held back until it commits and vanish if it aborts; an INSERT that      *)
(* meets an uncommitted row with the same unique key waits for that        *)
(* transaction to end.  Each transaction holds one connection of a bounded *)
(* pool from its first statement to its last.                              *)
(*                                                                         *)
(* A key stands for one (tenant_id, key) pair, the unique index of the     *)
(* idempotency_keys table, and a body for its SHA-256 hash.                *)
(***************************************************************************)
EXTENDS Naturals, FiniteSets

CONSTANTS
    Calls,      \* invocations of runMutation
    Keys,       \* idempotency keys, each scoped to its tenant
    Bodies,     \* hashes of request bodies
    Actors,     \* the rate limiter's tenant:user identifiers
    Kinds,      \* how a handler writes: "tenant" through ctx.tx only,
                \* "system" through a withSystem transaction of its own
    PoolSize,   \* connections in the pool
    MaxHits,    \* calls the rate limiter lets through per window
    MaxSweeps,  \* bound: retention sweeps of one key
    NoCall,     \* no call
    NoRow       \* no committed idempotency row

ASSUME KindsAssumption == Kinds \subseteq {"tenant", "system"}
ASSUME PoolAssumption == PoolSize \in Nat \ {0}
ASSUME BoundsAssumption == MaxHits \in Nat \ {0} /\ MaxSweeps \in Nat
ASSUME NoCallAssumption == NoCall \notin Calls

VARIABLES
    request,  \* what each call asks for: fixed before the call is made
    pc,       \* where each call is in runMutation
    hits,     \* calls the limiter counted for an actor in the current window
    txn,      \* writes waiting in the transaction of each call
    table,    \* committed rows of idempotency_keys
    effects,  \* calls whose handler's writes are committed
    audit,    \* calls whose audit_log row is committed
    answer,   \* what the caller was told
    sweeps,   \* times the retention sweep deleted a key's row
    era       \* the value of sweeps[key] when the call claimed its key

vars == <<request, pc, hits, txn, table, effects, audit, answer, sweeps, era>>

-----------------------------------------------------------------------------
(* Types *)

Request == [key: Keys, body: Bodies, actor: Actors, kind: Kinds]

Write == {"claim", "effect", "audit", "complete"}

Row == [body: Bodies, by: Calls, completed: BOOLEAN]

ASSUME NoRowAssumption == NoRow \notin Row

InTxn == {"claiming", "taken", "handling", "nested", "handled", "audited",
          "completed"}

Status == {"none", "ok", "denied", "limited", "conflict", "rejected", "lost"}

TypeOK ==
    /\ request \in [Calls -> Request]
    /\ pc \in [Calls -> {"idle", "queued", "done"} \cup InTxn]
    /\ hits \in [Actors -> SUBSET Calls]
    /\ txn \in [Calls -> SUBSET Write]
    /\ table \in [Keys -> Row \cup {NoRow}]
    /\ effects \in SUBSET Calls
    /\ audit \in SUBSET Calls
    /\ answer \in [Calls -> [status: Status, by: Calls \cup {NoCall}]]
    /\ sweeps \in [Keys -> Nat]
    /\ era \in [Calls -> Nat]

Init ==
    /\ request \in [Calls -> Request]
    /\ pc = [c \in Calls |-> "idle"]
    /\ hits = [a \in Actors |-> {}]
    /\ txn = [c \in Calls |-> {}]
    /\ table = [k \in Keys |-> NoRow]
    /\ effects = {}
    /\ audit = {}
    /\ answer = [c \in Calls |-> [status |-> "none", by |-> NoCall]]
    /\ sweeps = [k \in Keys |-> 0]
    /\ era = [c \in Calls |-> 0]

-----------------------------------------------------------------------------
(* Helpers *)

Key(c) == request[c].key

\* The calls whose transaction has inserted key k and has not ended.
Claimants(k) == {c \in Calls : Key(c) = k /\ "claim" \in txn[c]}

\* A nested handler holds its gate transaction's connection and its own.
Connections == Cardinality({c \in Calls : pc[c] \in InTxn})
             + Cardinality({c \in Calls : pc[c] = "nested"})

\* Variant: the transaction is not ended and goes on holding its writes.
LeaveHolding(c, status, by) ==
    /\ pc' = [pc EXCEPT ![c] = "done"]
    /\ answer' = [answer EXCEPT ![c] = [status |-> status, by |-> by]]
    /\ txn' = txn

\* The call leaves runMutation; whatever its transaction still held is gone.
Leave(c, status, by) ==
    /\ pc' = [pc EXCEPT ![c] = "done"]
    /\ answer' = [answer EXCEPT ![c] = [status |-> status, by |-> by]]
    /\ txn' = [txn EXCEPT ![c] = {}]

\* One statement of the transaction: it adds a pending write.
Statement(c, from, to, write) ==
    /\ pc[c] = from
    /\ pc' = [pc EXCEPT ![c] = to]
    /\ txn' = [txn EXCEPT ![c] = @ \cup {write}]

-----------------------------------------------------------------------------
(* Before the transaction *)

\* Identity, permission or body size refuses the call.
Deny(c) ==
    /\ pc[c] = "idle"
    /\ Leave(c, "denied", NoCall)
    /\ UNCHANGED <<request, hits, table, effects, audit, sweeps, era>>

\* Variant: off by one.
WithinLimitPlusOne(a) == Cardinality(hits'[a]) <= MaxHits + 1

\* The limiter counts the call, and counts it whether or not it passes.
WithinLimit(a) == Cardinality(hits'[a]) <= MaxHits

CountHit(c) ==
    LET a == request[c].actor
    IN  hits' = [hits EXCEPT ![a] = @ \cup {c}]

Admit(c) ==
    /\ pc[c] = "idle"
    /\ CountHit(c)
    /\ WithinLimit(request[c].actor)
    /\ pc' = [pc EXCEPT ![c] = "queued"]
    /\ UNCHANGED <<request, txn, table, effects, audit, answer, sweeps, era>>

Limit(c) ==
    /\ pc[c] = "idle"
    /\ CountHit(c)
    /\ ~WithinLimit(request[c].actor)
    /\ Leave(c, "limited", NoCall)
    /\ UNCHANGED <<request, table, effects, audit, sweeps, era>>

\* resetAt has passed: the limiter's next look starts a fresh window.
ResetWindow(a) ==
    /\ hits[a] # {}
    /\ hits' = [hits EXCEPT ![a] = {}]
    /\ UNCHANGED <<request, pc, txn, table, effects, audit, answer, sweeps, era>>

-----------------------------------------------------------------------------
(* The transaction *)

\* withTenant takes a connection and begins.
Begin(c) ==
    /\ pc[c] = "queued"
    /\ Connections < PoolSize
    /\ pc' = [pc EXCEPT ![c] = "claiming"]
    /\ UNCHANGED <<request, hits, txn, table, effects, audit, answer, sweeps, era>>

\* Variant: a SELECT and an INSERT with no unique index behind them.
ClaimWithoutIndex(c) ==
    /\ table[Key(c)] = NoRow
    /\ Statement(c, "claiming", "handling", "claim")
    /\ era' = [era EXCEPT ![c] = sweeps[Key(c)]]
    /\ UNCHANGED <<request, hits, table, effects, audit, answer, sweeps>>

\* INSERT ... ON CONFLICT DO NOTHING.  It waits while another transaction
\* holds the key uncommitted, so it is not enabled then.
ClaimKey(c) ==
    /\ Claimants(Key(c)) = {}
    /\ table[Key(c)] = NoRow
    /\ Statement(c, "claiming", "handling", "claim")
    /\ era' = [era EXCEPT ![c] = sweeps[Key(c)]]
    /\ UNCHANGED <<request, hits, table, effects, audit, answer, sweeps>>

KeyTaken(c) ==
    /\ pc[c] = "claiming"
    /\ Claimants(Key(c)) = {}
    /\ table[Key(c)] # NoRow
    /\ pc' = [pc EXCEPT ![c] = "taken"]
    /\ UNCHANGED <<request, hits, txn, table, effects, audit, answer, sweeps, era>>

\* Variant: the request hash is not compared.
ReplaysAnyBody(c) == table[Key(c)] # NoRow /\ table[Key(c)].completed

\* SELECT ... FOR UPDATE of the row that stood in the way, and the branches on
\* it.  The sweep may have deleted the row since the INSERT was turned away.
Replays(c) ==
    /\ table[Key(c)] # NoRow
    /\ table[Key(c)].body = request[c].body
    /\ table[Key(c)].completed

Replay(c) ==
    /\ pc[c] = "taken"
    /\ Replays(c)
    /\ Leave(c, "ok", table[Key(c)].by)
    /\ UNCHANGED <<request, hits, table, effects, audit, sweeps, era>>

Conflict(c) ==
    /\ pc[c] = "taken"
    /\ ~Replays(c)
    /\ Leave(c, "conflict", NoCall)
    /\ UNCHANGED <<request, hits, table, effects, audit, sweeps, era>>

\* The handler writes through ctx.tx.
RunHandler(c) ==
    /\ request[c].kind = "tenant"
    /\ Statement(c, "handling", "handled", "effect")
    /\ UNCHANGED <<request, hits, table, effects, audit, answer, sweeps, era>>

\* The handler calls withSystem: a second connection and a transaction that
\* commits on its own, before the gate's transaction does.
BeginNested(c) ==
    /\ pc[c] = "handling"
    /\ request[c].kind = "system"
    /\ Connections < PoolSize
    /\ pc' = [pc EXCEPT ![c] = "nested"]
    /\ UNCHANGED <<request, hits, txn, table, effects, audit, answer, sweeps, era>>

CommitNested(c) ==
    /\ pc[c] = "nested"
    /\ pc' = [pc EXCEPT ![c] = "handled"]
    /\ effects' = effects \cup {c}
    /\ UNCHANGED <<request, hits, txn, table, audit, answer, sweeps, era>>

\* Variant: what the handler did before it threw is committed.
RejectKeepsWork(c) ==
    /\ pc[c] \in {"handling", "nested"}
    /\ Leave(c, "rejected", NoCall)
    /\ effects' = effects \cup {c}
    /\ UNCHANGED <<request, hits, table, audit, sweeps, era>>

\* The handler throws (validation, a state conflict, a failed query): the
\* transaction rolls back and the claim of the key goes with it.
Reject(c) ==
    /\ pc[c] \in {"handling", "nested"}
    /\ Leave(c, "rejected", NoCall)
    /\ UNCHANGED <<request, hits, table, effects, audit, sweeps, era>>

\* Variant: the audit row is written outside the transaction.
WriteAuditApart(c) ==
    /\ pc[c] = "handled"
    /\ pc' = [pc EXCEPT ![c] = "audited"]
    /\ audit' = audit \cup {c}
    /\ UNCHANGED <<request, hits, txn, table, effects, answer, sweeps, era>>

WriteAudit(c) ==
    /\ Statement(c, "handled", "audited", "audit")
    /\ UNCHANGED <<request, hits, table, effects, audit, answer, sweeps, era>>

\* Variant: the response is not stored.
SkipCompletion(c) ==
    /\ pc[c] = "audited"
    /\ pc' = [pc EXCEPT ![c] = "completed"]
    /\ UNCHANGED <<request, hits, txn, table, effects, audit, answer, sweeps, era>>

CompleteKey(c) ==
    /\ Statement(c, "audited", "completed", "complete")
    /\ UNCHANGED <<request, hits, table, effects, audit, answer, sweeps, era>>

\* COMMIT publishes every pending write at once.  The caller hears of it, or
\* the reply is lost on the way.
Publish(c) ==
    /\ table' = [table EXCEPT ![Key(c)] =
                    [body |-> request[c].body, by |-> c,
                     completed |-> "complete" \in txn[c]]]
    /\ effects' = IF "effect" \in txn[c] THEN effects \cup {c} ELSE effects
    /\ audit' = IF "audit" \in txn[c] THEN audit \cup {c} ELSE audit

Commit(c) ==
    /\ pc[c] = "completed"
    /\ Publish(c)
    /\ \/ Leave(c, "ok", c)
       \/ Leave(c, "lost", NoCall)
    /\ UNCHANGED <<request, hits, sweeps, era>>

\* The process or its connection dies with the transaction open.
Crash(c) ==
    /\ pc[c] \in InTxn \cup {"queued"}
    /\ Leave(c, "lost", NoCall)
    /\ UNCHANGED <<request, hits, table, effects, audit, sweeps, era>>

-----------------------------------------------------------------------------
(* The retention sweep *)

\* Variant: the stored response is cleared and its row stays.
SweepResponse(k) ==
    /\ sweeps[k] < MaxSweeps
    /\ table[k] # NoRow
    /\ table[k].completed
    /\ table' = [table EXCEPT ![k].by = NoCall]
    /\ sweeps' = [sweeps EXCEPT ![k] = @ + 1]
    /\ UNCHANGED <<request, pc, hits, txn, effects, audit, answer, era>>

\* DELETE of a completed row past its seven days.
Sweep(k) ==
    /\ sweeps[k] < MaxSweeps
    /\ table[k] # NoRow
    /\ table[k].completed
    /\ table' = [table EXCEPT ![k] = NoRow]
    /\ sweeps' = [sweeps EXCEPT ![k] = @ + 1]
    /\ UNCHANGED <<request, pc, hits, txn, effects, audit, answer, era>>

-----------------------------------------------------------------------------

\* The steps the server owes a call once it has been admitted.
Progress(c) ==
    \/ Begin(c)
    \/ ClaimKey(c) \/ KeyTaken(c)
    \/ Replay(c) \/ Conflict(c)
    \/ RunHandler(c) \/ BeginNested(c) \/ CommitNested(c)
    \/ WriteAudit(c) \/ CompleteKey(c) \/ Commit(c)

Step(c) ==
    \/ Deny(c) \/ Admit(c) \/ Limit(c)
    \/ Progress(c)
    \/ Reject(c)
    \/ Crash(c)

Next ==
    \/ \E c \in Calls : Step(c)
    \/ \E a \in Actors : ResetWindow(a)
    \/ \E k \in Keys : Sweep(k)

Spec == Init /\ [][Next]_vars

\* The runtime keeps running every admitted call: each of its statements is
\* an awaited promise.  Clients, crashes, the clock and the sweep owe nothing.
FairSpec == Spec /\ \A c \in Calls : WF_vars(Progress(c))

-----------------------------------------------------------------------------
(* Properties *)

Tenant(c) == request[c].kind = "tenant"

\* Among the calls that write through the gate's own transaction, two
\* committed executions of one key are separated by a retention sweep:
\* concurrent duplicates, retries after a lost reply and retries after a
\* crash run the handler to commit at most once (claim, lines 110-157).
AtMostOnce ==
    \A c, d \in effects :
        Tenant(c) /\ Tenant(d) /\ Key(c) = Key(d) /\ era[c] = era[d] => c = d

\* A handler's writes and its audit row are committed together or not at all
\* (lines 32-33), for the handlers that write through ctx.tx.
AuditAtomic == \A c \in Calls : Tenant(c) => (c \in effects <=> c \in audit)

\* The sentence of the gate's header itself, of every handler: once a call is
\* over there is no "did it happen?" ambiguity (lines 32-33).
AuditAtomicForAll ==
    \A c \in Calls : pc[c] = "done" => (c \in effects <=> c \in audit)

\* A caller told "ok" was given the response of a committed and audited
\* execution of the same key and the same body: its own or an earlier one.
AnswerIsCommitted ==
    \A c \in Calls :
        answer[c].status = "ok" =>
            LET d == answer[c].by
            IN  /\ d \in effects
                /\ d \in audit
                /\ Key(d) = Key(c)
                /\ request[d].body = request[c].body

\* "If any check fails the handler never runs" (line 32), and a handler that
\* throws leaves nothing: a caller told no may safely repeat the request.
RefusalLeavesNoTrace ==
    \A c \in Calls :
        /\ Tenant(c)
        /\ answer[c].status \in {"denied", "limited", "conflict", "rejected"}
        => c \notin effects \cup audit

\* No committed key is incomplete, so the branch that answers "already in
\* progress" (line 156) is dead and the sweep, which skips incomplete keys,
\* can reclaim every row.
CommittedKeysComplete == \A k \in Keys : table[k] # NoRow => table[k].completed

\* Of the calls counted in an actor's window at most MaxHits got past the
\* limiter, however they interleave with the window's resets.
WindowBudget ==
    \A a \in Actors :
        Cardinality({c \in hits[a] : answer[c].status # "limited"}) <= MaxHits

\* What an admitted call can wait for: a connection, the holder of its key, or
\* a second connection.
InGate == {c \in Calls : pc[c] \in InTxn \cup {"queued"}}

Waits(c) ==
    \/ pc[c] = "queued" /\ ~(Connections < PoolSize)
    \/ pc[c] = "claiming" /\ Claimants(Key(c)) # {}
    \/ pc[c] = "handling" /\ ~Tenant(c) /\ ~(Connections < PoolSize)

\* Gridlock has one cause: a handler that waits for a second connection while
\* every connection is held.  Waiting for a connection or for another call's
\* key never closes a cycle on its own (pool of 10, src/db/client.ts line 44).
SomeoneGoesOn ==
    /\ InGate # {}
    /\ Connections < PoolSize \/ \A c \in Calls : Tenant(c)
    => \E c \in InGate : ~Waits(c)

\* An admitted call that does not wait for any of these can go on.
NoGridlock ==
    /\ SomeoneGoesOn
    /\ \A c \in InGate : ENABLED Progress(c) <=> ~Waits(c)

\* Every admitted call is answered, or its server died.
EveryCallAnswered == \A c \in Calls : pc[c] = "queued" ~> pc[c] = "done"

-----------------------------------------------------------------------------
(* What the gate implements *)

OutcomeOf(c) ==
    CASE answer[c].status = "none" -> "open"
      [] answer[c].status = "lost" -> "lost"
      [] answer[c].status = "ok" /\ answer[c].by = c -> "executed"
      [] answer[c].status = "ok" /\ answer[c].by # c -> "replayed"
      [] OTHER -> "refused"

Ledger == INSTANCE KeyedLedger WITH
    asked   <- [c \in Calls |-> [key |-> request[c].key, body |-> request[c].body]],
    outcome <- [c \in Calls |-> OutcomeOf(c)],
    ledger  <- [k \in Keys |-> IF table[k] = NoRow THEN NoCall ELSE table[k].by],
    done    <- effects,
    log     <- audit

\* With handlers that write through ctx.tx alone, the gate is the keyed ledger:
\* every interleaving of its statements, crashes and lost replies is a step of
\* the ledger or no step at all.
ImplementsLedger == Ledger!Spec
=============================================================================
