---------------------------- MODULE KeyedLedger -----------------------------
(***************************************************************************)
(* What the mutation gate promises its callers, without transactions,      *)
(* locks, connections or crashes: work done under a key is done, recorded  *)
(* in the audit log and entered in the ledger in one step; while the       *)
(* ledger remembers the key every call with the same body is served that   *)
(* work's response; a refused call changes nothing; and a caller may lose  *)
(* the reply to either.                                                    *)
(***************************************************************************)
CONSTANTS
    Calls,   \* invocations of the gate
    Keys,    \* idempotency keys
    Bodies,  \* request bodies
    NoCall   \* no call

VARIABLES
    asked,   \* key and body of each call
    outcome, \* what became of each call
    ledger,  \* the call whose response a key replays
    done,    \* calls whose work is committed
    log      \* calls recorded in the audit log

lvars == <<asked, outcome, ledger, done, log>>

Outcome == {"open", "executed", "replayed", "refused", "lost"}

Init ==
    /\ asked \in [Calls -> [key: Keys, body: Bodies]]
    /\ outcome = [c \in Calls |-> "open"]
    /\ ledger = [k \in Keys |-> NoCall]
    /\ done = {}
    /\ log = {}

Close(c, o) ==
    /\ outcome[c] = "open"
    /\ outcome' = [outcome EXCEPT ![c] = o]
    /\ UNCHANGED asked

\* First use of the key: work, audit entry and ledger entry together.
Execute(c) ==
    /\ ledger[asked[c].key] = NoCall
    /\ ledger' = [ledger EXCEPT ![asked[c].key] = c]
    /\ done' = done \cup {c}
    /\ log' = log \cup {c}
    /\ Close(c, "executed") \/ Close(c, "lost")

\* Repeated use: the same question gets the same answer.
Replay(c) ==
    LET d == ledger[asked[c].key]
    IN  /\ d # NoCall
        /\ asked[d].body = asked[c].body
        /\ Close(c, "replayed")
        /\ UNCHANGED <<ledger, done, log>>

Refuse(c) ==
    /\ Close(c, "refused") \/ Close(c, "lost")
    /\ UNCHANGED <<ledger, done, log>>

\* Retention: the key may be used afresh.
Forget(k) ==
    /\ ledger[k] # NoCall
    /\ ledger' = [ledger EXCEPT ![k] = NoCall]
    /\ UNCHANGED <<asked, outcome, done, log>>

Next ==
    \/ \E c \in Calls : Execute(c) \/ Replay(c) \/ Refuse(c)
    \/ \E k \in Keys : Forget(k)

Spec == Init /\ [][Next]_lvars
=============================================================================
