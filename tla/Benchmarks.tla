----------------------------- MODULE Benchmarks -----------------------------
(***************************************************************************)
(* Cross-tenant benchmarks (src/domain/benchmarks): workspaces that opt in *)
(* contribute the newest of their daily snapshots, and see where they      *)
(* stand among their peers.  A scheduled job reads all contributions in    *)
(* one statement and writes a row per cohort, metric and day, if enough    *)
(* workspaces have a value; overlapping jobs of a day overwrite each       *)
(* other's rows.                                                           *)
(*                                                                         *)
(* One cohort and one metric: rows of others share nothing with these.  A  *)
(* workspace that moves to another cohort is to this one as one that opts  *)
(* out.  The percentiles of a row are in Percentiles; here it counts whose *)
(* values they are.                                                        *)
(***************************************************************************)
EXTENDS Naturals, FiniteSets

CONSTANTS
    Tenants,    \* workspaces
    Jobs,       \* runs of the aggregation in flight
    MinCohort,  \* MIN_COHORT
    MaxDay,     \* bound: how many days are watched
    None        \* no row

VARIABLES
    opted,     \* workspaces of the cohort with benchmark_participation
    snapshot,  \* the metric_snapshots table, by workspace and day
    cohort,    \* the benchmark_cohorts table, by day
    job,       \* what each aggregation in flight has read
    day        \* today

vars == <<opted, snapshot, cohort, job, day>>

-----------------------------------------------------------------------------

Days == 1..MaxDay

\* A snapshot has a value of the metric, or has not enough data for one.
Snapshot == {"value", "empty"}

\* count: sample_count; of: history, the workspaces whose values it sums up.
Row == [count: Nat, of: SUBSET Tenants]

\* What the constants satisfy.
ConstantsOK ==
    /\ IsFiniteSet(Tenants)
    /\ MinCohort \in Nat \ {0}
    /\ MaxDay \in Nat \ {0}
    /\ None \notin Row \cup Snapshot

Idle == [kind |-> "idle"]

Job == {Idle} \cup [kind: {"aggregate"}, day: Days, count: Nat, of: SUBSET Tenants]

TypeOK ==
    /\ opted \subseteq Tenants
    /\ snapshot \in [Tenants -> [Days -> Snapshot \cup {None}]]
    /\ cohort \in [Days -> Row \cup {None}]
    /\ job \in [Jobs -> Job]
    /\ day \in Days

Init ==
    /\ opted = {}
    /\ snapshot = [t \in Tenants |-> [d \in Days |-> None]]
    /\ cohort = [d \in Days |-> None]
    /\ job = [j \in Jobs |-> Idle]
    /\ day = 1

-----------------------------------------------------------------------------

Captured(t) == {d \in Days : snapshot[t][d] # None}

Last(S) == CHOOSE d \in S : \A e \in S : e <= d

\* setBenchmarkParticipationOp
SetParticipation(t) ==
    /\ opted' = IF t \in opted THEN opted \ {t} ELSE opted \cup {t}
    /\ UNCHANGED <<snapshot, cohort, job, day>>

\* captureMetricSnapshot: today's row, as often as the page is loaded.
Capture(t, what) ==
    /\ snapshot' = [snapshot EXCEPT ![t][day] = what]
    /\ UNCHANGED <<opted, cohort, job, day>>

Tick ==
    /\ day < MaxDay
    /\ day' = day + 1
    /\ UNCHANGED <<opted, snapshot, cohort, job>>

\* runRetentionOp deletes old snapshots.
Expire(t, d) ==
    /\ d < day
    /\ snapshot[t][d] # None
    /\ snapshot' = [snapshot EXCEPT ![t][d] = None]
    /\ UNCHANGED <<opted, cohort, job, day>>

\* Variant: every snapshot of a workspace counts.
Contributions(S) ==
    {q \in S \X Days : snapshot[q[1]][q[2]] = "value"}

\* latest: whoever opted in, with the newest snapshot; summarize
\* drops those without a value.
Latest(S) ==
    {q \in S \X Days :
        /\ q[2] \in Captured(q[1])
        /\ q[2] = Last(Captured(q[1]))
        /\ snapshot[q[1]][q[2]] = "value"}

\* aggregateBenchmarks: the one statement that reads.
Read(j) ==
    /\ job[j] = Idle
    /\ LET values == Latest(opted)
       IN  job' = [job EXCEPT ![j] = [kind |-> "aggregate", day |-> day,
                       count |-> Cardinality(values), of |-> {v[1] : v \in values}]]
    /\ UNCHANGED <<opted, snapshot, cohort, day>>

\* The upsert of the row, which waits for a job that has written it, and the
\* commit.  A cohort that is too small keeps the row it had.
Write(j) ==
    /\ job[j] # Idle
    /\ cohort' = IF job[j].count < MinCohort THEN cohort
                 ELSE [cohort EXCEPT ![job[j].day] =
                          [count |-> job[j].count, of |-> job[j].of]]
    /\ job' = [job EXCEPT ![j] = Idle]
    /\ UNCHANGED <<opted, snapshot, day>>

\* The job dies.
Fail(j) ==
    /\ job[j] # Idle
    /\ job' = [job EXCEPT ![j] = Idle]
    /\ UNCHANGED <<opted, snapshot, cohort, day>>

-----------------------------------------------------------------------------

Next ==
    \/ \E t \in Tenants :
          \/ SetParticipation(t)
          \/ \E what \in Snapshot : Capture(t, what)
          \/ \E d \in Days : Expire(t, d)
    \/ Tick
    \/ \E j \in Jobs : Read(j) \/ Write(j) \/ Fail(j)

Spec == Init /\ [][Next]_vars

-----------------------------------------------------------------------------
(* Properties *)

Written == {d \in Days : cohort[d] # None}

\* loadBenchmarks: the newest row of the cohort, for a participant only.
Seen(t) == IF t \in opted /\ Written # {} THEN cohort[Last(Written)] ELSE None

\* "never surface a thin cohort" (aggregate.ts:124): what a workspace sees sums
\* up the values of MinCohort different workspaces or more, however captures,
\* opt-outs and jobs interleave, and whatever snapshots are on file.
NeverThin ==
    \A t \in Tenants :
        Seen(t) # None => /\ Cardinality(Seen(t).of) >= MinCohort
                          /\ Seen(t).count = Cardinality(Seen(t).of)
=============================================================================
