---------------------------- MODULE Completions ----------------------------
(***************************************************************************)
(* The simulated completion of a roadmap (src/domain/forecast/project.ts,  *)
(* roadmapCompletionMC): many runs draw their steps from the past; of the  *)
(* days they take it reports the median, the ninetieth percentile, and the *)
(* share that meets the planned end.                                       *)
(*                                                                         *)
(* The generator is a seed's business, so a run takes any number of days   *)
(* up to the horizon, or never ends.  The state is the runs so far in      *)
(* ascending order, as they are sorted.                                    *)
(***************************************************************************)
EXTENDS Naturals, Sequences, FiniteSets

CONSTANTS
    Horizon,     \* days within which a run must end
    MaxRuns      \* bound: number of runs

VARIABLES
    completion,  \* days of the runs, Never for those that do not end
    planned      \* days to the planned end

vars == <<completion, planned>>

ConstantsOK == Horizon \in Nat \ {0} /\ MaxRuns \in Nat

\* Infinity, beyond every number of days.
Never == 100 * Horizon

TypeOK ==
    /\ completion \in Seq((1..Horizon) \cup {Never})
    /\ Len(completion) <= MaxRuns
    /\ planned \in 0..(Horizon + 1)

Init == completion = <<>> /\ planned \in 0..(Horizon + 1)

Run(days) ==
    /\ Len(completion) < MaxRuns
    /\ \A i \in DOMAIN completion : completion[i] <= days
    /\ completion' = Append(completion, days)
    /\ UNCHANGED planned

Next == \E days \in (1..Horizon) \cup {Never} : Run(days)

Spec == Init /\ [][Next]_vars

-----------------------------------------------------------------------------

\* percentile and the ceiling of its days: between the two closest ranks, and
\* Never where the upper of them is.
DateOf(tenths) ==
    LET rank == tenths * (Len(completion) - 1)
        lo == completion[1 + rank \div 10]
        hi == completion[1 + (rank + 9) \div 10]
    IN  IF hi = Never THEN Never
        ELSE (10 * lo + (hi - lo) * (rank % 10) + 9) \div 10

P50 == DateOf(5)
P90 == DateOf(9)

\* The runs that end in time, of which hitProbability is the share.
Hits == Cardinality({i \in DOMAIN completion : completion[i] <= planned})
Unfinished == Cardinality({i \in DOMAIN completion : completion[i] = Never})

-----------------------------------------------------------------------------
(* Properties *)

\* The dates and the probability agree: an even chance or better to meet the
\* planned end if the median date does, and the median date does if the
\* chance is better than even; there is no median date exactly when half of
\* the runs or more never end; and the pessimistic date is not the earlier.
OddsAgree ==
    completion # <<>> =>
        /\ P50 <= planned => 2 * Hits >= Len(completion)
        /\ 2 * Hits > Len(completion) => P50 <= planned
        /\ P50 = Never <=> 2 * Unfinished >= Len(completion)
        /\ P50 <= P90
=============================================================================
