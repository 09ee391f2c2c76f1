---------------------------- MODULE Percentiles ----------------------------
(***************************************************************************)
(* The statistics of a benchmark cohort (src/domain/benchmarks/            *)
(* percentiles.ts): the percentiles of a sample and where a value stands   *)
(* among them.  The code computes with fractions and rounds at the end;    *)
(* here numerators are kept over a common denominator, and Round is        *)
(* Math.round of a quotient that is not negative.                          *)
(*                                                                         *)
(* The state is a sample in ascending order, which grows by a value at a   *)
(* time: every sample within the bounds is one.                            *)
(***************************************************************************)
EXTENDS Naturals, Sequences, FiniteSets

CONSTANTS
    MaxValue,  \* bound: values are 0..MaxValue
    MaxSample  \* bound: the largest sample

VARIABLE sample

vars == <<sample>>

ConstantsOK == MaxValue \in Nat /\ MaxSample \in Nat

Values == 0..MaxValue

TypeOK ==
    /\ sample \in Seq(Values)
    /\ Len(sample) <= MaxSample

Init == sample = <<>>

Add(v) ==
    /\ Len(sample) < MaxSample
    /\ \A i \in DOMAIN sample : sample[i] <= v
    /\ sample' = Append(sample, v)

Next == \E v \in Values : Add(v)

Spec == Init /\ [][Next]_vars

-----------------------------------------------------------------------------

Round(n, d) == (2 * n + d) \div (2 * d)

\* Variant: the rank of n values runs to n.
PercentileTo(s, p) ==
    LET rank == p * Len(s)
        lo == s[1 + rank \div 100]
        hi == s[1 + (rank + 99) \div 100]
    IN  IF s = <<>> THEN 0
        ELSE IF rank + 99 >= 100 * Len(s) THEN s[Len(s)]
        ELSE Round(100 * lo + (hi - lo) * (rank % 100), 100)

\* Math.round(percentile(s, p)): between the two closest ranks.
Percentile(s, p) ==
    LET rank == p * (Len(s) - 1)
        lo == s[1 + rank \div 100]
        hi == s[1 + (rank + 99) \div 100]
    IN  IF s = <<>> THEN 0 ELSE Round(100 * lo + (hi - lo) * (rank % 100), 100)

Anchors == {25, 50, 75, 90}

\* summarize
Summary(s) == [p \in Anchors |-> Percentile(s, p)]

\* estimatePercentile: between the anchors around the value; from 0 below the
\* first, at most 95 beyond the last.
Estimate(v, a) ==
    LET Between(p, q) == IF a[q] = a[p] THEN q
                         ELSE Round(p * (a[q] - a[p]) + (q - p) * (v - a[p]), a[q] - a[p])
    IN  CASE v <= a[25] -> IF a[25] = 0 THEN 0 ELSE Round(25 * v, a[25])
          [] v > a[25] /\ v <= a[50] -> Between(25, 50)
          [] v > a[50] /\ v <= a[75] -> Between(50, 75)
          [] v > a[75] /\ v <= a[90] -> Between(75, 90)
          [] OTHER -> 95

\* positionOf: how many of the quartiles the value reaches.
Band(v, a) == Cardinality({p \in {25, 50, 75} : v >= a[p]})

-----------------------------------------------------------------------------
(* Properties *)

\* A percentile splits the sample: p in a hundred lie at or below it, the rest
\* at or above, for every sample and every anchor (percentile, summarize).
Splits ==
    sample # <<>> =>
        \A p \in Anchors :
            LET at == Percentile(sample, p)
                below == Cardinality({i \in DOMAIN sample : sample[i] <= at})
                above == Cardinality({i \in DOMAIN sample : sample[i] >= at})
            IN  /\ 100 * below > p * (Len(sample) - 1)
                /\ 100 * above > (100 - p) * (Len(sample) - 1)

\* Whoever has more does not stand lower, and where the quartiles differ the
\* band and the estimate tell the same quarter (positionOf).
Ranks ==
    LET a == Summary(sample)
    IN  /\ \A v, w \in Values : v <= w => /\ Estimate(v, a) <= Estimate(w, a)
                                          /\ Band(v, a) <= Band(w, a)
        /\ 0 < a[25] /\ a[25] < a[50] /\ a[50] < a[75] =>
               \A v \in Values :
                   /\ 25 * Band(v, a) <= Estimate(v, a)
                   /\ Band(v, a) < 3 => Estimate(v, a) <= 25 * (Band(v, a) + 1)
=============================================================================
