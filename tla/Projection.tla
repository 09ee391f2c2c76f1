----------------------------- MODULE Projection -----------------------------
(***************************************************************************)
(* When a roadmap will be finished (src/domain/roadmaps/forecast.ts): from *)
(* how many milestones were done over how many days, or, without such a    *)
(* history, from the share that is done since the first date.              *)
(*                                                                         *)
(* The state is a roadmap and the day it is looked at; it grows a          *)
(* milestone at a time.  The page that shows the forecast ends the series  *)
(* of stored snapshots with what is done today, so a history is the first  *)
(* of them, from an earlier day, if there is one.                          *)
(***************************************************************************)
EXTENDS Integers, Sequences, FiniteSets, FiniteSetsExt

CONSTANTS
    MaxMilestones, \* bound: milestones of the roadmap
    MaxDay,        \* bound: dates are 0..MaxDay
    MaxProjection, \* MAX_PROJECTION_DAYS
    None

VARIABLES
    milestone, \* [due, done], by date
    history,   \* None, or the first snapshot: [days ago, done]
    today

vars == <<milestone, history, today>>

Days == 0..MaxDay
Row == [due : Days, done : BOOLEAN]
Snapshots == [days : 1..MaxDay, done : 0..MaxMilestones]
Histories == {None} \cup Snapshots

ConstantsOK ==
    /\ MaxMilestones \in Nat /\ MaxDay \in Nat /\ MaxProjection \in Nat \ {0}
    /\ None \notin Snapshots

TypeOK ==
    /\ milestone \in Seq(Row) /\ Len(milestone) <= MaxMilestones
    /\ history \in Histories
    /\ today \in Days

Init ==
    /\ milestone = <<>>
    /\ history \in Histories
    /\ today \in Days

Add(d, done) ==
    /\ Len(milestone) < MaxMilestones
    /\ \A i \in DOMAIN milestone : milestone[i].due <= d
    /\ milestone' = Append(milestone, [due |-> d, done |-> done])
    /\ UNCHANGED <<history, today>>

Next == \E d \in Days, done \in BOOLEAN : Add(d, done)

Spec == Init /\ [][Next]_vars

-----------------------------------------------------------------------------
(* computeForecast *)

Open(ms) == {i \in DOMAIN ms : ~ms[i].done}
Remaining(ms) == Cardinality(Open(ms))
DoneOf(ms) == Len(ms) - Remaining(ms)
Start(ms) == Min({ms[i].due : i \in DOMAIN ms})
PlannedEnd(ms) == Max({ms[i].due : i \in DOMAIN ms})

\* Math.ceil(n / d) as computed with fractions: where d divides n the quotient
\* of two rounded numbers can lie above the whole one (slip).
Ceiling(n, d, slip) == (n + d - 1) \div d + IF n % d = 0 THEN slip ELSE 0

Gained(ms) == DoneOf(ms) - history.done

HasVelocity(ms) == history # None /\ Gained(ms) > 0

\* Variant: the projection counts from the first snapshot.
DaysToFinishFromStart(ms, slip) ==
    IF HasVelocity(ms) THEN Ceiling(Remaining(ms) * history.days, Gained(ms), slip) - history.days
    ELSE LET elapsed == Max({1, today - Start(ms)})
         IN  Ceiling(elapsed * Remaining(ms), DoneOf(ms), slip)

\* At the velocity of the history; or as many days again, in proportion, as
\* went by since the first date.
DaysToFinish(ms, slip) ==
    IF HasVelocity(ms) THEN Ceiling(Remaining(ms) * history.days, Gained(ms), slip)
    ELSE LET elapsed == Max({1, today - Start(ms)})
         IN  Ceiling(elapsed * Remaining(ms), DoneOf(ms), slip)

Basis(ms) ==
    IF ms = <<>> THEN "none"
    ELSE IF Remaining(ms) = 0 THEN "complete"
    ELSE IF HasVelocity(ms) THEN "velocity" ELSE "naive"

\* None without milestones, and without history before the first is done.
Projected(ms, slip) ==
    IF Basis(ms) = "complete" THEN today
    ELSE IF Basis(ms) = "none" \/ (Basis(ms) = "naive" /\ DoneOf(ms) = 0) THEN None
    ELSE today + Min({DaysToFinish(ms, slip), MaxProjection})

\* A finished roadmap is on track.
OffTrack(ms, slip) ==
    /\ Remaining(ms) > 0
    /\ Projected(ms, slip) # None
    /\ Projected(ms, slip) > PlannedEnd(ms)

AtRisk(ms, slip) ==
    {i \in Open(ms) :
        \/ ms[i].due < today
        \/ Projected(ms, slip) # None /\ ms[i].due < Projected(ms, slip)}

-----------------------------------------------------------------------------
(* Properties *)

\* The verdict and the list agree: where a roadmap is off track every open
\* milestone is at risk.  No end is projected into the past.
VerdictAgrees ==
    \A slip \in {0, 1} :
        /\ OffTrack(milestone, slip) => AtRisk(milestone, slip) = Open(milestone)
        /\ Projected(milestone, slip) # None => Projected(milestone, slip) >= today

\* Finishing a milestone never puts the projected end off, whatever the
\* arithmetic makes of either quotient, but for one that turns a projection by
\* dates into one at a velocity: the first to be finished since the first
\* snapshot may.
ProgressNeverDelays ==
    \A i \in Open(milestone), before, after \in {0, 1} :
        LET advanced == [milestone EXCEPT ![i].done = TRUE]
        IN  /\ Projected(milestone, before) # None
            /\ HasVelocity(advanced) => HasVelocity(milestone) \/ Remaining(advanced) = 0
            => Projected(advanced, after) <= Projected(milestone, before)
=============================================================================
