------------------------------ MODULE Schedule ------------------------------
(***************************************************************************)
(* The dates of a draft roadmap's milestones: how they are planned (src/   *)
(* domain/roadmaps/planner.ts, replanRoadmapOp), edited by hand, and       *)
(* analysed against the dependencies (schedule.ts).                        *)
(*                                                                         *)
(* A milestone is its sequence number.  Only edits that do not overlap are *)
(* described, so a dependency leads to an earlier milestone (Roadmaps);    *)
(* removals and reorders lead to no dates and dependencies that the others *)
(* do not.                                                                 *)
(***************************************************************************)
EXTENDS Integers, Sequences, FiniteSets, FiniteSetsExt

CONSTANTS
    MaxMilestones, \* bound: milestones of the roadmap
    MaxDay,        \* bound: dates set by hand are 0..MaxDay
    HorizonDays,   \* the horizons, in days
    Paces          \* the paces of the scenarios, in percent of the horizon

VARIABLES
    due,   \* target dates, by sequence number
    after, \* the predecessor of each milestone; 0 for none
    spread \* hundredths of a day over which all dates were spread; 0 when one was set since

vars == <<due, after, spread>>

ConstantsOK ==
    /\ MaxMilestones \in Nat \ {0} /\ MaxDay \in Nat
    /\ HorizonDays \subseteq Nat /\ Paces \subseteq 1..100

Days == 0..MaxDay
Milestones == DOMAIN due

TypeOK ==
    /\ due \in Seq(Nat) /\ Len(due) <= MaxMilestones
    /\ after \in [Milestones -> 0..MaxMilestones]
    /\ spread \in {0} \cup {h * p : h \in HorizonDays, p \in Paces}

Round(n, d) == (2 * n + d) \div (2 * d)

\* planRoadmap: the i-th of n dates, a share of the horizon at the pace; never
\* on the day of the start.
Planned(start, hundredths, n, i) == start + Max({1, Round(hundredths * i, 100 * n)})

\* createRoadmapOp: a chain, planned.
Init ==
    \E n \in 1..MaxMilestones, start \in Days, h \in HorizonDays, p \in Paces :
        /\ due = [i \in 1..n |-> Planned(start, h * p, n, i)]
        /\ after = [i \in 1..n |-> i - 1]
        /\ spread = h * p

\* addMilestoneOp: a new last milestone, after the last.
Add(d) ==
    /\ Len(due) < MaxMilestones
    /\ due' = Append(due, d)
    /\ after' = Append(after, Len(due))
    /\ spread' = 0

\* updateMilestoneOp.
SetDate(m, d) ==
    /\ due' = [due EXCEPT ![m] = d]
    /\ spread' = 0
    /\ UNCHANGED after

Depend(m, p) ==
    /\ p < m
    /\ after' = [after EXCEPT ![m] = p]
    /\ UNCHANGED <<due, spread>>

\* replanRoadmapOp: all dates anew, dependencies as they are.
Replan(start, h, p) ==
    /\ due' = [i \in Milestones |-> Planned(start, h * p, Len(due), i)]
    /\ spread' = h * p
    /\ UNCHANGED after

Next ==
    \/ \E d \in Days : Add(d)
    \/ \E m \in Milestones : \/ \E d \in Days : SetDate(m, d)
                             \/ \E p \in 0..Len(due) : Depend(m, p)
    \/ \E start \in Days, h \in HorizonDays, p \in Paces : Replan(start, h, p)

Spec == Init /\ [][Next]_vars

-----------------------------------------------------------------------------
(* analyzeSchedule *)

Edges == {m \in Milestones : after[m] # 0}

\* Milestones on or before the day of the one they depend on.
Conflicts == {m \in Edges : due[m] <= due[after[m]]}

\* The latest, of equals the last in the order.
Finish ==
    CHOOSE m \in Milestones :
        \A k \in Milestones : due[k] < due[m] \/ (due[k] = due[m] /\ k <= m)

\* The chain of predecessors of the finish, root first.
CriticalPath ==
    LET chain[k \in 0..Len(due)] ==
            IF k = 0 THEN <<Finish>>
            ELSE LET earlier == chain[k - 1]
                 IN  IF after[earlier[1]] = 0 THEN earlier
                     ELSE <<after[earlier[1]]>> \o earlier
    IN  chain[Len(due)]

Successors(m) == {k \in Edges : after[k] = m}

\* Days from m to its tightest successor.
Slack(m) == Min({due[k] : k \in Successors(m)}) - due[m]

-----------------------------------------------------------------------------
(* Properties *)

\* The three results tell one story: a milestone lacks slack exactly when a
\* successor conflicts with it; the critical path leads from a root to the
\* finish; and without a conflict its dates ascend and nothing follows the
\* finish (analyzeSchedule).
AnalysisAgrees ==
    /\ \A m \in Milestones : Successors(m) # {} =>
           (Slack(m) <= 0 <=> Successors(m) \cap Conflicts # {})
    /\ LET path == CriticalPath
       IN  /\ after[path[1]] = 0
           /\ path[Len(path)] = Finish
           /\ \A i \in 1..Len(path) - 1 : after[path[i + 1]] = path[i]
           /\ Conflicts = {} =>
                  /\ \A i \in 1..Len(path) - 1 : due[path[i]] < due[path[i + 1]]
                  /\ Successors(Finish) = {}

\* Planning anew resolves every conflict, whatever the dependencies, if the
\* horizon has a day for each milestone (planRoadmap, replanRoadmapOp).
ReplanResolves == spread >= 100 * Len(due) => Conflicts = {}
=============================================================================
