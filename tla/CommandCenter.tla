--------------------------- MODULE CommandCenter ---------------------------
(***************************************************************************)
(* What the command center computes of a workspace (src/domain/command):   *)
(* the queue of decisions, the health score, the moves it suggests with    *)
(* their projected effect, and what happens if nothing is done.            *)
(*                                                                         *)
(* The engines tell rows apart by what their predicates read, so a row is  *)
(* its kind and a workspace a bag of kinds.  The state is a workspace,     *)
(* which grows by a row at a time.  Rows that only raise a decision nobody *)
(* can move (listings, plan events, solutions, funding deadlines and       *)
(* rematches) add the same to both sides of every comparison and are left  *)
(* out.                                                                    *)
(***************************************************************************)
EXTENDS Integers, FiniteSets, Bags

CONSTANTS
    MaxRows,  \* bound: rows of a workspace
    MaxDeals, \* bound: rows of one with deals and relationships alone
    RepScore  \* what contact and strength make of a relationship's health

VARIABLE workspace

vars == <<workspace>>

ConstantsOK == MaxRows \in Nat /\ MaxDeals \in Nat /\ RepScore \in 0..70

Tasks == {"task open", "task blocked", "task overdue", "task done"}
Funds == {"fund safe", "fund due"}
OpenDeals == {"deal small", "deal small cold", "deal big", "deal big cold"}
Deals == OpenDeals \cup {"deal won", "deal lost"}
Documents == {"document", "document expiring",
              "approved", "approved expiring", "approved lapsed"}
Milestones == {"milestone", "milestone soon", "milestone overdue"}
Programs == {"program active", "program renewing", "program pending", "program expired"}
Requirements == {"requirement met", "requirement unmet"}
Sync == {"sync stale", "sync drift"}
Kinds == Tasks \cup Funds \cup Deals \cup Documents \cup Milestones
             \cup Programs \cup Requirements \cup Sync \cup {"rep"}

\* The rows of some kinds, numbered within their kind.
Rows(w, kinds) == UNION {{k} \X (1..w[k]) : k \in BagToSet(w) \cap kinds}

Count(w, kinds) == Cardinality(Rows(w, kinds))

Bounded(w) ==
    \/ Count(w, Kinds) <= MaxRows
    \/ /\ Count(w, Kinds) <= MaxDeals
       /\ Count(w, Kinds \ (Deals \cup {"rep"})) = 0

TypeOK == IsABag(workspace) /\ BagToSet(workspace) \subseteq Kinds

Init == workspace = EmptyBag

Add(k) ==
    /\ k \in Sync => ~BagIn(k, workspace)
    /\ workspace' = workspace (+) SetToBag({k})
    /\ Bounded(workspace')

Next == \E k \in Kinds : Add(k)

Spec == Init /\ [][Next]_vars

-----------------------------------------------------------------------------
(* Decisions *)

\* The kinds that raise a decision by themselves (deriveDecisions).
Urgent == {"task blocked", "task overdue", "fund due", "deal big cold",
           "document expiring", "approved expiring", "approved lapsed",
           "milestone soon", "milestone overdue",
           "program renewing", "program expired"} \cup Sync

\* Math.round of a quotient that is not negative, kept to a percentage.
Round(n, d) == (2 * n + d) \div (2 * d)
AtMost(n, most) == IF n > most THEN most ELSE n

\* The pipeline in units of 10 000: a big deal is high-value, a small one not.
OpenValue(w) == 5 * Count(w, {"deal small", "deal small cold"})
                    + 20 * Count(w, {"deal big", "deal big cold"})

\* momentumScore, for a representative to whose account all deals belong.
Momentum(w) ==
    LET closed == Count(w, {"deal won", "deal lost"})
    IN  AtMost(OpenValue(w), 50)
            + IF closed = 0 THEN 0 ELSE Round(30 * Count(w, {"deal won"}), closed)

\* repHealth: open pipeline, and a score below 45.
AtStake(w) == OpenValue(w) > 0 /\ Round(10 * RepScore + 3 * Momentum(w), 10) < 45

Cooling(w) == IF AtStake(w) THEN Count(w, {"rep"}) ELSE 0

Decisions(w) == Count(w, Urgent) + Cooling(w)

-----------------------------------------------------------------------------
(* Health: drivers and their weights *)

Neutral == 70

\* The share of n in d as a percentage, neutral without rows.
Share(n, d) == IF d = 0 THEN Neutral ELSE Round(100 * n, d)

TasksDriver(w) ==
    LET open == Count(w, Tasks \ {"task done"})
    IN  Share(open - Count(w, {"task overdue"}), open)
FundsDriver(w) ==
    IF Count(w, Funds) = 0 THEN Neutral ELSE 100 - AtMost(25 * Count(w, {"fund due"}), 100)
DealsDriver(w) ==
    LET open == Count(w, OpenDeals)
    IN  Share(open - Count(w, {"deal small cold", "deal big cold"}), open)
EvidenceDriver(w) ==
    Share(Count(w, {"approved", "approved expiring", "approved lapsed"}),
          Count(w, Documents))
ProgramsDriver(w) ==
    Share(2 * Count(w, {"program active", "program renewing"})
              + Count(w, {"program pending"}), 2 * Count(w, Programs))
\* planSummary: a workspace with requirements has chosen a target tier.
TierDriver(w) == Share(Count(w, {"requirement met"}), Count(w, Requirements))

Health(w) ==
    Round(20 * EvidenceDriver(w) + 15 * FundsDriver(w) + 20 * DealsDriver(w)
              + 15 * ProgramsDriver(w) + 20 * TasksDriver(w) + 10 * TierDriver(w), 100)

-----------------------------------------------------------------------------
(* Moves: what buildCandidates offers and how a what-if applies it *)

\* What an offered row is turned into, by the transforms of impact.ts.
Movable == {"task blocked", "task overdue", "deal big cold", "document expiring",
            "approved expiring", "milestone overdue", "fund due", "requirement unmet"}

\* Variant: renewed evidence keeps the date it expires on.
ResolvedKeepsDate(k) ==
    CASE k \in Tasks -> "task done"
      [] k \in Deals -> "deal won"
      [] k \in Documents -> "approved expiring"
      [] k \in Milestones -> "milestone"
      [] k \in Funds -> "fund safe"
      [] k \in Requirements -> "requirement met"

Resolved(k) ==
    CASE k \in Tasks -> "task done"
      [] k \in Deals -> "deal won"
      [] k \in Documents -> "approved"
      [] k \in Milestones -> "milestone"
      [] k \in Funds -> "fund safe"
      [] k \in Requirements -> "requirement met"

Turned(w, from, to) == (w (-) SetToBag({from})) (+) SetToBag({to})

Candidates(w) ==
    (Movable \cap BagToSet(w)) \cup {s \in {"sync"} : Count(w, Sync) > 0}

Applied(w, c) ==
    IF c = "sync" THEN w (-) SetToBag(Sync)
    ELSE Turned(w, c, Resolved(c))

\* projectImpact, and the leverage by which nextBestActions ranks and filters,
\* in tenths.
HealthDelta(w, c) == Health(Applied(w, c)) - Health(w)
QueueDelta(w, c) == Decisions(w) - Decisions(Applied(w, c))
TierDelta(w, c) ==
    IF Count(w, Requirements) = 0 THEN 0 ELSE TierDriver(Applied(w, c)) - TierDriver(w)
Leverage(w, c) == 10 * HealthDelta(w, c) + 6 * TierDelta(w, c) + 30 * QueueDelta(w, c)

Offered(w, c) == Leverage(w, c) > 0

-----------------------------------------------------------------------------
(* Decay: what the passing of days makes of a row (whatBreaksNext) *)

\* A document that was never approved raises nothing once its date is past.
Aged ==
    [k \in {"task open", "task blocked", "fund safe", "deal small", "deal big",
            "document", "document expiring", "approved", "approved expiring",
            "milestone", "milestone soon", "program active"} |->
        CASE k \in Tasks -> "task overdue"
          [] k = "fund safe" -> "fund due"
          [] k = "deal small" -> "deal small cold"
          [] k = "deal big" -> "deal big cold"
          [] k = "document" -> "document expiring"
          [] k = "document expiring" -> "document"
          [] k = "approved" -> "approved expiring"
          [] k = "approved expiring" -> "approved lapsed"
          [] k = "milestone" -> "milestone soon"
          [] k = "milestone soon" -> "milestone overdue"
          [] k = "program active" -> "program renewing"]

-----------------------------------------------------------------------------
(* Properties *)

\* A move removes a decision of its own, does not lower the health score, and
\* is offered.  Four exceptions: a requirement has no decision, and one of more
\* than a hundred may move no percentage; a blocked task, whichever it is, need
\* not keep the score nor be offered, since resolving the only one can cost
\* health; and a deal won can leave a relationship cooler (impact.ts,
\* nextBestActions).
MovesHelp ==
    \A c \in Candidates(workspace) :
        LET after == Applied(workspace, c)
        IN  /\ c # "requirement unmet" =>
                   Decisions(after) - Cooling(after) < Decisions(workspace) - Cooling(workspace)
            /\ c # "task blocked" => HealthDelta(workspace, c) >= 0
            /\ \/ c \in {"task blocked", "deal big cold"}
               \/ c = "requirement unmet" /\ Count(workspace, Requirements) > 100
               \/ Offered(workspace, c)

\* Where nothing is done the outlook does not brighten: no passing day raises
\* the score, and only a document that was never approved leaves the queue
\* (whatBreaksNext).
OnlyErodes ==
    LET health == Health(workspace)
        queue == Decisions(workspace)
    IN  \A k \in BagToSet(workspace) \cap DOMAIN Aged :
            LET later == Turned(workspace, k, Aged[k])
            IN  /\ Health(later) <= health
                /\ k # "document expiring" => Decisions(later) >= queue
=============================================================================
