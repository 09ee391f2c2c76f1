----------------------------- MODULE FundRules -----------------------------
(***************************************************************************)
(* The rules for a planned event of the MDF planner (src/domain/mdf/       *)
(* compliance.ts): the deadline for its fund request, which is derived     *)
(* from its dates, and the checks of the dates that block it or warn.      *)
(*                                                                         *)
(* A day is a number, and a year has YearDays of them, so the calendar's   *)
(* dates are days of the year.  The state is an event's dates and the day  *)
(* they are looked at.                                                     *)
(***************************************************************************)
EXTENDS Integers, FiniteSets

CONSTANTS
    YearDays,
    Lead,       \* LEAD_DAYS before the start
    SubmitCap,  \* December 1, as a day of the year
    Years,      \* bound: how many years there are
    None

VARIABLES
    start, end, \* dates of the event, or None
    today

vars == <<start, end, today>>

ConstantsOK ==
    /\ {YearDays, Lead, SubmitCap} \subseteq Nat /\ Years \in Nat \ {0}
    /\ Lead < SubmitCap /\ SubmitCap < YearDays
    /\ None \notin Int

Days == 0..(Years * YearDays - 1)

TypeOK == start \in Days \cup {None} /\ end \in Days \cup {None} /\ today \in Days

Init ==
    /\ start \in Days \cup {None}
    /\ end \in Days \cup {None}
    /\ today = 0

Tick ==
    /\ today + 1 \in Days
    /\ today' = today + 1
    /\ UNCHANGED <<start, end>>

Next == Tick

Spec == Init /\ [][Next]_vars

-----------------------------------------------------------------------------
(* derivedDeadlines *)

YearOf(d) == d \div YearDays
InYear(d, day) == YearOf(d) * YearDays + day
Earlier(a, b) == IF a < b THEN a ELSE b

SubmitBy == IF start = None THEN None ELSE Earlier(start - Lead, InYear(start, SubmitCap))

-----------------------------------------------------------------------------
(* complianceChecks, of the dates *)

Blocks ==
    {c \in {"dates", "calendar_year", "pre_approval", "submit_cutoff"} :
        CASE c = "dates" -> start = None \/ end = None \/ (start # None /\ end # None /\ start > end)
          [] c = "calendar_year" ->
                 start # None /\ end # None /\ start <= end /\ YearOf(start) # YearOf(end)
          [] c = "pre_approval" -> start # None /\ start < today
          [] c = "submit_cutoff" ->
                 start # None /\ start >= today /\ today > InYear(start, SubmitCap)}

Warns == start # None /\ start >= today /\ today + Lead > start

-----------------------------------------------------------------------------
(* Properties *)

\* The submission deadline that the planner shows, and that the command center
\* alerts on, is the one its checks enforce: until that day nothing is said of
\* lead, cutoff or start, and from the next day on something is.
DeadlineIsEnforced ==
    start # None =>
        (today <= SubmitBy <=>
            ~Warns /\ Blocks \cap {"pre_approval", "submit_cutoff"} = {})

\* Days passing lift no block (complianceChecks).
BlocksStay == [][Blocks # {} => Blocks' # {}]_vars
=============================================================================
