------------------------------ MODULE MCAccounts ------------------------------
(***************************************************************************)
(* Who has an account in a workspace and what a browser's session may do   *)
(* with it, as one run for TLC.  The two share no state, so each is        *)
(* checked for itself: a behaviour picks one of them, its part, and the    *)
(* other rests in its initial state.  The agency's operators are users of  *)
(* its own, and a browser has as many tabs as there are settings requests. *)
(***************************************************************************)
EXTENDS Membership, TLC

CONSTANTS
    Workspaces, Browsers, IdleTimeout, MaxAge, MaxTime, MaxEpoch   \* Sessions

VARIABLES
    part,
    account, cookie, reply, active, audit, now                     \* Sessions

sessionVars == <<account, cookie, reply, active, audit, now>>

S == INSTANCE Sessions WITH
        Operators <- Users \ Founders, Tabs <- Admins, Idle <- IdleTimeout

ASSUME SessionsAssumption == S!ConstantsOK

-----------------------------------------------------------------------------

InitAccounts == part \in {"members", "sessions"} /\ Init /\ S!Init

NextAccounts ==
    /\ \/ part = "members" /\ Next /\ UNCHANGED sessionVars
       \/ part = "sessions" /\ S!Next /\ UNCHANGED vars
    /\ UNCHANGED part

SpecAccounts == InitAccounts /\ [][NextAccounts]_<<part, vars, sessionVars>>

Symmetry == Permutations(People) \cup Permutations(Users \ Founders)
            \cup Permutations(Invites)
            \cup Permutations(Logins) \cup Permutations(Founders)
            \cup Permutations(Workspaces) \cup Permutations(Browsers)

\* No action reads audit, so states that differ in it alone count as one.
ExceptAudit == <<part, vars, account, cookie, reply, active, now>>

-----------------------------------------------------------------------------
(* Bounds *)

One == CHOOSE a \in Admins : TRUE

Open(t) == op[t].kind # "idle"

\* Settings requests come one at a time, but for changes of roles: those
\* overlap while nothing else is under way, until they have crossed.  A sign-in
\* overlaps requests that write what it has read: erasures of accounts if it
\* binds one, changes of invitations if it joins by one.  Both happen while
\* there is a row left.  One row is erased.
Overlaps ==
    /\ ~crossed
    /\ Cardinality({u \in Rows : user[u].person = None}) <= 1
    /\ \A t \in Admins \ {One} : Open(t) =>
          /\ \A s \in Admins : op[s].kind = "role"
          /\ \A i \in Invites : invite[i] = None
          /\ Rows # Users
    /\ \A t \in Logins, s \in Admins : Open(t) /\ Open(s) =>
          /\ <<op[t].kind, op[s].kind>> \in
                {<<"bind", "erase">>, <<"join", "reinvite">>, <<"join", "invite">>}
          /\ Rows # Users

\* Two answers are under way while at most one account has been disabled or
\* revoked.
OverlapOfAnswers ==
    \A b \in Browsers :
        Cardinality({x \in Admins : reply[b][x] # None}) > 1 =>
            Cardinality({u \in S!Accounts : account[u].status = "disabled"
                                             \/ account[u].epoch > 0}) <= 1

Bounded == Overlaps /\ OverlapOfAnswers

-----------------------------------------------------------------------------
(* Properties of the sessions.  Those of the members are Membership's own:  *)
(* they hold of its initial state, in which it rests meanwhile.            *)

\* The users and invitations tables hold what their columns allow (schema.ts
\* lines 87-139), and a session's times lie in its past (auth/session.ts).
AccountsTyped == TypeOK /\ S!TypeOK

\* A revocation forces a fresh login: a session that has not acted inside a
\* workspace was born under the account's epoch of today (auth/session.ts).
RevokedMustSignIn == part = "sessions" => S!RevokedMustSignIn

\* A browser without activity for the idle timeout is rejected, however late
\* the answers of its tabs' refreshes land (auth/session.ts lines 23-25).
IdleLapses == part = "sessions" => S!IdleLapses

\* Switching, exiting and refreshing lead back to the person's own account,
\* never into a colleague's (api/portfolio/switch, api/portfolio/exit).
PersonStaysPut == part = "sessions" => S!PersonStaysPut

\* Every audit row of a service user names the operator that acted as it
\* (settings/page.tsx lines 328-329, mutation-gate.ts lines 164-165).
AuditNamesOperator == part = "sessions" => S!AuditNamesOperator
=============================================================================
