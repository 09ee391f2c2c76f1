------------------------------ MODULE Sessions ------------------------------
(***************************************************************************)
(* The session cookie (src/auth/session.ts): a signed token that names an  *)
(* account, checked against the account's row on every request, slid by    *)
(* the keepalive (app/api/auth/refresh), and exchanged when an agency      *)
(* operator acts inside a managed workspace (app/api/portfolio/switch and  *)
(* exit).                                                                  *)
(*                                                                         *)
(* An account is an operator's users row in the agency's tenant or, under  *)
(* the name of a managed workspace, the agency service user's row in it.   *)
(* A navigation (sign-in, switch, exit, logout) replaces the cookie in one *)
(* step; a refresh runs in the background of a tab, so its Set-Cookie      *)
(* lands later, whatever the cookie, which the tabs share, is by then.     *)
(*                                                                         *)
(* signSession stamps the expiry and the idle clock together, so a token   *)
(* has one time, seen.  Three fields are history, not claims: the person   *)
(* that signed in, that person's epoch at that sign-in and whether the     *)
(* session has acted inside a workspace since.                             *)
(***************************************************************************)
EXTENDS Naturals

CONSTANTS
    Operators,   \* users of the agency's tenant
    Workspaces,  \* workspaces the agency manages
    Browsers,    \* cookie jars
    Tabs,        \* tabs of a browser, each with a keepalive of its own
    Idle,        \* IDLE_TIMEOUT_SECONDS, in ticks
    MaxAge,      \* MAX_AGE_SECONDS, in ticks
    MaxTime,     \* bound: ticks of the clock
    MaxEpoch,    \* bound: session revocations of an account
    None         \* no token, no operator

VARIABLES
    account,  \* status and session_epoch of each users row
    cookie,   \* the session cookie of each browser
    reply,    \* the answer to a tab's refresh, under way
    active,   \* time of a browser's last activity
    audit,    \* audit_log: account and agencyOperator of each mutation
    now

vars == <<account, cookie, reply, active, audit, now>>

-----------------------------------------------------------------------------

Accounts == Operators \cup Workspaces

Time == 0..MaxTime

Token == [acct: Accounts, epoch: 0..MaxEpoch, seen: Time,
          operator: Operators \cup {None},           \* the agency claim
          person: Operators, born: 0..MaxEpoch, acted: BOOLEAN]

ConstantsOK ==
    /\ Operators \cap Workspaces = {}
    /\ None \notin Operators \cup Workspaces
    /\ None \notin Token
    /\ Idle \in Nat /\ MaxAge \in Nat /\ MaxTime \in Nat /\ MaxEpoch \in Nat
    /\ Idle < MaxAge

TypeOK ==
    /\ account \in [Accounts -> [status: {"active", "disabled"}, epoch: 0..MaxEpoch]]
    /\ cookie \in [Browsers -> Token \cup {None}]
    /\ reply \in [Browsers -> [Tabs -> Token \cup {None}]]
    /\ active \in [Browsers -> Time]
    /\ audit \subseteq [account: Accounts, operator: Operators \cup {None}]
    /\ now \in Time

Init ==
    /\ account = [u \in Accounts |-> [status |-> "active", epoch |-> 0]]
    /\ cookie = [b \in Browsers |-> None]
    /\ reply = [b \in Browsers |-> [x \in Tabs |-> None]]
    /\ active = [b \in Browsers |-> 0]
    /\ audit = {}
    /\ now = 0

-----------------------------------------------------------------------------
(* Verification *)

\* Variant: the expiry alone.
FreshByExpiry(t) == now - t.seen < MaxAge

\* verifySession: not expired and not idle for too long.
Fresh(t) == now - t.seen < MaxAge /\ now - t.seen <= Idle

\* Variant: the status alone.
LiveByStatus(t) == account[t.acct].status = "active"

\* assertActiveUser: the row is active and its epoch is the token's.
Live(t) == account[t.acct].status = "active" /\ account[t.acct].epoch = t.epoch

\* getServerIdentity.
Accepted(b) == cookie[b] # None /\ Fresh(cookie[b]) /\ Live(cookie[b])

SetCookie(b, t) ==
    /\ cookie' = [cookie EXCEPT ![b] = t]
    /\ active' = [active EXCEPT ![b] = now]

-----------------------------------------------------------------------------
(* Browsers *)

\* The OIDC callback signs an active operator in.
SignIn(b, o) ==
    /\ account[o].status = "active"
    /\ SetCookie(b, [acct |-> o, epoch |-> account[o].epoch, seen |-> now,
                     operator |-> None,
                     person |-> o, born |-> account[o].epoch, acted |-> FALSE])
    /\ UNCHANGED <<account, reply, audit, now>>

\* A mutation: the gate stamps the agency and its operator into the audit row
\* of a session that is acting inside a managed workspace.
Mutate(b) ==
    /\ Accepted(b)
    /\ audit' = audit \cup {[account |-> cookie[b].acct, operator |-> cookie[b].operator]}
    /\ active' = [active EXCEPT ![b] = now]
    /\ UNCHANGED <<account, cookie, reply, now>>

\* Variant: seen is the expiry.
SlideAhead(t) == [t EXCEPT !.seen = now + MaxAge, !.operator = None]

\* The refresh route mints from the claims it verified: everything but the
\* agency context.
Slide(t) == [t EXCEPT !.seen = now, !.operator = None]

Refresh(b, x) ==
    /\ Accepted(b)
    /\ reply[b][x] = None
    /\ reply' = [reply EXCEPT ![b][x] = Slide(cookie[b])]
    /\ active' = [active EXCEPT ![b] = now]
    /\ UNCHANGED <<account, cookie, audit, now>>

\* A refresh's answer arrives, or is lost.
Land(b, x) ==
    /\ reply[b][x] # None
    /\ cookie' = [cookie EXCEPT ![b] = reply[b][x]]
    /\ reply' = [reply EXCEPT ![b][x] = None]
    /\ UNCHANGED <<account, active, audit, now>>

LoseReply(b, x) ==
    /\ reply[b][x] # None
    /\ reply' = [reply EXCEPT ![b][x] = None]
    /\ UNCHANGED <<account, cookie, active, audit, now>>

\* Variant: from wherever the session is.
SwitchFromAnywhere(b, w) ==
    LET t == cookie[b]
    IN  /\ Accepted(b)
        /\ SetCookie(b, [t EXCEPT !.acct = w, !.epoch = account[w].epoch,
                                  !.seen = now, !.operator = t.acct, !.acted = TRUE])
        /\ UNCHANGED <<account, reply, audit, now>>

\* Not from an acting session, and only from the agency's own tenant.  The
\* token takes the service user's epoch as it is now.
SwitchTo(b, w) ==
    LET t == cookie[b]
    IN  /\ Accepted(b)
        /\ t.operator = None
        /\ t.acct \in Operators
        /\ SetCookie(b, [t EXCEPT !.acct = w, !.epoch = account[w].epoch,
                                  !.seen = now, !.operator = t.acct, !.acted = TRUE])
        /\ UNCHANGED <<account, reply, audit, now>>

\* Back to the operator's own account, read by the id in the claim.  If that
\* account is not active the browser is sent to the logout route with GET,
\* which answers only POST: the cookie stays.
Exit(b) ==
    LET t == cookie[b]
        o == t.operator
    IN  /\ Accepted(b)
        /\ o # None
        /\ account[o].status = "active"
        /\ SetCookie(b, [t EXCEPT !.acct = o, !.epoch = account[o].epoch,
                                  !.seen = now, !.operator = None])
        /\ UNCHANGED <<account, reply, audit, now>>

Logout(b) ==
    /\ cookie[b] # None
    /\ SetCookie(b, None)
    /\ UNCHANGED <<account, reply, audit, now>>

-----------------------------------------------------------------------------
(* Administrators, directory sync, the clock *)

\* setUserStatusOp leaves the epoch alone.
SetStatus(u, s) ==
    /\ account[u].status # s
    /\ account' = [account EXCEPT ![u].status = s]
    /\ UNCHANGED <<cookie, reply, active, audit, now>>

\* revokeUserSessionsOp.
RevokeSessions(u) ==
    /\ account[u].epoch < MaxEpoch
    /\ account' = [account EXCEPT ![u].epoch = @ + 1]
    /\ UNCHANGED <<cookie, reply, active, audit, now>>

\* scimSetActive(false) does both; scimSetActive(true) is a SetStatus.
ScimDisable(u) ==
    /\ account[u].epoch < MaxEpoch
    /\ account' = [account EXCEPT ![u] = [status |-> "disabled", epoch |-> @.epoch + 1]]
    /\ UNCHANGED <<cookie, reply, active, audit, now>>

Tick ==
    /\ now < MaxTime
    /\ now' = now + 1
    /\ UNCHANGED <<account, cookie, reply, active, audit>>

Next ==
    \/ \E b \in Browsers :
          \/ \E o \in Operators : SignIn(b, o)
          \/ Mutate(b)
          \/ \E x \in Tabs : Refresh(b, x) \/ Land(b, x) \/ LoseReply(b, x)
          \/ \E w \in Workspaces : SwitchTo(b, w)
          \/ Exit(b)
          \/ Logout(b)
    \/ \E u \in Accounts, s \in {"active", "disabled"} : SetStatus(u, s)
    \/ \E u \in Accounts : RevokeSessions(u) \/ ScimDisable(u)
    \/ Tick

Spec == Init /\ [][Next]_vars

-----------------------------------------------------------------------------
(* Properties *)

\* Revoking an operator's sessions is "forcing a fresh login"
\* (settings/operations.ts lines 195-196): a browser whose session has not
\* acted inside a workspace signed in under the epoch of today, not through a
\* chain of refreshes, some of which land late, from before the revocation.
RevokedMustSignIn ==
    \A b \in Browsers :
        Accepted(b) /\ ~cookie[b].acted
            => cookie[b].born = account[cookie[b].person].epoch

\* "a session with no activity for this long is rejected" (session.ts lines
\* 23-25), even though a refresh's answer may land at any time later.
IdleLapses == \A b \in Browsers : Accepted(b) => now - active[b] <= Idle

\* Switching, exiting and refreshing, in any order and however late their
\* cookies land, move a person between workspaces and back to the person's
\* own account, never into a colleague's (exit/route.ts lines 8-10), and an
\* acting session never starts another (switch/route.ts line 22).
PersonStaysPut ==
    \A b \in Browsers :
        cookie[b] # None =>
            LET t == cookie[b]
            IN  /\ t.acct \in Operators => t.acct = t.person
                /\ t.operator # None => t.operator = t.person /\ t.acct \in Workspaces

\* "every action they take is stamped with the agency" (settings/page.tsx
\* lines 328-329; mutation-gate.ts lines 164-165): a service user acts only
\* for an operator, so no audit row of one is without the operator.
AuditNamesOperator == \A r \in audit : r.account \in Workspaces => r.operator # None
=============================================================================
