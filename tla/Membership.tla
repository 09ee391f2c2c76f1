----------------------------- MODULE Membership -----------------------------
(***************************************************************************)
(* Who belongs to a workspace and as what: the member operations of        *)
(* Settings (src/domain/settings/operations.ts), directory sync            *)
(* (src/domain/scim/operations.ts) and the first sign-in                   *)
(* (src/auth/provision.ts), over the users and invitations tables of one   *)
(* tenant.                                                                 *)
(*                                                                         *)
(* Settings operations run in a gate transaction, sign-ins in a withSystem *)
(* transaction, both at READ COMMITTED: each first reads what it decides   *)
(* on and later writes, and other transactions commit in between.  A read  *)
(* is one action here and the write with its commit another.  Directory    *)
(* sync and the guarded UPDATEs are single statements.                     *)
(*                                                                         *)
(* An IdP identity is a person; the subject of a row is "scim" (placeholder*)
(* of a synced account), "idp" (bound to the person) or "erased".          *)
(***************************************************************************)
EXTENDS Naturals, FiniteSets

CONSTANTS
    Users,     \* ids of users rows
    People,    \* persons, one email and one IdP subject each
    Invites,   \* ids of invitations rows
    Roles,     \* workspace roles
    Admins,    \* settings requests in flight
    Logins,    \* sign-ins in flight
    Founders,  \* rows that start as active owners
    Scim,      \* TRUE if directory sync is enabled
    MixedCase, \* TRUE if the IdP's email claims differ in case from the
               \* lower-case emails directory sync stores
    None       \* no row, no person, no invitation

ASSUME NoneAssumption == None \notin Users \cup People \cup Invites
ASSUME FoundersAssumption == Founders \subseteq Users /\ Founders # {}
ASSUME RolesAssumption == {"owner", "member"} \subseteq Roles
ASSUME ScimAssumption == Scim \in BOOLEAN
ASSUME MixedCaseAssumption == MixedCase \in BOOLEAN
ASSUME TxnsAssumption == Admins \cap Logins = {}

VARIABLES
    user,     \* the users table
    invite,   \* the invitations table
    manages,  \* users holding a live token whose role may manage members
    op,       \* what each open transaction has read and is about to write
    crossed   \* history: a role was written while another change of a role
              \* had passed its check and was still to be written

vars == <<user, invite, manages, op, crossed>>

-----------------------------------------------------------------------------
(* Types *)

Row == [person: People \cup {None}, subject: {"scim", "idp", "erased"},
        role: Roles, status: {"active", "disabled"}]

ASSUME NoneRowAssumption == None \notin Row

Invitation == [person: People, role: Roles,
               status: {"pending", "revoked", "accepted"}]

ASSUME NoneInvitationAssumption == None \notin Invitation

Txns == Admins \cup Logins

Kinds == {"idle", "role", "status", "erase", "reinvite", "invite", "bind", "join"}

Op == [kind: Kinds, user: Users \cup {None}, person: People \cup {None},
       invite: Invites \cup {None}, role: Roles, status: {"active", "disabled"}]

Idle == [kind |-> "idle", user |-> None, person |-> None, invite |-> None,
         role |-> "member", status |-> "active"]

TypeOK ==
    /\ user \in [Users -> Row \cup {None}]
    /\ invite \in [Invites -> Invitation \cup {None}]
    /\ manages \in SUBSET Users
    /\ op \in [Txns -> Op]
    /\ crossed \in BOOLEAN

-----------------------------------------------------------------------------
(* Helpers *)

Rows == {u \in Users : user[u] # None}

Owner(u) == u \in Rows /\ user[u].role = "owner"

ActiveOwner(u) == Owner(u) /\ user[u].status = "active"

\* Live accounts with a person's email.
Accounts(p) == {u \in Rows : user[u].person = p}

Pending(p) == {i \in Invites : /\ invite[i] # None
                               /\ invite[i].person = p
                               /\ invite[i].status = "pending"}

\* The session of the user that sends a settings request: an active account
\* and a token minted with a role that holds user:update.
MayManage(u) == u \in Rows /\ user[u].status = "active" /\ u \in manages

\* A settings request reads and decides; what it will write is kept in op.
Read(t, o) ==
    /\ op[t].kind = "idle"
    /\ op' = [op EXCEPT ![t] = o]
    /\ UNCHANGED <<user, invite, manages, crossed>>

Finish(t) == op' = [op EXCEPT ![t] = Idle]

\* A mint of a token: it carries the role of the row it was made from.
Mint(u, role) ==
    manages' = IF role \in {"owner", "admin"} THEN manages \cup {u} ELSE manages

-----------------------------------------------------------------------------

Init ==
    /\ \E who \in [Founders -> People] :
          /\ \A u, v \in Founders : who[u] = who[v] => u = v
          /\ user = [u \in Users |->
                        IF u \in Founders
                        THEN [person |-> who[u], subject |-> "idp",
                              role |-> "owner", status |-> "active"]
                        ELSE None]
    /\ invite = [i \in Invites |-> None]
    /\ manages = Founders
    /\ op = [t \in Txns |-> Idle]
    /\ crossed = FALSE

-----------------------------------------------------------------------------
(* Settings *)

\* Variant: the owners are not counted.
ReadRoleUnguarded(t, u, r) ==
    /\ \E by \in Users : MayManage(by)
    /\ u \in Rows
    /\ Read(t, [Idle EXCEPT !.kind = "role", !.user = u, !.role = r])

\* updateUserRoleOp: the last owner cannot be demoted.  Owners are counted
\* whatever their status.
ReadRole(t, u, r) ==
    /\ \E by \in Users : MayManage(by)
    /\ u \in Rows
    /\ Owner(u) /\ r # "owner" => \E v \in Users \ {u} : Owner(v)
    /\ Read(t, [Idle EXCEPT !.kind = "role", !.user = u, !.role = r])

WriteRole(t) ==
    /\ op[t].kind = "role"
    /\ user' = [user EXCEPT ![op[t].user].role = op[t].role]
    /\ crossed' = (crossed \/ \E s \in Txns \ {t} : op[s].kind = "role")
    /\ Finish(t)
    /\ UNCHANGED <<invite, manages>>

\* setUserStatusOp: not oneself, and not the last active owner.
ReadStatus(t, u, s) ==
    /\ u \in Rows
    /\ \E by \in Users : MayManage(by) /\ (s = "disabled" => by # u)
    /\ s = "disabled" /\ ActiveOwner(u) => \E v \in Users \ {u} : ActiveOwner(v)
    /\ Read(t, [Idle EXCEPT !.kind = "status", !.user = u, !.status = s])

WriteStatus(t) ==
    /\ op[t].kind = "status"
    /\ user' = [user EXCEPT ![op[t].user].status = op[t].status]
    /\ Finish(t)
    /\ UNCHANGED <<invite, manages, crossed>>

\* eraseUserOp: not oneself, and only a deactivated member.  Its key is
\* erase-user:<id>, so the gate runs it to commit once per row.
ReadErase(t, u) ==
    /\ u \in Rows
    /\ user[u].subject # "erased"
    /\ \A s \in Admins : op[s].kind = "erase" => op[s].user # u
    /\ \E by \in Users \ {u} : MayManage(by)
    /\ user[u].status = "disabled"
    /\ Read(t, [Idle EXCEPT !.kind = "erase", !.user = u])

\* The row loses its email and its subject, and its tokens die.
WriteErase(t) ==
    LET u == op[t].user
    IN  /\ op[t].kind = "erase"
        /\ user' = [user EXCEPT ![u].person = None, ![u].subject = "erased"]
        /\ manages' = manages \ {u}
        /\ Finish(t)
        /\ UNCHANGED <<invite, crossed>>

\* inviteUserOp: refuses an active member's email; a pending invitation gets
\* the new role, otherwise there is a new one.
ReadInvite(t, p, r) ==
    /\ \E by \in Users : MayManage(by)
    /\ \A u \in Accounts(p) : user[u].status # "active"
    /\ \/ \E i \in Pending(p) :
             Read(t, [Idle EXCEPT !.kind = "reinvite", !.invite = i, !.role = r])
       \/ /\ Pending(p) = {}
          /\ Read(t, [Idle EXCEPT !.kind = "invite", !.person = p, !.role = r])

WriteReinvite(t) ==
    /\ op[t].kind = "reinvite"
    /\ invite' = [invite EXCEPT ![op[t].invite].role = op[t].role]
    /\ Finish(t)
    /\ UNCHANGED <<user, manages, crossed>>

\* The partial unique index allows one pending invitation per email.
WriteInvite(t) ==
    /\ op[t].kind = "invite"
    /\ Pending(op[t].person) = {}
    /\ \E i \in Invites :
          /\ invite[i] = None
          /\ invite' = [invite EXCEPT ![i] =
                [person |-> op[t].person, role |-> op[t].role,
                 status |-> "pending"]]
    /\ Finish(t)
    /\ UNCHANGED <<user, manages, crossed>>

\* Variant: a status of its own.
CancelInvite(i) ==
    /\ invite[i] # None
    /\ invite' = [invite EXCEPT ![i].status = "cancelled"]
    /\ UNCHANGED <<user, manages, op, crossed>>

\* revokeInvitationOp: one UPDATE guarded by status = 'pending'.
RevokeInvite(i) ==
    /\ \E by \in Users : MayManage(by)
    /\ invite[i] # None
    /\ invite[i].status = "pending"
    /\ invite' = [invite EXCEPT ![i].status = "revoked"]
    /\ UNCHANGED <<user, manages, op, crossed>>

\* revokeUserSessionsOp: the epoch moves, every token of the row is dead.
RevokeSessions(u) ==
    /\ \E by \in Users : MayManage(by)
    /\ u \in Rows
    /\ manages' = manages \ {u}
    /\ UNCHANGED <<user, invite, op, crossed>>

-----------------------------------------------------------------------------
(* Directory sync *)

\* scimCreateUser returns an existing account as it is and otherwise inserts
\* one.  Whatever commits between its look-up and its INSERT, the unique index
\* on the email refuses a second account, so the two count as one statement;
\* an account whose email has another case it does not refuse.
ScimCreate(u, p, s) ==
    /\ Scim
    /\ u \notin Rows
    /\ {v \in Accounts(p) : MixedCase => user[v].subject = "scim"} = {}
    /\ user' = [user EXCEPT ![u] = [person |-> p, subject |-> "scim",
                                    role |-> "member", status |-> s]]
    /\ UNCHANGED <<invite, manages, op, crossed>>

\* scimSetActive: no guard on roles; disabling also moves the epoch.
ScimSetActive(u, s) ==
    /\ Scim
    /\ u \in Rows
    /\ user' = [user EXCEPT ![u].status = s]
    /\ manages' = IF s = "disabled" THEN manages \ {u} ELSE manages
    /\ UNCHANGED <<invite, op, crossed>>

-----------------------------------------------------------------------------
(* Sign-in *)

Bound(p) == {u \in Accounts(p) : user[u].subject = "idp"}

Synced(p) == {u \in Accounts(p) : user[u].subject = "scim"}

\* A returning user: nothing is written, a token is minted.
SignIn(p) ==
    \E u \in Bound(p) :
        /\ user[u].status = "active"
        /\ Mint(u, user[u].role)
        /\ UNCHANGED <<user, invite, op, crossed>>

\* A synced account that never signed in will be bound to the subject.
ReadSynced(t, p) ==
    /\ Bound(p) = {}
    /\ \E u \in Synced(p) :
          /\ user[u].status = "active"
          /\ Read(t, [Idle EXCEPT !.kind = "bind", !.user = u, !.person = p])

\* UPDATE ... WHERE id, RETURNING the row the token is made from.  A subject
\* is unique in its tenant.
WriteBind(t) ==
    LET u == op[t].user
    IN  /\ op[t].kind = "bind"
        /\ Bound(op[t].person) \subseteq {u}
        /\ user' = [user EXCEPT ![u].subject = "idp"]
        /\ Mint(u, user[u].role)
        /\ Finish(t)
        /\ UNCHANGED <<invite, crossed>>

\* Otherwise a pending invitation for the email is consumed.
ReadPending(t, p) ==
    /\ Bound(p) = {} /\ Synced(p) = {}
    /\ \E i \in Pending(p) :
          Read(t, [Idle EXCEPT !.kind = "join", !.invite = i, !.person = p,
                               !.role = invite[i].role])

\* Variant: no unique indexes.
JoinWithoutIndex(t) ==
    /\ op[t].kind = "join"
    /\ \E u \in Users \ Rows :
          /\ user' = [user EXCEPT ![u] =
                [person |-> op[t].person, subject |-> "idp",
                 role |-> op[t].role, status |-> "active"]]
          /\ Mint(u, op[t].role)
    /\ invite' = [invite EXCEPT ![op[t].invite].status = "accepted"]
    /\ Finish(t)
    /\ UNCHANGED crossed

\* INSERT of the row, refused by the unique indexes if the person's subject
\* or email is there by now, and UPDATE of the invitation by id.  The email's
\* index tells cases apart.
WriteJoin(t) ==
    LET i == op[t].invite
        p == op[t].person
    IN  /\ op[t].kind = "join"
        /\ Bound(p) = {}
        /\ ~MixedCase => Accounts(p) = {}
        /\ \E u \in Users \ Rows :
              /\ user' = [user EXCEPT ![u] =
                    [person |-> p, subject |-> "idp",
                     role |-> op[t].role, status |-> "active"]]
              /\ Mint(u, op[t].role)
        /\ invite' = [invite EXCEPT ![i].status = "accepted"]
        /\ Finish(t)
        /\ UNCHANGED crossed

\* A transaction fails or its process dies before it commits.
Abort(t) ==
    /\ op[t].kind # "idle"
    /\ Finish(t)
    /\ UNCHANGED <<user, invite, manages, crossed>>

-----------------------------------------------------------------------------

Settings(t) ==
    \/ \E u \in Users, r \in Roles : ReadRole(t, u, r)
    \/ \E u \in Users, s \in {"active", "disabled"} : ReadStatus(t, u, s)
    \/ \E u \in Users : ReadErase(t, u)
    \/ \E p \in People, r \in Roles : ReadInvite(t, p, r)
    \/ WriteRole(t) \/ WriteStatus(t) \/ WriteErase(t)
    \/ WriteReinvite(t) \/ WriteInvite(t)

Login(t) ==
    \/ \E p \in People : ReadSynced(t, p) \/ ReadPending(t, p)
    \/ WriteBind(t) \/ WriteJoin(t)

Next ==
    \/ \E t \in Admins : Settings(t)
    \/ \E t \in Logins : Login(t)
    \/ \E t \in Txns : Abort(t)
    \/ \E i \in Invites : RevokeInvite(i)
    \/ \E u \in Users : RevokeSessions(u)
    \/ \E p \in People : SignIn(p)
    \/ \E u \in Users, p \in People, s \in {"active", "disabled"} : ScimCreate(u, p, s)
    \/ \E u \in Users, s \in {"active", "disabled"} : ScimSetActive(u, s)

Spec == Init /\ [][Next]_vars

-----------------------------------------------------------------------------
(* Properties *)

\* "A tenant must always retain at least one owner" (lines 48-49).  The count
\* of the owners (line 62) locks nothing and is not repeated by the write.
RetainsOwner == \E u \in Users : Owner(u)

\* The owners outlast everything but role changes that cross: while no role
\* was written between the check and the write of another role change, no
\* demotion, disabling, erasure, sync or sign-in takes the last one.
RetainsOwnerUncrossed == crossed \/ RetainsOwner

\* "a tenant must keep at least one active owner" (lines 80-81).
RetainsActiveOwner == \E u \in Users : ActiveOwner(u)

\* A person has at most one live account, whatever sync, sign-ins and
\* invitations race to create it (unique indexes, schema.ts lines 104-105),
\* provided email claims have the case that directory sync stores.
OneAccountPerPerson ==
    \A u, v \in Rows :
        user[u].person = user[v].person /\ user[u].person # None => u = v
=============================================================================
