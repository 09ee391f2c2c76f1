-------------------------- MODULE MembershipProofs --------------------------
(***************************************************************************)
(* Proofs about workspace membership, for every value of the constants of  *)
(* Membership.tla.                                                         *)
(*                                                                         *)
(* MembershipInv adds to the types that what an open transaction is about  *)
(* to write still has its row: rows and invitations are never deleted.     *)
(* OwnerInv adds that, while role changes have not crossed, a demotion     *)
(* that has passed its guard leaves another owner.  The results about      *)
(* sessions, the other part of MCAccounts, are those of SessionsProofs.    *)
(***************************************************************************)
EXTENDS MCAccounts, TLAPS

\* TypeOK but for the history variable.
TablesTyped ==
    /\ user \in [Users -> Row \cup {None}]
    /\ invite \in [Invites -> Invitation \cup {None}]
    /\ manages \in SUBSET Users
    /\ op \in [Txns -> Op]

\* What a transaction has read is still there when it writes.
OpsHold ==
    \A t \in Txns :
        /\ op[t].kind \in {"role", "status", "erase", "bind"} =>
              op[t].user \in Users /\ user[op[t].user] # None
        /\ op[t].kind \in {"reinvite", "join"} =>
              op[t].invite \in Invites /\ invite[op[t].invite] # None
        /\ op[t].kind \in {"invite", "bind", "join"} => op[t].person \in People

\* The email index keeps accounts apart only while it sees equal emails.
OneAccountIndexed == ~MixedCase => OneAccountPerPerson

MembershipInv == TablesTyped /\ OpsHold /\ OneAccountIndexed

\* A demotion on its way to the table leaves another owner behind.
DemotionsHold ==
    \A t \in Txns :
        op[t].kind = "role" /\ op[t].role # "owner"
            => \E v \in Users \ {op[t].user} : Owner(v)

\* Sign-ins open no transaction that writes a role.
LoginsHold == \A t \in Logins : op[t].kind \in {"idle", "bind", "join"}

OwnerInv == LoginsHold /\ (~crossed => RetainsOwner /\ DemotionsHold)

-----------------------------------------------------------------------------
(* Rows, transactions, types *)

\* The rows of a typed table are records.
LEMMA RowsAreRows ==
    ASSUME TablesTyped, NEW u \in Users, user[u] # None
    PROVE  user[u] \in Row
  BY DEF TablesTyped

\* A row that is a record is not the absent row.
LEMMA RecordIsNotNone ==
    ASSUME NEW r \in Row
    PROVE  r # None
  BY NoneRowAssumption

-----------------------------------------------------------------------------
(* MembershipInv *)

\* Nothing is open at the start and every founder has a person of their own.
LEMMA InitMembershipInv == Init => MembershipInv
  <1> SUFFICES ASSUME Init PROVE MembershipInv
    OBVIOUS
  <1> PICK who \in [Founders -> People] :
          /\ \A u, v \in Founders : who[u] = who[v] => u = v
          /\ user = [u \in Users |->
                        IF u \in Founders
                        THEN [person |-> who[u], subject |-> "idp",
                              role |-> "owner", status |-> "active"]
                        ELSE None]
    BY DEF Init
  <1>1. TablesTyped
    BY FoundersAssumption, RolesAssumption DEF Init, TablesTyped, Row, Op, Idle, Kinds
  <1>2. OpsHold
    BY DEF Init, OpsHold, Idle
  <1>3. OneAccountIndexed
    BY FoundersAssumption DEF OneAccountIndexed, OneAccountPerPerson, Rows
  <1> QED
    BY <1>1, <1>2, <1>3 DEF MembershipInv

\* A transaction that only reads and keeps what it will write.
LEMMA ReadStep ==
    ASSUME MembershipInv, NEW t \in Txns, NEW o \in Op, Read(t, o),
           o.kind \in {"role", "status", "erase", "bind"} =>
              o.user \in Users /\ user[o.user] # None,
           o.kind \in {"reinvite", "join"} =>
              o.invite \in Invites /\ invite[o.invite] # None,
           o.kind \in {"invite", "bind", "join"} => o.person \in People
    PROVE  MembershipInv'
  <1>1. TablesTyped'
    BY DEF MembershipInv, TablesTyped, Read
  <1>2. OpsHold'
    BY DEF MembershipInv, TablesTyped, OpsHold, Read
  <1>3. OneAccountIndexed'
    BY DEF MembershipInv, OneAccountIndexed, OneAccountPerPerson, Read, Rows
  <1> QED
    BY <1>1, <1>2, <1>3 DEF MembershipInv

\* A transaction that ends, whatever it did to the tables.
LEMMA FinishStep ==
    ASSUME MembershipInv, NEW t \in Txns, Finish(t),
           \A u \in Users : user[u] # None => user'[u] # None,
           \A i \in Invites : invite[i] # None => invite'[i] # None
    PROVE  OpsHold' /\ op' \in [Txns -> Op]
  BY RolesAssumption DEF MembershipInv, TablesTyped, OpsHold, Finish, Op, Idle, Kinds

\* A write to a row that keeps its person or takes it away.
LEMMA RowStep ==
    ASSUME MembershipInv, NEW u \in Users, user[u] # None, NEW r \in Row,
           r.person \in {user[u].person, None},
           user' = [user EXCEPT ![u] = r]
    PROVE  /\ user' \in [Users -> Row \cup {None}]
           /\ \A v \in Users : user[v] # None => user'[v] # None
           /\ OneAccountIndexed'
  <1>1. user' \in [Users -> Row \cup {None}]
    BY DEF MembershipInv, TablesTyped
  <1>2. \A v \in Users : user[v] # None => user'[v] # None
    BY RecordIsNotNone DEF MembershipInv, TablesTyped
  <1>3. OneAccountIndexed'
    BY DEF MembershipInv, TablesTyped, OneAccountIndexed, OneAccountPerPerson, Rows
  <1> QED
    BY <1>1, <1>2, <1>3

\* A new row for a person who has none.
LEMMA NewRowStep ==
    ASSUME MembershipInv, NEW u \in Users \ Rows, NEW r \in Row,
           r.person \in People, ~MixedCase => Accounts(r.person) = {},
           user' = [user EXCEPT ![u] = r]
    PROVE  /\ user' \in [Users -> Row \cup {None}]
           /\ \A v \in Users : user[v] # None => user'[v] # None
           /\ OneAccountIndexed'
  <1>1. user' \in [Users -> Row \cup {None}]
    BY DEF MembershipInv, TablesTyped
  <1>2. \A v \in Users : user[v] # None => user'[v] # None
    BY RecordIsNotNone DEF MembershipInv, TablesTyped
  <1>3. ~MixedCase => \A v \in Rows : user[v].person # r.person
    BY DEF Accounts
  <1>4. OneAccountIndexed'
    BY <1>3 DEF MembershipInv, TablesTyped, OneAccountIndexed, OneAccountPerPerson, Rows
  <1> QED
    BY <1>1, <1>2, <1>4

\* A settings request decides: it changes nothing but what it will write.
LEMMA SettingsReads ==
    ASSUME MembershipInv, NEW t \in Admins,
           \/ \E u \in Users, r \in Roles : ReadRole(t, u, r)
           \/ \E u \in Users, s \in {"active", "disabled"} : ReadStatus(t, u, s)
           \/ \E u \in Users : ReadErase(t, u)
           \/ \E p \in People, r \in Roles : ReadInvite(t, p, r)
    PROVE  MembershipInv'
  <1> t \in Txns
    BY DEF Txns
  <1>1. ASSUME NEW u \in Users, NEW r \in Roles, ReadRole(t, u, r)
        PROVE  MembershipInv'
    <2> DEFINE o == [Idle EXCEPT !.kind = "role", !.user = u, !.role = r]
    <2>1. o \in Op /\ o.kind = "role" /\ o.user = u
      BY RolesAssumption DEF Op, Idle, Kinds
    <2>2. Read(t, o) /\ user[u] # None
      BY <1>1 DEF ReadRole, Rows
    <2> HIDE DEF o
    <2> QED
      BY <2>1, <2>2, ReadStep
  <1>2. ASSUME NEW u \in Users, NEW s \in {"active", "disabled"}, ReadStatus(t, u, s)
        PROVE  MembershipInv'
    <2> DEFINE o == [Idle EXCEPT !.kind = "status", !.user = u, !.status = s]
    <2>1. o \in Op /\ o.kind = "status" /\ o.user = u
      BY RolesAssumption DEF Op, Idle, Kinds
    <2>2. Read(t, o) /\ user[u] # None
      BY <1>2 DEF ReadStatus, Rows
    <2> HIDE DEF o
    <2> QED
      BY <2>1, <2>2, ReadStep
  <1>3. ASSUME NEW u \in Users, ReadErase(t, u)
        PROVE  MembershipInv'
    <2> DEFINE o == [Idle EXCEPT !.kind = "erase", !.user = u]
    <2>1. o \in Op /\ o.kind = "erase" /\ o.user = u
      BY RolesAssumption DEF Op, Idle, Kinds
    <2>2. Read(t, o) /\ user[u] # None
      BY <1>3 DEF ReadErase, Rows
    <2> HIDE DEF o
    <2> QED
      BY <2>1, <2>2, ReadStep
  <1>4. ASSUME NEW p \in People, NEW r \in Roles, ReadInvite(t, p, r)
        PROVE  MembershipInv'
    <2>1. CASE \E i \in Pending(p) :
                  Read(t, [Idle EXCEPT !.kind = "reinvite", !.invite = i, !.role = r])
      <3> PICK i \in Pending(p) :
              Read(t, [Idle EXCEPT !.kind = "reinvite", !.invite = i, !.role = r])
        BY <2>1
      <3> DEFINE o == [Idle EXCEPT !.kind = "reinvite", !.invite = i, !.role = r]
      <3>1. i \in Invites /\ invite[i] # None
        BY DEF Pending
      <3>2. o \in Op /\ o.kind = "reinvite" /\ o.invite = i
        BY <3>1, RolesAssumption DEF Op, Idle, Kinds
      <3>3. Read(t, o)
        OBVIOUS
      <3> HIDE DEF o
      <3> QED
        BY <3>1, <3>2, <3>3, ReadStep
    <2>2. CASE Read(t, [Idle EXCEPT !.kind = "invite", !.person = p, !.role = r])
      <3> DEFINE o == [Idle EXCEPT !.kind = "invite", !.person = p, !.role = r]
      <3>1. o \in Op /\ o.kind = "invite" /\ o.person = p
        BY RolesAssumption DEF Op, Idle, Kinds
      <3>2. Read(t, o)
        BY <2>2
      <3> HIDE DEF o
      <3> QED
        BY <3>1, <3>2, ReadStep
    <2> QED
      BY <1>4, <2>1, <2>2 DEF ReadInvite
  <1> QED
    BY <1>1, <1>2, <1>3, <1>4

\* A sign-in finds the account or the invitation it will consume.
LEMMA LoginReads ==
    ASSUME MembershipInv, NEW t \in Logins, NEW p \in People,
           ReadSynced(t, p) \/ ReadPending(t, p)
    PROVE  MembershipInv'
  <1> t \in Txns
    BY DEF Txns
  <1>1. CASE ReadSynced(t, p)
    <2> PICK u \in Synced(p) :
            Read(t, [Idle EXCEPT !.kind = "bind", !.user = u, !.person = p])
      BY <1>1 DEF ReadSynced
    <2> DEFINE o == [Idle EXCEPT !.kind = "bind", !.user = u, !.person = p]
    <2>1. u \in Users /\ user[u] # None
      BY DEF Synced, Accounts, Rows
    <2>2. o \in Op /\ o.kind = "bind" /\ o.user = u /\ o.person = p
      BY <2>1, RolesAssumption DEF Op, Idle, Kinds
    <2>3. Read(t, o)
      OBVIOUS
    <2> HIDE DEF o
    <2> QED
      BY <2>1, <2>2, <2>3, ReadStep
  <1>2. CASE ReadPending(t, p)
    <2> PICK i \in Pending(p) :
            Read(t, [Idle EXCEPT !.kind = "join", !.invite = i, !.person = p,
                                 !.role = invite[i].role])
      BY <1>2 DEF ReadPending
    <2> DEFINE o == [Idle EXCEPT !.kind = "join", !.invite = i, !.person = p,
                                 !.role = invite[i].role]
    <2>1. i \in Invites /\ invite[i] # None
      BY DEF Pending
    <2>2. invite[i].role \in Roles
      BY <2>1 DEF MembershipInv, TablesTyped, Invitation
    <2>3. o \in Op /\ o.kind = "join" /\ o.invite = i /\ o.person = p
      BY <2>1, <2>2 DEF Op, Idle, Kinds
    <2>4. Read(t, o)
      OBVIOUS
    <2> HIDE DEF o
    <2> QED
      BY <2>1, <2>3, <2>4, ReadStep
  <1> QED
    BY <1>1, <1>2

\* The parts of MembershipInv, reassembled for a transaction that writes.
LEMMA WriteStep ==
    ASSUME MembershipInv, NEW t \in Txns, Finish(t),
           user' \in [Users -> Row \cup {None}],
           \A u \in Users : user[u] # None => user'[u] # None,
           invite' \in [Invites -> Invitation \cup {None}],
           \A i \in Invites : invite[i] # None => invite'[i] # None,
           manages' \in SUBSET Users,
           OneAccountIndexed'
    PROVE  MembershipInv'
  <1>1. OpsHold' /\ op' \in [Txns -> Op]
    BY FinishStep
  <1> QED
    BY <1>1 DEF MembershipInv, TablesTyped

\* Writes to one existing row: a role, a status, an erasure, a subject.
LEMMA RowWrites ==
    ASSUME MembershipInv, NEW t \in Txns,
           WriteRole(t) \/ WriteStatus(t) \/ WriteErase(t) \/ WriteBind(t)
    PROVE  MembershipInv'
  <1> DEFINE u == op[t].user
             old == user[u]
  <1>1. /\ u \in Users
        /\ old \in Row
        /\ old # None
        /\ op[t] \in Op
    BY RowsAreRows
    DEF MembershipInv, TablesTyped, OpsHold, WriteRole, WriteStatus, WriteErase, WriteBind
  <1>2. /\ invite' = invite
        /\ manages' \in SUBSET Users
        /\ Finish(t)
    BY <1>1 DEF MembershipInv, TablesTyped, WriteRole, WriteStatus, WriteErase, WriteBind, Mint
  <1>3. \E r \in Row : /\ r.person \in {old.person, None}
                       /\ user' = [user EXCEPT ![u] = r]
    <2>1. CASE WriteRole(t)
      <3> DEFINE r == [old EXCEPT !.role = op[t].role]
      <3>1. r \in Row /\ r.person = old.person
        BY <1>1 DEF Row, Op
      <3>2. user' = [user EXCEPT ![u] = r]
        BY <2>1, <1>1 DEF WriteRole, MembershipInv, TablesTyped
      <3> QED
        BY <3>1, <3>2
    <2>2. CASE WriteStatus(t)
      <3> DEFINE r == [old EXCEPT !.status = op[t].status]
      <3>1. r \in Row /\ r.person = old.person
        BY <1>1 DEF Row, Op
      <3>2. user' = [user EXCEPT ![u] = r]
        BY <2>2, <1>1 DEF WriteStatus, MembershipInv, TablesTyped
      <3> QED
        BY <3>1, <3>2
    <2>3. CASE WriteErase(t)
      <3> DEFINE r == [old EXCEPT !.person = None, !.subject = "erased"]
      <3>1. r \in Row /\ r.person = None
        BY <1>1 DEF Row
      <3>2. user' = [user EXCEPT ![u] = r]
        BY <2>3, <1>1 DEF WriteErase, MembershipInv, TablesTyped
      <3> QED
        BY <3>1, <3>2
    <2>4. CASE WriteBind(t)
      <3> DEFINE r == [old EXCEPT !.subject = "idp"]
      <3>1. r \in Row /\ r.person = old.person
        BY <1>1 DEF Row
      <3>2. user' = [user EXCEPT ![u] = r]
        BY <2>4, <1>1 DEF WriteBind, MembershipInv, TablesTyped
      <3> QED
        BY <3>1, <3>2
    <2> QED
      BY <2>1, <2>2, <2>3, <2>4
  <1> HIDE DEF u, old
  <1>4. PICK r \in Row : /\ r.person \in {old.person, None}
                         /\ user' = [user EXCEPT ![u] = r]
    BY <1>3
  <1>5. /\ user' \in [Users -> Row \cup {None}]
        /\ \A v \in Users : user[v] # None => user'[v] # None
        /\ OneAccountIndexed'
    BY <1>1, <1>4, RowStep DEF old
  <1> QED
    BY <1>2, <1>5, WriteStep DEF MembershipInv, TablesTyped

\* Writes to the invitations table alone.
LEMMA InvitationWrites ==
    ASSUME MembershipInv, NEW t \in Txns, WriteReinvite(t) \/ WriteInvite(t)
    PROVE  MembershipInv'
  <1>1. /\ user' = user
        /\ manages' = manages
        /\ Finish(t)
        /\ op[t] \in Op
    BY DEF WriteReinvite, WriteInvite, MembershipInv, TablesTyped
  <1>2. /\ invite' \in [Invites -> Invitation \cup {None}]
        /\ \A i \in Invites : invite[i] # None => invite'[i] # None
    <2>2. CASE WriteReinvite(t)
      <3>1. op[t].invite \in Invites /\ invite[op[t].invite] # None
        BY <2>2 DEF WriteReinvite, MembershipInv, OpsHold
      <3>2. invite[op[t].invite] \in Invitation
        BY <3>1 DEF MembershipInv, TablesTyped
      <3> QED
        BY <2>2, <1>1, <3>1, <3>2, NoneInvitationAssumption
        DEF WriteReinvite, MembershipInv, TablesTyped, Invitation, Op
    <2>3. CASE WriteInvite(t)
      <3>1. op[t].person \in People
        BY <2>3 DEF WriteInvite, MembershipInv, OpsHold
      <3> QED
        BY <2>3, <1>1, <3>1, NoneInvitationAssumption
        DEF WriteInvite, MembershipInv, TablesTyped, Invitation, Op
    <2> QED
      BY <2>2, <2>3
  <1>3. OneAccountIndexed'
    BY <1>1 DEF MembershipInv, OneAccountIndexed, OneAccountPerPerson, Rows
  <1> QED
    BY <1>1, <1>2, <1>3, WriteStep DEF MembershipInv, TablesTyped

\* A sign-in consumes an invitation: the unique indexes keep out a second
\* account for the person.
LEMMA JoinStep ==
    ASSUME MembershipInv, NEW t \in Txns, WriteJoin(t)
    PROVE  MembershipInv'
  <1> DEFINE i == op[t].invite
             p == op[t].person
  <1>1. /\ i \in Invites
        /\ invite[i] \in Invitation
        /\ p \in People
        /\ op[t].role \in Roles
        /\ ~MixedCase => Accounts(p) = {}
        /\ Finish(t)
    BY DEF WriteJoin, MembershipInv, TablesTyped, OpsHold, Op
  <1>2. PICK u \in Users \ Rows :
            /\ user' = [user EXCEPT ![u] =
                  [person |-> p, subject |-> "idp",
                   role |-> op[t].role, status |-> "active"]]
            /\ Mint(u, op[t].role)
    BY DEF WriteJoin
  <1> DEFINE r == [person |-> p, subject |-> "idp",
                   role |-> op[t].role, status |-> "active"]
  <1>3. r \in Row /\ r.person = p
    BY <1>1 DEF Row
  <1>4. /\ user' \in [Users -> Row \cup {None}]
        /\ \A v \in Users : user[v] # None => user'[v] # None
        /\ OneAccountIndexed'
    <2> user' = [user EXCEPT ![u] = r]
      BY <1>2
    <2> HIDE DEF r, p
    <2> QED
      BY <1>1, <1>3, NewRowStep
  <1>5. manages' \in SUBSET Users
    BY <1>2 DEF Mint, MembershipInv, TablesTyped
  <1>6. /\ invite' \in [Invites -> Invitation \cup {None}]
        /\ \A j \in Invites : invite[j] # None => invite'[j] # None
    BY <1>1, NoneInvitationAssumption DEF WriteJoin, MembershipInv, TablesTyped, Invitation
  <1> QED
    BY <1>1, <1>4, <1>5, <1>6, WriteStep

\* Single statements, the returning user and the aborts leave op as it is or
\* end a transaction that wrote nothing.
LEMMA StatementSteps ==
    ASSUME MembershipInv,
           \/ \E i \in Invites : RevokeInvite(i)
           \/ \E u \in Users : RevokeSessions(u)
           \/ \E p \in People : SignIn(p)
           \/ \E t \in Txns : Abort(t)
    PROVE  MembershipInv'
  <1>1. ASSUME NEW i \in Invites, RevokeInvite(i) PROVE MembershipInv'
    <2>1. /\ invite' \in [Invites -> Invitation \cup {None}]
          /\ \A j \in Invites : invite[j] # None => invite'[j] # None
      BY <1>1, NoneInvitationAssumption
      DEF RevokeInvite, MembershipInv, TablesTyped, Invitation
    <2>2. user' = user /\ op' = op /\ manages' = manages
      BY <1>1 DEF RevokeInvite
    <2> QED
      BY <2>1, <2>2 DEF MembershipInv, TablesTyped, OpsHold, OneAccountIndexed, OneAccountPerPerson, Rows
  <1>2. ASSUME NEW u \in Users, RevokeSessions(u) PROVE MembershipInv'
    BY <1>2 DEF RevokeSessions, MembershipInv, TablesTyped, OpsHold, OneAccountIndexed, OneAccountPerPerson, Rows
  <1>3. ASSUME NEW p \in People, SignIn(p) PROVE MembershipInv'
    <2>1. user' = user /\ op' = op /\ invite' = invite /\ manages' \in SUBSET Users
      BY <1>3 DEF SignIn, Mint, Bound, Accounts, Rows, MembershipInv, TablesTyped
    <2> QED
      BY <2>1 DEF MembershipInv, TablesTyped, OpsHold, OneAccountIndexed, OneAccountPerPerson, Rows
  <1>4. ASSUME NEW t \in Txns, Abort(t) PROVE MembershipInv'
    <2>1. Finish(t) /\ user' = user /\ invite' = invite /\ manages' = manages
      BY <1>4 DEF Abort
    <2> QED
      BY <2>1, FinishStep DEF MembershipInv, TablesTyped, OneAccountIndexed, OneAccountPerPerson, Rows
  <1> QED
    BY <1>1, <1>2, <1>3, <1>4

\* Directory sync creates accounts only for new emails and never deletes one.
LEMMA ScimSteps ==
    ASSUME MembershipInv, NEW u \in Users, NEW s \in {"active", "disabled"},
           (\E p \in People : ScimCreate(u, p, s)) \/ ScimSetActive(u, s)
    PROVE  MembershipInv'
  <1>1. ASSUME NEW p \in People, ScimCreate(u, p, s) PROVE MembershipInv'
    <2> DEFINE r == [person |-> p, subject |-> "scim", role |-> "member", status |-> s]
    <2>1. r \in Row /\ r.person = p
      BY RolesAssumption DEF Row
    <2>2. /\ u \in Users \ Rows
          /\ ~MixedCase => Accounts(p) = {}
          /\ user' = [user EXCEPT ![u] = r]
          /\ invite' = invite /\ manages' = manages /\ op' = op
      BY <1>1 DEF ScimCreate
    <2> HIDE DEF r
    <2>3. /\ user' \in [Users -> Row \cup {None}]
          /\ \A v \in Users : user[v] # None => user'[v] # None
          /\ OneAccountIndexed'
      BY <2>1, <2>2, NewRowStep
    <2> QED
      BY <2>2, <2>3 DEF MembershipInv, TablesTyped, OpsHold
  <1>2. CASE ScimSetActive(u, s)
    <2> DEFINE r == [user[u] EXCEPT !.status = s]
    <2>1. user[u] # None /\ user[u] \in Row
      BY <1>2, RowsAreRows DEF ScimSetActive, Rows, MembershipInv
    <2>2. r \in Row /\ r.person = user[u].person
      BY <2>1 DEF Row
    <2>3. /\ user' = [user EXCEPT ![u] = r]
          /\ invite' = invite /\ manages' \in SUBSET Users /\ op' = op
      BY <1>2 DEF ScimSetActive, MembershipInv, TablesTyped
    <2> HIDE DEF r
    <2>4. /\ user' \in [Users -> Row \cup {None}]
          /\ \A v \in Users : user[v] # None => user'[v] # None
          /\ OneAccountIndexed'
      BY <2>1, <2>2, <2>3, RowStep
    <2> QED
      BY <2>3, <2>4 DEF MembershipInv, TablesTyped, OpsHold
  <1> QED
    BY <1>1, <1>2

\* Every step keeps MembershipInv.
LEMMA NextMembershipInv == MembershipInv /\ [Next]_vars => MembershipInv'
  <1> SUFFICES ASSUME MembershipInv, [Next]_vars PROVE MembershipInv'
    OBVIOUS
  <1>1. ASSUME NEW t \in Admins, Settings(t) PROVE MembershipInv'
    <2> t \in Txns
      BY DEF Txns
    <2> QED
      BY <1>1, SettingsReads, RowWrites, InvitationWrites DEF Settings
  <1>2. ASSUME NEW t \in Logins, Login(t) PROVE MembershipInv'
    <2> t \in Txns
      BY DEF Txns
    <2> QED
      BY <1>2, LoginReads, RowWrites, JoinStep DEF Login
  <1>3. CASE UNCHANGED vars
    BY <1>3 DEF vars, MembershipInv, TablesTyped, OpsHold, OneAccountIndexed, OneAccountPerPerson, Rows
  <1> QED
    BY <1>1, <1>2, <1>3, StatementSteps, ScimSteps DEF Next

\* The inductive invariant, for any number of requests, sign-ins and syncs.
LEMMA MembershipInvariant == Spec => []MembershipInv
  <1> QED
    BY InitMembershipInv, NextMembershipInv, PTL DEF Spec

\* The history variable is a Boolean.
HistoryTyped == crossed \in BOOLEAN

LEMMA CrossedTyped == Spec => []HistoryTyped
  <1>1. Init => HistoryTyped
    BY DEF Init, HistoryTyped
  <1>2. HistoryTyped /\ [Next]_vars => HistoryTyped'
    BY DEF HistoryTyped, Next, Settings, Login, Read, ReadRole, ReadStatus, ReadErase, ReadInvite, ReadSynced,
           ReadPending, WriteRole, WriteStatus, WriteErase, WriteReinvite, WriteInvite,
           WriteBind, WriteJoin, Abort, RevokeInvite, RevokeSessions, SignIn, ScimCreate,
           ScimSetActive, vars
  <1> QED
    BY <1>1, <1>2, PTL DEF Spec

-----------------------------------------------------------------------------
(* OwnerInv *)

\* A row never leaves the owners by a step that keeps roles.
LEMMA OwnersStay ==
    ASSUME OwnerInv, op' = op, crossed' = crossed,
           \A u \in Users : Owner(u) => user'[u] # None /\ user'[u].role = user[u].role
    PROVE  OwnerInv'
  <1>1. \A u \in Users : Owner(u) => Owner(u)'
    BY DEF Owner, Rows
  <1> QED
    BY <1>1 DEF OwnerInv, RetainsOwner, DemotionsHold, LoginsHold

\* Nor by a transaction that ends.
LEMMA OwnersStayOnFinish ==
    ASSUME MembershipInv, OwnerInv, NEW t \in Txns, Finish(t), crossed' = crossed,
           \A u \in Users : Owner(u) => user'[u] # None /\ user'[u].role = user[u].role
    PROVE  OwnerInv'
  <1>1. \A u \in Users : Owner(u) => Owner(u)'
    BY DEF Owner, Rows
  <1>2. \A s \in Txns : op'[s] = op[s] \/ op'[s] = Idle
    BY DEF Finish, MembershipInv, TablesTyped
  <1>3. Idle.kind = "idle"
    BY DEF Idle
  <1>4. \A s \in Txns : op'[s].kind = "role" => op'[s] = op[s]
    BY <1>2, <1>3
  <1>5. ~crossed => DemotionsHold'
    BY <1>1, <1>4 DEF OwnerInv, DemotionsHold
  <1>6. LoginsHold'
    BY <1>2, <1>3 DEF OwnerInv, LoginsHold, Txns
  <1> QED
    BY <1>1, <1>5, <1>6 DEF OwnerInv, RetainsOwner

\* The guard of updateUserRoleOp establishes what DemotionsHold asks.
LEMMA OwnerReads ==
    ASSUME MembershipInv, OwnerInv, NEW t \in Admins, NEW o \in Op, Read(t, o),
           ~crossed /\ o.kind = "role" /\ o.role # "owner"
               => \E v \in Users \ {o.user} : Owner(v)
    PROVE  OwnerInv'
  <1>1. crossed' = crossed /\ \A u \in Users : Owner(u)' <=> Owner(u)
    BY DEF Read, Owner, Rows
  <1>2. \A s \in Txns : op'[s] = IF s = t THEN o ELSE op[s]
    BY DEF Read, MembershipInv, TablesTyped, Txns
  <1>3. ~crossed => DemotionsHold'
    BY <1>1, <1>2 DEF OwnerInv, DemotionsHold
  <1>4. LoginsHold'
    BY <1>2, TxnsAssumption DEF OwnerInv, LoginsHold, Txns
  <1> QED
    BY <1>1, <1>3, <1>4 DEF OwnerInv, RetainsOwner

\* A sign-in that reads opens no transaction that writes a role.
LEMMA OwnerLogins ==
    ASSUME MembershipInv, OwnerInv, NEW t \in Logins, NEW p \in People,
           ReadSynced(t, p) \/ ReadPending(t, p)
    PROVE  OwnerInv'
  <1>1. \E o : Read(t, o) /\ o.kind \in {"bind", "join"}
    <2>1. CASE ReadSynced(t, p)
      <3> PICK u \in Synced(p) :
              Read(t, [Idle EXCEPT !.kind = "bind", !.user = u, !.person = p])
        BY <2>1 DEF ReadSynced
      <3> WITNESS [Idle EXCEPT !.kind = "bind", !.user = u, !.person = p]
      <3> QED
        BY DEF Idle
    <2>2. CASE ReadPending(t, p)
      <3> PICK i \in Pending(p) :
              Read(t, [Idle EXCEPT !.kind = "join", !.invite = i, !.person = p,
                                   !.role = invite[i].role])
        BY <2>2 DEF ReadPending
      <3> WITNESS [Idle EXCEPT !.kind = "join", !.invite = i, !.person = p,
                               !.role = invite[i].role]
      <3> QED
        BY DEF Idle
    <2> QED
      BY <2>1, <2>2
  <1> PICK o : Read(t, o) /\ o.kind \in {"bind", "join"}
    BY <1>1
  <1>2. crossed' = crossed /\ \A u \in Users : Owner(u)' <=> Owner(u)
    BY <1>1 DEF Read, Owner, Rows
  <1>3. \A s \in Txns : op'[s] = IF s = t THEN o ELSE op[s]
    BY <1>1 DEF Read, MembershipInv, TablesTyped, Txns
  <1>4. ~crossed => DemotionsHold'
    BY <1>1, <1>2, <1>3 DEF OwnerInv, DemotionsHold
  <1>5. LoginsHold'
    BY <1>1, <1>3 DEF OwnerInv, LoginsHold, Txns
  <1> QED
    BY <1>2, <1>4, <1>5 DEF OwnerInv, RetainsOwner

\* Between a demotion's guard and its write came only steps that leave roles
\* alone, or the role changes have crossed.
LEMMA DemotionStep ==
    ASSUME MembershipInv, OwnerInv, NEW a \in Admins, WriteRole(a)
    PROVE  OwnerInv'
  <1> DEFINE u == op[a].user
             r == op[a].role
  <1>1. a \in Txns /\ u \in Users /\ user[u] # None /\ user[u] \in Row /\ r \in Roles
    BY RowsAreRows DEF MembershipInv, TablesTyped, OpsHold, WriteRole, Op, Txns
  <1>2. user' = [user EXCEPT ![u] = [user[u] EXCEPT !.role = r]]
    BY <1>1 DEF WriteRole, MembershipInv, TablesTyped
  <1>3. [user[u] EXCEPT !.role = r] \in Row
    BY <1>1 DEF Row
  <1>4. \A v \in Users \ {u} : Owner(v) => Owner(v)'
    BY <1>2 DEF Owner, Rows, MembershipInv, TablesTyped
  <1>5. ~crossed' => ~crossed /\ \A s \in Txns \ {a} : op[s].kind # "role"
    BY DEF WriteRole
  <1>6. ~crossed => RetainsOwner'
    <2>1. CASE r = "owner"
      <3>1. user'[u] \in Row /\ user'[u].role = "owner"
        BY <1>1, <1>2, <1>3, <2>1 DEF Row, MembershipInv, TablesTyped
      <3>2. user'[u] # None
        BY <3>1, RecordIsNotNone
      <3> QED
        BY <1>1, <3>1, <3>2 DEF RetainsOwner, Owner, Rows
    <2>2. CASE r # "owner"
      <3>1. ~crossed => \E v \in Users \ {u} : Owner(v)
        BY <1>1, <2>2 DEF WriteRole, OwnerInv, DemotionsHold
      <3> QED
        BY <3>1, <1>4 DEF RetainsOwner
    <2> QED
      BY <2>1, <2>2
  <1>7. \A s \in Txns : op'[s] = IF s = a THEN Idle ELSE op[s]
    BY <1>1 DEF WriteRole, Finish, MembershipInv, TablesTyped
  <1>8. ~crossed' => DemotionsHold'
    BY <1>5, <1>7 DEF DemotionsHold, Idle
  <1>9. LoginsHold'
    BY <1>7 DEF OwnerInv, LoginsHold, Txns, Idle
  <1> QED
    BY <1>5, <1>6, <1>8, <1>9 DEF OwnerInv

\* Founders own the workspace at the start.
LEMMA InitOwnerInv == Init => OwnerInv
  <1> SUFFICES ASSUME Init PROVE OwnerInv
    OBVIOUS
  <1> PICK who \in [Founders -> People] :
        user = [u \in Users |-> IF u \in Founders
                  THEN [person |-> who[u], subject |-> "idp",
                        role |-> "owner", status |-> "active"]
                  ELSE None]
    BY DEF Init
  <1>1. \A t \in Txns : op[t] = Idle
    BY DEF Init
  <1>2. PICK u \in Founders : u \in Users
    BY FoundersAssumption
  <1>3. user[u] = [person |-> who[u], subject |-> "idp",
                   role |-> "owner", status |-> "active"]
    BY <1>2
  <1>4. user[u] \in Row
    BY <1>2, <1>3, RolesAssumption DEF Row
  <1>5. Owner(u)
    BY <1>2, <1>3, <1>4, RecordIsNotNone DEF Owner, Rows
  <1> QED
    BY <1>1, <1>2, <1>5 DEF OwnerInv, RetainsOwner, DemotionsHold, LoginsHold, Idle, Txns

\* Every step keeps OwnerInv.
LEMMA NextOwnerInv == MembershipInv /\ OwnerInv /\ [Next]_vars => OwnerInv'
  <1> SUFFICES ASSUME MembershipInv, OwnerInv, [Next]_vars PROVE OwnerInv'
    OBVIOUS
  <1>1. ASSUME NEW a \in Admins, Settings(a) PROVE OwnerInv'
    <2> a \in Txns
      BY DEF Txns
    <2>1. ASSUME NEW u \in Users, NEW r \in Roles, ReadRole(a, u, r) PROVE OwnerInv'
      <3> DEFINE o == [Idle EXCEPT !.kind = "role", !.user = u, !.role = r]
      <3>1. o \in Op /\ o.user = u /\ o.role = r
        BY RolesAssumption DEF Op, Idle, Kinds
      <3>2. Read(a, o)
        BY <2>1 DEF ReadRole
      <3>3. ~crossed /\ r # "owner" => \E v \in Users \ {u} : Owner(v)
        BY <2>1 DEF ReadRole, OwnerInv, RetainsOwner
      <3> HIDE DEF o
      <3> QED
        BY <3>1, <3>2, <3>3, OwnerReads
    <2>2. ASSUME NEW u \in Users, NEW s \in {"active", "disabled"}, ReadStatus(a, u, s)
          PROVE  OwnerInv'
      <3> DEFINE o == [Idle EXCEPT !.kind = "status", !.user = u, !.status = s]
      <3>1. o \in Op /\ o.kind = "status"
        BY RolesAssumption DEF Op, Idle, Kinds
      <3>2. Read(a, o)
        BY <2>2 DEF ReadStatus
      <3> HIDE DEF o
      <3> QED
        BY <3>1, <3>2, OwnerReads
    <2>3. ASSUME NEW u \in Users, ReadErase(a, u) PROVE OwnerInv'
      <3> DEFINE o == [Idle EXCEPT !.kind = "erase", !.user = u]
      <3>1. o \in Op /\ o.kind = "erase"
        BY RolesAssumption DEF Op, Idle, Kinds
      <3>2. Read(a, o)
        BY <2>3 DEF ReadErase
      <3> HIDE DEF o
      <3> QED
        BY <3>1, <3>2, OwnerReads
    <2>4. ASSUME NEW p \in People, NEW r \in Roles, ReadInvite(a, p, r) PROVE OwnerInv'
      <3>1. \E o \in Op : Read(a, o) /\ o.kind \in {"reinvite", "invite"}
        <4>1. ASSUME NEW i \in Pending(p),
                     Read(a, [Idle EXCEPT !.kind = "reinvite", !.invite = i, !.role = r])
              PROVE  \E o \in Op : Read(a, o) /\ o.kind \in {"reinvite", "invite"}
          <5> DEFINE o == [Idle EXCEPT !.kind = "reinvite", !.invite = i, !.role = r]
          <5>1. o \in Op /\ o.kind = "reinvite" /\ Read(a, o)
            BY <4>1, RolesAssumption DEF Op, Idle, Kinds, Pending
          <5> HIDE DEF o
          <5> QED
            BY <5>1
        <4>2. CASE Read(a, [Idle EXCEPT !.kind = "invite", !.person = p, !.role = r])
          <5> DEFINE o == [Idle EXCEPT !.kind = "invite", !.person = p, !.role = r]
          <5>1. o \in Op /\ o.kind = "invite" /\ Read(a, o)
            BY <4>2, RolesAssumption DEF Op, Idle, Kinds
          <5> HIDE DEF o
          <5> QED
            BY <5>1
        <4> QED
          BY <2>4, <4>1, <4>2 DEF ReadInvite
      <3> QED
        BY <3>1, OwnerReads
    <2>5. CASE WriteRole(a)
      BY <2>5, DemotionStep
    <2>6. CASE WriteStatus(a) \/ WriteErase(a)
      <3>1. /\ Finish(a) /\ op[a].user \in Users /\ user[op[a].user] \in Row
            /\ crossed' = crossed
        BY <2>6, RowsAreRows DEF WriteStatus, WriteErase, MembershipInv, OpsHold
      <3>2. op[a].status \in {"active", "disabled"}
        BY DEF MembershipInv, TablesTyped, Op
      <3>3. [user[op[a].user] EXCEPT !.status = op[a].status] \in Row
        BY <3>1, <3>2 DEF Row
      <3>4. [user[op[a].user] EXCEPT !.person = None, !.subject = "erased"] \in Row
        BY <3>1 DEF Row
      <3>5. \A u \in Users : Owner(u) => user'[u] # None /\ user'[u].role = user[u].role
        BY <2>6, <3>1, <3>3, <3>4, RecordIsNotNone
        DEF WriteStatus, WriteErase, Owner, Rows, Row, MembershipInv, TablesTyped
      <3> QED
        BY <3>1, <3>5, OwnersStayOnFinish
    <2>7. CASE WriteReinvite(a) \/ WriteInvite(a)
      <3>1. Finish(a) /\ user' = user /\ crossed' = crossed
        BY <2>7 DEF WriteReinvite, WriteInvite
      <3> QED
        BY <3>1, OwnersStayOnFinish DEF Owner, Rows
    <2> QED
      BY <1>1, <2>1, <2>2, <2>3, <2>4, <2>5, <2>6, <2>7 DEF Settings
  <1>2. ASSUME NEW t \in Logins, Login(t) PROVE OwnerInv'
    <2> t \in Txns
      BY DEF Txns
    <2>1. CASE WriteBind(t)
      <3>1. /\ Finish(t) /\ op[t].user \in Users /\ user[op[t].user] \in Row
            /\ crossed' = crossed
        BY <2>1, RowsAreRows DEF WriteBind, MembershipInv, OpsHold
      <3>2. [user[op[t].user] EXCEPT !.subject = "idp"] \in Row
        BY <3>1 DEF Row
      <3>3. \A u \in Users : Owner(u) => user'[u] # None /\ user'[u].role = user[u].role
        BY <2>1, <3>1, <3>2, RecordIsNotNone
        DEF WriteBind, Owner, Rows, Row, MembershipInv, TablesTyped
      <3> QED
        BY <3>1, <3>3, OwnersStayOnFinish
    <2>2. CASE WriteJoin(t)
      <3>1. /\ Finish(t) /\ crossed' = crossed
            /\ \A u \in Users : Owner(u) => user'[u] = user[u]
        BY <2>2 DEF WriteJoin, Owner, MembershipInv, TablesTyped
      <3> QED
        BY <3>1, OwnersStayOnFinish DEF Owner, Rows
    <2> QED
      BY <1>2, <2>1, <2>2, OwnerLogins DEF Login
  <1>3. ASSUME NEW t \in Txns, Abort(t) PROVE OwnerInv'
    <2>1. Finish(t) /\ user' = user /\ crossed' = crossed
      BY <1>3 DEF Abort
    <2> QED
      BY <2>1, OwnersStayOnFinish DEF Owner, Rows
  <1>4. CASE user' = user /\ op' = op /\ crossed' = crossed
    BY <1>4, OwnersStay DEF Owner, Rows
  <1>5. ASSUME NEW u \in Users, NEW p \in People, NEW s \in {"active", "disabled"},
               ScimCreate(u, p, s)
        PROVE  OwnerInv'
    <2>1. /\ op' = op /\ crossed' = crossed
          /\ \A v \in Users : Owner(v) => user'[v] = user[v]
      BY <1>5 DEF ScimCreate, Owner, MembershipInv, TablesTyped
    <2> QED
      BY <2>1, OwnersStay DEF Owner, Rows
  <1>6. ASSUME NEW u \in Users, NEW s \in {"active", "disabled"}, ScimSetActive(u, s)
        PROVE  OwnerInv'
    <2>1. user[u] \in Row /\ op' = op /\ crossed' = crossed
      BY <1>6, RowsAreRows DEF ScimSetActive, Rows, MembershipInv
    <2>2. [user[u] EXCEPT !.status = s] \in Row
      BY <2>1 DEF Row
    <2>3. \A v \in Users : Owner(v) => user'[v] # None /\ user'[v].role = user[v].role
      BY <1>6, <2>1, <2>2, RecordIsNotNone
      DEF ScimSetActive, Owner, Rows, Row, MembershipInv, TablesTyped
    <2> QED
      BY <2>1, <2>3, OwnersStay
  <1> QED
    BY <1>1, <1>2, <1>3, <1>4, <1>5, <1>6
    DEF Next, vars, RevokeInvite, RevokeSessions, SignIn

-----------------------------------------------------------------------------
(* Results: the members *)

LEMMA MembersSpec == SpecAccounts => Spec
  <1>1. InitAccounts => Init
    BY DEF InitAccounts
  <1>2. [NextAccounts]_<<part, vars, sessionVars>> => [Next]_vars
    BY DEF NextAccounts
  <1> QED
    BY <1>1, <1>2, PTL DEF SpecAccounts, Spec

\* A person has at most one live account, whatever settings requests, sync
\* and sign-ins race to create one (provision.ts, scim/operations.ts), where
\* email claims have the case directory sync stores.
THEOREM OneAccount ==
    ASSUME ~MixedCase
    PROVE  SpecAccounts => []OneAccountPerPerson
  <1>1. MembershipInv => OneAccountPerPerson
    BY DEF MembershipInv, OneAccountIndexed
  <1> QED
    BY <1>1, MembersSpec, MembershipInvariant, PTL

\* A workspace retains an owner ("A tenant must always retain at least one
\* owner", settings/operations.ts lines 48-49), whatever any number of
\* settings requests, directory sync and sign-ins do, unless a role was
\* written between the check and the write of another role change.
THEOREM OwnerRetained == SpecAccounts => []RetainsOwnerUncrossed
  <1>1. Init => OwnerInv
    BY InitOwnerInv
  <1>2. MembershipInv /\ OwnerInv /\ [Next]_vars => OwnerInv'
    BY NextOwnerInv
  <1>3. OwnerInv => RetainsOwnerUncrossed
    BY DEF OwnerInv, RetainsOwnerUncrossed
  <1> QED
    BY <1>1, <1>2, <1>3, MembersSpec, MembershipInvariant, PTL DEF Spec

-----------------------------------------------------------------------------
(* Results: the sessions *)

SessionFacts == INSTANCE SessionsProofs WITH
        Operators <- Users \ Founders, Tabs <- Admins, Idle <- IdleTimeout

LEMMA SessionsSame ==
    /\ S!Init <=> SessionFacts!Init
    /\ S!Next <=> SessionFacts!Next
    /\ S!vars = SessionFacts!vars
    /\ S!ConstantsOK <=> SessionFacts!ConstantsOK
    /\ S!TypeOK <=> SessionFacts!TypeOK
    /\ S!RevokedMustSignIn <=> SessionFacts!RevokedMustSignIn
    /\ S!IdleLapses <=> SessionFacts!IdleLapses
    /\ S!PersonStaysPut <=> SessionFacts!PersonStaysPut
  <1> USE DEF S!Accounts, SessionFacts!Accounts, S!Time, SessionFacts!Time,
              S!Token, SessionFacts!Token, S!Fresh, SessionFacts!Fresh,
              S!Live, SessionFacts!Live, S!Accepted, SessionFacts!Accepted
  <1>1. S!Init <=> SessionFacts!Init
    BY DEF S!Init, SessionFacts!Init
  <1>2. S!Next <=> SessionFacts!Next
    <2> USE DEF S!SetCookie, SessionFacts!SetCookie, S!Slide, SessionFacts!Slide
    <2>1. ASSUME NEW b
          PROVE  /\ \A o : S!SignIn(b, o) <=> SessionFacts!SignIn(b, o)
                 /\ S!Mutate(b) <=> SessionFacts!Mutate(b)
      BY DEF S!SignIn, SessionFacts!SignIn, S!Mutate, SessionFacts!Mutate
    <2>2. ASSUME NEW b, NEW x
          PROVE  /\ S!Refresh(b, x) <=> SessionFacts!Refresh(b, x)
                 /\ S!Land(b, x) <=> SessionFacts!Land(b, x)
                 /\ S!LoseReply(b, x) <=> SessionFacts!LoseReply(b, x)
      BY DEF S!Refresh, SessionFacts!Refresh, S!Land, SessionFacts!Land,
             S!LoseReply, SessionFacts!LoseReply
    <2>3. ASSUME NEW b
          PROVE  /\ \A w : S!SwitchTo(b, w) <=> SessionFacts!SwitchTo(b, w)
                 /\ S!Exit(b) <=> SessionFacts!Exit(b)
                 /\ S!Logout(b) <=> SessionFacts!Logout(b)
      BY DEF S!SwitchTo, SessionFacts!SwitchTo, S!Exit, SessionFacts!Exit,
             S!Logout, SessionFacts!Logout
    <2>4. ASSUME NEW u
          PROVE  /\ \A s : S!SetStatus(u, s) <=> SessionFacts!SetStatus(u, s)
                 /\ S!RevokeSessions(u) <=> SessionFacts!RevokeSessions(u)
                 /\ S!ScimDisable(u) <=> SessionFacts!ScimDisable(u)
      BY DEF S!SetStatus, SessionFacts!SetStatus, S!RevokeSessions,
             SessionFacts!RevokeSessions, S!ScimDisable, SessionFacts!ScimDisable
    <2>5. S!Tick <=> SessionFacts!Tick
      BY DEF S!Tick, SessionFacts!Tick
    <2> QED
      BY <2>1, <2>2, <2>3, <2>4, <2>5 DEF S!Next, SessionFacts!Next
  <1>3. S!vars = SessionFacts!vars
    BY DEF S!vars, SessionFacts!vars
  <1>4. S!ConstantsOK <=> SessionFacts!ConstantsOK
    BY DEF S!ConstantsOK, SessionFacts!ConstantsOK
  <1>5. S!TypeOK <=> SessionFacts!TypeOK
    BY DEF S!TypeOK, SessionFacts!TypeOK
  <1>6. S!RevokedMustSignIn <=> SessionFacts!RevokedMustSignIn
    BY DEF S!RevokedMustSignIn, SessionFacts!RevokedMustSignIn
  <1>7. S!IdleLapses <=> SessionFacts!IdleLapses
    BY DEF S!IdleLapses, SessionFacts!IdleLapses
  <1>8. S!PersonStaysPut <=> SessionFacts!PersonStaysPut
    BY DEF S!PersonStaysPut, SessionFacts!PersonStaysPut
  <1> QED
    BY <1>1, <1>2, <1>3, <1>4, <1>5, <1>6, <1>7, <1>8

LEMMA SessionsSpec == SpecAccounts => SessionFacts!Spec
  <1>1. InitAccounts => SessionFacts!Init
    BY SessionsSame DEF InitAccounts
  <1>2. [NextAccounts]_<<part, vars, sessionVars>>
            => [SessionFacts!Next]_SessionFacts!vars
    <2> SUFFICES ASSUME [NextAccounts]_<<part, vars, sessionVars>>
                 PROVE  SessionFacts!Next \/ UNCHANGED SessionFacts!vars
      OBVIOUS
    <2>1. S!Next \/ UNCHANGED sessionVars
      BY DEF NextAccounts
    <2>2. CASE S!Next
      BY <2>2, SessionsSame
    <2>3. CASE UNCHANGED sessionVars
      BY <2>3 DEF sessionVars, SessionFacts!vars
    <2> QED
      BY <2>1, <2>2, <2>3
  <1> QED
    BY <1>1, <1>2, PTL DEF SpecAccounts, SessionFacts!Spec

\* The tables, the open transactions, the accounts, cookies and answers under
\* way keep their types.
THEOREM TypeCorrect == SpecAccounts => []AccountsTyped
  <1>1. MembershipInv /\ HistoryTyped => TypeOK
    BY DEF HistoryTyped, MembershipInv, TablesTyped, TypeOK
  <1>2. SessionFacts!ConstantsOK
    BY SessionsAssumption, SessionsSame
  <1>3. TypeOK /\ SessionFacts!TypeOK => AccountsTyped
    BY SessionsSame DEF AccountsTyped
  <1> QED
    BY <1>1, <1>2, <1>3, MembersSpec, MembershipInvariant, CrossedTyped, SessionsSpec,
       SessionFacts!TypeCorrect, PTL

\* Revoking an operator's sessions forces a fresh sign-in: a session that has
\* not acted inside a workspace and is accepted was born under today's epoch,
\* however many refreshes of how many tabs land late.
THEOREM RevocationForcesSignIn == SpecAccounts => []RevokedMustSignIn
  <1>1. SessionFacts!ConstantsOK
    BY SessionsAssumption, SessionsSame
  <1>2. SessionFacts!RevokedMustSignIn => RevokedMustSignIn
    BY SessionsSame DEF RevokedMustSignIn
  <1> QED
    BY <1>1, <1>2, SessionsSpec, SessionFacts!RevocationForcesSignIn, PTL

\* A browser without activity for the idle timeout is not accepted, however
\* late the answers of its refreshes land.
THEOREM IdleSessionsLapse == SpecAccounts => []IdleLapses
  <1>1. SessionFacts!ConstantsOK
    BY SessionsAssumption, SessionsSame
  <1>2. SessionFacts!IdleLapses => IdleLapses
    BY SessionsSame DEF IdleLapses
  <1> QED
    BY <1>1, <1>2, SessionsSpec, SessionFacts!IdleSessionsLapse, PTL

\* Switching, exiting and refreshing lead a person back to the person's own
\* account, never into a colleague's.
THEOREM PeopleStayPut == SpecAccounts => []PersonStaysPut
  <1>1. SessionFacts!ConstantsOK
    BY SessionsAssumption, SessionsSame
  <1>2. SessionFacts!PersonStaysPut => PersonStaysPut
    BY SessionsSame DEF PersonStaysPut
  <1> QED
    BY <1>1, <1>2, SessionsSpec, SessionFacts!PeopleStayPut, PTL
=============================================================================
