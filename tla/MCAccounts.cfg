CONSTANTS
    Users = {u1, u2, u3}
    People = {p1, p2}
    Invites = {i1}
    Roles = {"owner", "member"}
    Admins = {a1, a2}
    Logins = {l1}
    Founders = {u1}
    Scim = TRUE
    MixedCase = FALSE
    Workspaces = {w1}
    Browsers = {b1}
    IdleTimeout = 1
    MaxAge = 3
    MaxTime = 2
    MaxEpoch = 1
    None = None
SPECIFICATION SpecAccounts
SYMMETRY Symmetry
VIEW ExceptAudit
CONSTRAINT Bounded
INVARIANTS
    AccountsTyped
    OneAccountPerPerson
    RetainsOwnerUncrossed
    RevokedMustSignIn
    IdleLapses
    PersonStaysPut
CHECK_DEADLOCK FALSE
