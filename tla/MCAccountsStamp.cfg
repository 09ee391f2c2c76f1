CONSTANTS
    Users = {u1, u2}
    People = {p1, p2}
    Invites = {i1}
    Roles = {"owner", "member"}
    Admins = {a1}
    Logins = {l1}
    Founders = {u1}
    Scim = FALSE
    MixedCase = FALSE
    Workspaces = {w1}
    Browsers = {b1}
    IdleTimeout = 1
    MaxAge = 3
    MaxTime = 2
    MaxEpoch = 1
    None = None
SPECIFICATION SpecAccounts
SYMMETRY Symmetry
INVARIANT AuditNamesOperator
CHECK_DEADLOCK FALSE
