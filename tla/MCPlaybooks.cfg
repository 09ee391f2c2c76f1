CONSTANTS
    Playbooks = {p1}
    Decisions = {d1, d2}
    Actions = {"notify", "route_opportunity"}
    Passes = {t1, t2}
    Approvers = {a1, a2}
    Ticks = {k1, k2}
    None = None
SPECIFICATION Spec
SYMMETRY Symmetry
INVARIANTS
    TypeOK
    FiresOnce
    RunTellsTruth
    ExternalSendsApproved
    SentWasSent
PROPERTIES
    DecidedStaysDecided
CONSTRAINT AtMostTwoBusy
CHECK_DEADLOCK FALSE
