CONSTANTS
    Playbooks = {p1}
    Decisions = {d1}
    Actions = {"approve_within_cap"}
    Passes = {t1}
    Approvers = {a1}
    Ticks = {k1}
    None = None
SPECIFICATION Spec
PROPERTIES
    TerminalIsTerminal
CHECK_DEADLOCK FALSE
