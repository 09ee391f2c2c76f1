CONSTANTS
    Requests = {r1}
    Editors = {e1, e2}
    MaxAmount = 2
    None = None
SPECIFICATION Spec
SYMMETRY Symmetry
INVARIANT ApprovedWithinAsk
CHECK_DEADLOCK FALSE
