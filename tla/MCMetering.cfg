CONSTANTS
    Records = {r1, r2, r3, r4}
    Receipts = {k1, k2}
    Calls = {c1, c2}
    Usages = {u1, u2}
    MaxBatch = 2
    None = None
SPECIFICATION Spec
SYMMETRY Symmetry
INVARIANT AcceptedOnce
CHECK_DEADLOCK FALSE
