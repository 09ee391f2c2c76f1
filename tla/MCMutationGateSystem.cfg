CONSTANTS
    Calls = {c1, c2, c3}
    Keys = {k1, k2}
    Bodies = {b1, b2}
    Actors = {a1}
    Kinds = {"tenant", "system"}
    PoolSize = 3
    MaxHits = 2
    MaxSweeps = 1
    NoCall = NoCall
    NoRow = NoRow
SPECIFICATION Spec
SYMMETRY Symmetry
INVARIANT AuditAtomicForAll
CHECK_DEADLOCK FALSE
