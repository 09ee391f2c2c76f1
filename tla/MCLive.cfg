CONSTANTS
    Calls = {c1, c2, c3}
    Keys = {k1}
    Bodies = {b1, b2}
    Actors = {a1}
    Kinds = {"tenant"}
    PoolSize = 2
    MaxHits = 3
    MaxSweeps = 1
    NoCall = NoCall
    NoRow = NoRow
    Links = {l1, l2}
    Txns = {x1, x2}
SPECIFICATION SpecLive
PROPERTIES
    ImplementsLedger
    EveryCallAnswered
    ChangeMirrors
    EveryEditEnds
CHECK_DEADLOCK FALSE
