CONSTANTS
    Requests = {r1}
    Editors = {a1, a2}
    MaxAmount = 3
    One = {x1}
    Two = {x1, x2}
    Three = {x1, x2, x3}
    Four = {x1, x2, x3, x4}
    None = None
    MaxSeeds = 2
    Bump = 10
    MaxBatch = 2
    MaxSnapshots = 3
    MaxTier = 2
    MinCohort = 2
    MaxCapture = 2
    MaxValue = 5
    MaxSample = 5
    MaxRows = 3
    MaxDeals = 5
    RepScore = 33
    MaxMilestones = 3
    MaxDay = 3
    HorizonDays = {3, 6}
    Paces = {70, 100}
    MaxProjection = 6
    Horizon = 4
    MaxRuns = 6
    YearDays = 12
    Lead = 3
    SubmitCap = 8
    Years = 2
    MaxTokens = 3
SPECIFICATION SpecRecords
SYMMETRY Symmetry
CONSTRAINT Bounded
INVARIANTS
    AllTyped
    Waterfall
    ClaimedHasProof
    RoadmapSound
    LinksAgreed
    ServedClean
    RecordsAgree
    HandedOverOnce
    SoundAlone
    VerdictsAreAws
    CohortsSound
    DatesAgree
    AdviceSound
PROPERTIES
    FollowsLifecycle
    LifecyclesFollowed
CHECK_DEADLOCK FALSE
