\* A session started with a model on the command line.
SPECIFICATION Spec
CONSTANTS
    m1 = m1
    m2 = m2
    None = None
    Absent = Absent
    t1 = t1
    t2 = t2
    Threads = {t1, t2}
    Ids = {i1, i2}
    i1 = i1
    i2 = i2
    a1 = a1
    fast = fast
    ServerIds = {a1}
    Models = {m1, m2}
    Rank <- MCRank
    Levels = {1}
    Tiers = {fast}
    TierKeys = {Absent, fast}
    CliModel = m2
    ModelPinned = TRUE
    CliEffort = 1
    EffortPinned = TRUE
    CliTier = fast
    TierPinned = TRUE
    AllowDowngrade = FALSE
    PriorCounts <- MCZeroCounts
    MaxDecisions = 2
INVARIANT
    CommandLinePinIsKept
