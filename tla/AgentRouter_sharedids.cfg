\* App Server numbers its own requests with ids the TUI also uses.
SPECIFICATION Spec
CONSTANTS
    m1 = m1
    m2 = m2
    None = None
    Absent = Absent
    t1 = t1
    t2 = t2
    Threads = {t1}
    Ids = {i1, i2}
    i1 = i1
    i2 = i2
    a1 = a1
    fast = fast
    ServerIds = {i1}
    Models = {m1, m2}
    Rank <- MCRank
    Levels = {1, 2}
    Tiers = {}
    TierKeys = {Absent}
    CliModel = None
    ModelPinned = FALSE
    CliEffort = None
    EffortPinned = FALSE
    CliTier = None
    TierPinned = FALSE
    AllowDowngrade = FALSE
    PriorCounts <- MCPriorCounts
    MaxDecisions = 2
INVARIANT
    DecisionsWereAccepted
