SPECIFICATION Spec
CONSTANTS
    p1 = p1  p2 = p2
    a1 = a1  a2 = a2  a3 = a3  b1 = b1  b2 = b2
    A = A  B = B
    Nobody = Nobody
    NoStore = NoStore
    Processes <- MCProcesses
    Past <- MCPast
    Repos <- MCRepos
    Workloads <- MCWorkloads
    Beginnings <- MCBeginnings
INVARIANTS TypeOK LinesAreWhole StoreIsWhole OffsetsWereEarned
PROPERTIES StoreIsShared EveryoneFinishes
CHECK_DEADLOCK FALSE
