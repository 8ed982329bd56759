SPECIFICATION Spec
CONSTANTS
    p1 = p1  p2 = p2
    Nobody = Nobody
    None = None
    Fallback = Fallback
    MaxAge = 1
    MaxClock = 3
    LastInstall = 2
    Processes <- MCProcesses
    Requests <- MCRequests
INVARIANTS TypeOK NothingReplacedIsListed FreshIsRecent
PROPERTIES RefreshIsShared CacheNeverGoesBack
CHECK_DEADLOCK FALSE
