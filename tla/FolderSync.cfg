SPECIFICATION FairSpec
CONSTANTS
    f = f
    p1 = p1
    p2 = p2
    Lifetime = 2
    Files = {f}
    Procs = {p1, p2}
    Sizes = {1, 2}
    LoginFirst = TRUE
    MaxTime = 2
    MaxVersions = 2
    MaxInits = 1
INVARIANT NothingHidden
PROPERTY RedeemedIsSaved
PROPERTY RemoteOnlyGetsNewer
PROPERTY LoginEnds
PROPERTY ApprovalIsNoticed
PROPERTY SyncEnds
