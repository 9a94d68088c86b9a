SPECIFICATION FairSpec
CONSTANTS
    f1 = f1
    f2 = f2
    Fds <- TwoFds
    None = None
    Placements = {TRUE}
    Capacity = 4
    MaxQueue = 1
    MaxConns = 2
INVARIANT NothingLeaks
PROPERTY StopReturns
