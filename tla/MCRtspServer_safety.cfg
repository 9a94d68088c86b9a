SPECIFICATION Spec
CONSTANTS
    f1 = f1
    f2 = f2
    f3 = f3
    x1 = x1
    x2 = x2
    Fds <- ThreeFds
    Suffixes <- TwoSuffixes
    None = None
    MaxConns = 2
    MaxSessions = 2
    MaxFrames = 1
    MaxSetups = 1
    MaxLoad = 5
    Elsewhere <- AllOrOne
SYMMETRY Symmetry
INVARIANTS TypeOK SuffixesResolve FifoProtectsPackets StaleOnlyFromSwitch DescribedIsClient ClosedIsFreed SocketIsKept
CHECK_DEADLOCK FALSE
