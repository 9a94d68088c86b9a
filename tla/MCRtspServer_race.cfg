SPECIFICATION Spec
CONSTANTS
    f1 = f1
    f2 = f2
    f3 = f3
    x1 = x1
    x2 = x2
    Fds <- OneFd
    Suffixes <- OneSuffix
    None = None
    MaxConns = 1
    MaxSessions = 1
    MaxFrames = 1
    MaxSetups = 0
    MaxLoad = 3
    Elsewhere <- AllOrOne
INVARIANT SenderIsAlive
CHECK_DEADLOCK FALSE
