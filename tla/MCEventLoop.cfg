SPECIFICATION FairSpec
CONSTANTS
    MaxThreads = 4
    Callers = {t1}
    NoOne = NoOne
    Quitter = Quitter
INVARIANTS TypeOK ThrowsOnlyAfterQuit SchedulersOutliveLoops
PROPERTY QuitReturns
CHECK_DEADLOCK FALSE
