SPECIFICATION FairSpec
CONSTANTS
    Delays = {0, 1, 2, 3}
    IntMax = 2
    RemoteCalls = TRUE
    MaxTimers = 2
    MaxTime = 5
INVARIANTS TypeOK EventsCoverTimers StaleOnlyFromZero OncePerPass
PROPERTY TimersFire
