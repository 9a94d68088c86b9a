SPECIFICATION FairSpec
CONSTANTS
    p1 = p1
    loop = loop
    Producers <- TwoThreads
    LoopThread = loop
    NoThread = NoThread
    NoEvent = NoEvent
    Capacity = 2
    PipeSize = 2
    WakeChunk = 1
    MaxPosts = 3
INVARIANTS TypeOK SlotHandover NoLostWakeup StopIsSeen DropsHaveRivals
PROPERTIES ImplementsTriggerQueue EventsRun StopEndsLoop
CHECK_DEADLOCK FALSE
