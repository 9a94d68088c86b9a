SPECIFICATION Spec
CONSTANTS
    MaxFrames = 2
    MaxClients = 1
INVARIANT FramesAreWhole
CHECK_DEADLOCK FALSE
