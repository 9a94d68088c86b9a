SPECIFICATION Spec
CONSTANTS
    Channels = 2
    MaxOpens = 2
INVARIANT PushingIsAccepted
PROPERTY GivenUpIsClosed
CHECK_DEADLOCK FALSE
