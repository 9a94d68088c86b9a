SPECIFICATION Spec
CONSTANTS
    f1 = f1
    f2 = f2
    Fds <- TwoFds
    None = None
    Placements = {TRUE, FALSE}
    Capacity = 2
    MaxQueue = 1
    MaxConns = 3
SYMMETRY FdSymmetry
INVARIANTS TypeOK BatchIsAlive RemovalHitsItsOwn ClosedIsRemoved StopIsServed NoStalledWrite
