CONSTANTS
    r = r
    m1 = m1
    m2 = m2
    None = None
    NullPtr = NullPtr
    Closer = Closer
    Names = {r}
    Monitors = {m1, m2}
    MaxFails = 1
    Waiters = {Closer}
    Timed = {Closer}
SPECIFICATION LifeSpec
INVARIANT
    EveryTrackedSetHasMonitor
CHECK_DEADLOCK FALSE
