SPECIFICATION Spec
CONSTANTS
    Node = {n1, n2}
    Producer = {p1, p2}
    Poller = poller
    EndMarker = end
    SleepMarker = sleep
    ClosedMarker = closed
    Null = null
    Cap = 2
    PipeCap = 2
    ReadBuf = 1
    Interruptible = TRUE
SYMMETRY Symmetry
INVARIANTS
    ListSound
    NoSleepOnWork
    ReleasedOnce
PROPERTIES
    OrderedAndDrained
CHECK_DEADLOCK FALSE
