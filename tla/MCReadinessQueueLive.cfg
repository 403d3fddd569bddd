SPECIFICATION LiveSpec
CONSTANTS
    Node = {n1, n2}
    Producer = {p1}
    Poller = poller
    EndMarker = end
    SleepMarker = sleep
    ClosedMarker = closed
    Null = null
    Cap = 1
    PipeCap = 1
    ReadBuf = 1
    Interruptible = FALSE
PROPERTIES
    RefinesFifo
    Delivered
CHECK_DEADLOCK FALSE
