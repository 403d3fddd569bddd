SPECIFICATION ServerLiveSpec
CONSTANTS
    Peer = {p1, p2, p3}
    Starter = {a1, a2}
    NoPeer = none
INVARIANTS
    BacklogSound
    NoDeadlockNoPanic
    StartedMeansServed
PROPERTIES
    Served
CHECK_DEADLOCK FALSE
