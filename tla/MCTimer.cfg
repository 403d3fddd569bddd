SPECIFICATION LiveSpec
CONSTANTS
    Key = {k1, k2, k3}
    Empty = empty
    TickMs = 2
    NumSlots = 2
    Delay = {0, 2}
    MaxMs = 3
    MaxTick = 2
    TickMax = 99
INVARIANTS
    WheelSound
    WakeupArmed
    OnlySameTickMissed
PROPERTIES
    DueFires
    ThreadEnds
CHECK_DEADLOCK FALSE
