SPECIFICATION LiveSpec
CONSTANTS
    SendLen = {1, 2}
    MaxBytes = 4
    MaxRx = 2
    SndBuf = 2
INVARIANTS
    BytesInOrder
    NoStuckInput
    ClosesOnce
PROPERTIES
    PeerCloseNoticed
CHECK_DEADLOCK FALSE
