SPECIFICATION Spec
CONSTANTS
    SendLen = {2}
    MaxBytes = 4
    MaxRx = 2
    SndBuf = 1
INVARIANT
    NoByteLost
CHECK_DEADLOCK FALSE
