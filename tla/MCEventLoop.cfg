SPECIFICATION LiveSpec
CONSTANTS
    Fd = {3, 4}
    Token = {4}
    File = {f1, f2}
    Remote = {t1}
    Loop = loop
    None = none
    MaxEvents = 2
INVARIANTS
    MapSound
    JobMeetsItsFile
PROPERTIES
    EventDispatched
CHECK_DEADLOCK FALSE
