SPECIFICATION LiveSpec
CONSTANTS
    Call = {c1, c2}
    Key = {k1, k2}
    Tick = {1}
    Other = other
    None = none
INVARIANTS
    LoopSurvives
    OnConnectSound
    OnlyOwnTimeouts
PROPERTIES
    OneOutcome
    Answered
CHECK_DEADLOCK FALSE
