SPECIFICATION Spec
CONSTANTS
    Setter = {s1}
    Updater = {u1, u2}
    Bit = {r}
    Token = {k1}
    NoToken = noToken
    NoJob = noJob
    Opts = {"level"}
SYMMETRY Symmetry
INVARIANTS
    NodeSound
    TokenSlots
    RefCountExact
    DebugAsserts
CHECK_DEADLOCK FALSE
