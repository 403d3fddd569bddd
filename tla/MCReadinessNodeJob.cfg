SPECIFICATION Spec
CONSTANTS
    Setter = {s1}
    Updater = {u1}
    Bit = {r}
    Token = {k1}
    NoToken = noToken
    NoJob = noJob
    Opts = {"edge"}
INVARIANT JobComesWithEvent
CHECK_DEADLOCK FALSE
