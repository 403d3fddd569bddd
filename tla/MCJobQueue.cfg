SPECIFICATION LiveSpec
CONSTANTS
    Job = {j1, j2, j3}
    Remote = {t1, t2}
    Loop = loop
    NoJob = noJob
    Cap = 2
INVARIANTS
    NodeLifetime
    NothingLeaks
PROPERTIES
    RefinesJobService
    ShutdownEnds
CHECK_DEADLOCK FALSE
