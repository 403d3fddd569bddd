SPECIFICATION LiveSpec
CONSTANTS
    Thread = {t1, t2, t3}
    Nobody = nobody
INVARIANTS
    TypeOK
    OnePoller
    WordExact
    NoStrandedWaiter
PROPERTY WaitersLeadToPoll
