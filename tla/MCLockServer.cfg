CONSTANTS
    Clients = {c1, c2}
    LockIds = {l1, l2}
    Threads = {t1, t2, t3}
    NoClient = NoClient
SPECIFICATION FairSpec
INVARIANTS TypeOK NoLostWakeup
PROPERTIES ImplementsLockSpec WantedLockIsTaken
CHECK_DEADLOCK FALSE
