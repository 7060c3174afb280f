CONSTANTS
    Clients = {c1, c2}
    AppThreads = {a1, a2}
    LockIds = {l1}
    Threads = {t1, t2}
    NoClient = NoClient
    Bind = bind
    Expiring = {c1}
    MaxRounds = 1
    MaxRetries = 1
    MaxXid = 3
    MaxSend = 2
    MaxNonce = 2
    ClientOf <- OwnClient
SPECIFICATION Spec
SYMMETRY Symmetry
INVARIANTS MutualExclusion NoNullLock NoOrphanLock
CHECK_DEADLOCK FALSE
