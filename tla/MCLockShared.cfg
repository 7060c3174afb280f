CONSTANTS
    Clients = {c1}
    AppThreads = {a1, a2}
    LockIds = {l1}
    Threads = {t1, t2}
    NoClient = NoClient
    Bind = bind
    Expiring = {}
    MaxRounds = 1
    MaxRetries = 1
    MaxXid = 5
    MaxSend = 2
    MaxNonce = 1
    ClientOf <- OneClient
SPECIFICATION FairSpec
INVARIANTS MutualExclusion HolderOwnsLock
PROPERTY AcquireSucceeds
CHECK_DEADLOCK FALSE
