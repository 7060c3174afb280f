CONSTANTS
    Clients = {c1}
    Threads = {t1}
    Bind = bind
    Ops = {op}
    Cancelling = {c1}
    MaxXid = 3
    MaxRetries = 2
    MaxSend = 2
    MaxNonce = 1
SPECIFICATION FairSpec
PROPERTIES CallsReturn CancelReturns
CHECK_DEADLOCK FALSE
