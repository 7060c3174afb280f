CONSTANTS
    Clients = {c1}
    Threads = {t1, t2}
    Bind = bind
    Ops = {op}
    Cancelling = {}
    MaxXid = 3
    MaxRetries = 1
    MaxSend = 1
    MaxNonce = 1
SPECIFICATION Spec
SYMMETRY Symmetry
INVARIANT NoDanglingSend
CHECK_DEADLOCK FALSE
