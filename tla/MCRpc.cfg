CONSTANTS
    Clients = {c1}
    Threads = {t1, t2}
    Bind = bind
    Ops = {op}
    Cancelling = {}
    MaxXid = 4
    MaxRetries = 1
    MaxSend = 2
    MaxNonce = 2
SPECIFICATION Spec
SYMMETRY Symmetry
INVARIANTS TypeOK AtMostOnce OkMeansExecuted NoReplyForgotten ForgottenOnlyAfterTimeout
CHECK_DEADLOCK FALSE
