CONSTANTS
    MaxXid = 4
    MaxTimes = 2
    Base = 4
    DEFAULT_RPC_SZ = 25
    MsPerSec = 3
    NsPerMs = 2
    MaxSec = 1
    MaxTo = 7
SPECIFICATION DataSpec
INVARIANTS FrontIsXidRep ListHoldsTheRest ListImplementsWindow
    ExchangeIsExact MismatchIsRefused DeadlineIsExact
CHECK_DEADLOCK FALSE
