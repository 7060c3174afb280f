CONSTANTS
    Workers = {w1, w2, w3}
    Jobs = {j1, j2, j3, j4}
    Destroyer = destroyer
    Pill = pill
    Capacity = 2
    Blocking = FALSE
SPECIFICATION FairSpec
INVARIANTS EnoughAwake ShutdownDrains
PROPERTIES QueuedJobStarts DestructorReturns
CHECK_DEADLOCK FALSE
