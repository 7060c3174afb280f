--------------------------- MODULE MCLockService ---------------------------
(* LockService for TLC: who shares a lock_client with whom.                 *)
EXTENDS LockService, TLC

\* Two application threads on one lock_client (test4 of lock_tester).
OneClient == [a \in AppThreads |-> CHOOSE c \in Clients : TRUE]

\* One lock_client per application thread (test2 and test3 of lock_tester).
OwnClient == CHOOSE f \in [AppThreads -> Clients] : \A a, b \in AppThreads : a # b => f[a] # f[b]

Symmetry == Permutations(Threads)
=============================================================================
