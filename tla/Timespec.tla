------------------------------ MODULE Timespec ------------------------------
(***************************************************************************)
(* Time arithmetic of the RPC client (the end of rpc.cc) and the deadlines *)
(* that call1 computes with it.  A timespec counts seconds and nanoseconds;*)
(* timeouts are in milliseconds.  The units are parameters, so that a      *)
(* small clock can be checked completely.                                  *)
(***************************************************************************)
EXTENDS Integers

CONSTANTS
    MsPerSec,       \* 1000
    NsPerMs,        \* 1000000
    MaxSec,         \* bound: the last second of the clock
    MaxTo           \* bound: the longest timeout (to_max is 120000)

ASSUME UnitsAssumption ==
    /\ MsPerSec \in Nat \ {0}
    /\ NsPerMs \in Nat \ {0}
    /\ MaxSec \in Nat
    /\ MaxTo \in Nat

NsPerSec == MsPerSec * NsPerMs

\* What clock_gettime returns.
Clock == [tv_sec : 0 .. MaxSec, tv_nsec : 0 .. NsPerSec - 1]

Timeouts == 0 .. MaxTo

Bug_Turns(ns) == 0

\* How often while (tv_nsec > 1000000000) carries a second.
Turns(ns) ==
    CHOOSE k \in 0 .. ns :
        /\ ns - k * NsPerSec <= NsPerSec
        /\ \A j \in 0 .. k - 1 : ns - j * NsPerSec > NsPerSec

add_timespec(a, b) ==
    LET ns == a.tv_nsec + (b % MsPerSec) * NsPerMs
    IN  [tv_sec  |-> a.tv_sec + b \div MsPerSec + Turns(ns),
         tv_nsec |-> ns - Turns(ns) * NsPerSec]

Sign(n) == IF n > 0 THEN 1 ELSE IF n < 0 THEN -1 ELSE 0

cmp_timespec(a, b) ==
    IF a.tv_sec # b.tv_sec THEN Sign(a.tv_sec - b.tv_sec) ELSE Sign(a.tv_nsec - b.tv_nsec)

\* One turn of the loop of call1: wait for curr_to, or until finaldeadline, and
\* then it is the last turn (finaldeadline.tv_sec = 0).
NextDeadline(now, curr_to, finaldeadline) ==
    LET nextdeadline == add_timespec(now, curr_to) IN
    IF cmp_timespec(nextdeadline, finaldeadline) > 0
    THEN [at |-> finaldeadline, last |-> TRUE]
    ELSE [at |-> nextdeadline, last |-> FALSE]

-----------------------------------------------------------------------------
\* The moment a timespec stands for.
Moment(t) == t.tv_sec * NsPerSec + t.tv_nsec

\* pthread_cond_timedwait takes it; otherwise it returns EINVAL at once, and the
\* inner loop of call1, which only leaves on ETIMEDOUT, spins with ca.m locked.
Accepted(t) == t.tv_nsec < NsPerSec

\* In the loop of a call that was made at start with the timeout to, the deadline
\* of a turn names the earlier of the two moments, and the turn is the last one if
\* it would go beyond finaldeadline.  This is the arithmetic: whether the deadline
\* is then waited for is a matter of Accepted.
TurnIsExact(start, now, to, curr_to) ==
    LET turn == NextDeadline(now, curr_to, add_timespec(start, to))
        next == Moment(now) + curr_to * NsPerMs
        final == Moment(start) + to * NsPerMs
    IN  /\ Moment(turn.at) = IF next < final THEN next ELSE final
        /\ next < final => ~turn.last
        /\ next > final => turn.last

\* The deadline of the turn is refused only if it is a full second.
RefusedAtFullSecond(start, now, to, curr_to) ==
    LET turn == NextDeadline(now, curr_to, add_timespec(start, to))
    IN  Accepted(turn.at) \/ Moment(turn.at) % NsPerSec = 0
=============================================================================
