------------------------------ MODULE ThrPool ------------------------------
(***************************************************************************)
(* ThrPool (rpc/thr_pool.cc) and the queue under it, fifo (rpc/fifo.h):    *)
(* threads that add jobs, the workers that execute them, and the           *)
(* destructor, which queues one poison pill per worker and joins them.     *)
(*                                                                         *)
(* enq and deq are critical sections under fifo::m_, split where           *)
(* pthread_cond_wait gives the mutex up.  A thread is asleep in a          *)
(* condition variable, or "woken" by a signal (or without one) and on its  *)
(* way back to the mutex.                                                  *)
(*                                                                         *)
(* As the destructor's comment demands, nobody uses the pool any more when *)
(* it starts: ~rpcs deletes the listener, and with it all connections,     *)
(* first.  A job may run for ever: a handler may block.                    *)
(***************************************************************************)
EXTENDS Integers, FiniteSets, Sequences

CONSTANTS
    Workers,    \* the threads of the pool (nthreads_ of them)
    Jobs,       \* jobs, each added at most once, by a thread of its own
    Destroyer,  \* the thread that runs the destructor
    Pill,       \* the job with f == NULL
    Capacity,   \* fifo::max_, 100 per worker; 0 means no limit
    Blocking    \* blockadd_

ASSUME PillAssumption == Pill \notin Jobs /\ Destroyer \notin Jobs

ASSUME CapacityAssumption == Capacity \in Nat /\ Blocking \in BOOLEAN

ASSUME WorkersAssumption == IsFiniteSet(Workers) /\ Workers # {}

VARIABLES
    q,          \* fifo::q_
    worker,     \* worker[w]: where the worker is, and its job while it runs one
    adder,      \* adder[e]: where the thread that adds job e, or the destructor, is
    pills,      \* how many pills the destructor has queued
    dtor,       \* the destructor
    runs        \* history: how often each job was started

vars == <<q, worker, adder, pills, dtor, runs>>

Items == Jobs \cup {Pill}

Adders == Jobs \cup {Destroyer}

TypeOK ==
    /\ q \in Seq(Items)
    /\ Capacity > 0 => Len(q) <= Capacity
    /\ worker \in [Workers -> [at : {"deq", "asleep", "woken", "exited"}] \cup
                              [at : {"running"}, job : Jobs]]
    /\ adder \in [Adders -> {"idle", "enq", "asleep", "woken", "added", "refused"}]
    /\ pills \in 0 .. Cardinality(Workers)
    /\ dtor \in {"none", "pills", "joining", "done"}
    /\ runs \in [Jobs -> Nat]

Init ==
    /\ q = <<>>
    /\ worker = [w \in Workers |-> [at |-> "deq"]]
    /\ adder = [e \in Adders |-> "idle"]
    /\ pills = 0
    /\ dtor = "none"
    /\ runs = [j \in Jobs |-> 0]

-----------------------------------------------------------------------------
(* fifo *)

Asleep == {w \in Workers : worker[w].at = "asleep"}

HasSpace == Capacity = 0 \/ Len(q) < Capacity

\* pthread_cond_signal(&non_empty_c_).
Bug_SignalNonEmpty ==
    IF q # <<>> \/ Asleep = {} THEN UNCHANGED worker
    ELSE \E w \in Asleep : worker' = [worker EXCEPT ![w].at = "woken"]

SignalNonEmpty ==
    IF Asleep = {} THEN UNCHANGED worker
    ELSE \E w \in Asleep : worker' = [worker EXCEPT ![w].at = "woken"]

\* enq by thread e with an item, from its entry or from a wait.
enq(e, item, blocking) ==
    /\ adder[e] \in {"enq", "woken"}
    /\ IF HasSpace
       THEN /\ q' = Append(q, item)
            /\ adder' = [adder EXCEPT ![e] = "added"]
            /\ SignalNonEmpty
       ELSE /\ adder' = [adder EXCEPT ![e] = IF blocking THEN "asleep" ELSE "refused"]
            /\ UNCHANGED <<q, worker>>

\* pthread_cond_signal(&has_space_c_) after a pop, which made space.
Bug_SignalHasSpace == UNCHANGED adder

SignalHasSpace ==
    LET waiting == {e \in Adders : adder[e] = "asleep"} IN
    IF Capacity = 0 \/ waiting = {} THEN UNCHANGED adder
    ELSE \E e \in waiting : adder' = [adder EXCEPT ![e] = "woken"]

\* Which item of the queue deq takes, and what it leaves.
Bug_NextItem == [item |-> q[Len(q)], rest |-> SubSeq(q, 1, Len(q) - 1)]

NextItem == [item |-> Head(q), rest |-> Tail(q)]

\* takeJob: deq, from its entry or from a wait; a pill ends the worker.
takeJob(w) ==
    /\ worker[w].at \in {"deq", "woken"}
    /\ IF q = <<>>
       THEN /\ worker' = [worker EXCEPT ![w] = [at |-> "asleep"]]
            /\ UNCHANGED <<q, adder, runs>>
       ELSE LET job == NextItem.item IN
            /\ q' = NextItem.rest
            /\ SignalHasSpace
            /\ worker' = [worker EXCEPT ![w] = IF job = Pill THEN [at |-> "exited"]
                                               ELSE [at |-> "running", job |-> job]]
            /\ runs' = IF job = Pill THEN runs ELSE [runs EXCEPT ![job] = @ + 1]
    /\ UNCHANGED <<pills, dtor>>

\* The job's function returns, and do_worker takes the next job.
JobDone(w) ==
    /\ worker[w].at = "running"
    /\ worker' = [worker EXCEPT ![w] = [at |-> "deq"]]
    /\ UNCHANGED <<q, adder, pills, dtor, runs>>

\* pthread_cond_wait may return although nobody signalled.
SpuriousWake ==
    \/ /\ \E w \in Asleep : worker' = [worker EXCEPT ![w].at = "woken"]
       /\ UNCHANGED <<q, adder, pills, dtor, runs>>
    \/ /\ \E e \in Adders : adder[e] = "asleep" /\ adder' = [adder EXCEPT ![e] = "woken"]
       /\ UNCHANGED <<q, worker, pills, dtor, runs>>

-----------------------------------------------------------------------------
(* ThrPool *)

\* A thread calls addJob.
CallAddJob(j) ==
    /\ dtor = "none"
    /\ adder[j] = "idle"
    /\ adder' = [adder EXCEPT ![j] = "enq"]
    /\ UNCHANGED <<q, worker, pills, dtor, runs>>

addJob(j) == enq(j, j, Blocking) /\ UNCHANGED <<pills, dtor, runs>>

\* The destructor is called when no thread is inside addJob.
Destroy ==
    /\ dtor = "none"
    /\ \A j \in Jobs : adder[j] \in {"idle", "added", "refused"}
    /\ dtor' = "pills"
    /\ adder' = [adder EXCEPT ![Destroyer] = "enq"]
    /\ UNCHANGED <<q, worker, pills, runs>>

\* jobq_.enq(j) with a poison pill.
EnqPill == enq(Destroyer, Pill, TRUE) /\ UNCHANGED <<pills, dtor, runs>>

\* The loop around it, one pill for every worker, and then the joins.
NextPill ==
    /\ dtor = "pills"
    /\ adder[Destroyer] = "added"
    /\ pills' = pills + 1
    /\ IF pills' < Cardinality(Workers)
       THEN adder' = [adder EXCEPT ![Destroyer] = "enq"] /\ UNCHANGED dtor
       ELSE dtor' = "joining" /\ UNCHANGED adder
    /\ UNCHANGED <<q, worker, runs>>

\* pthread_join of all workers.
Join ==
    /\ dtor = "joining"
    /\ \A w \in Workers : worker[w].at = "exited"
    /\ dtor' = "done"
    /\ UNCHANGED <<q, worker, adder, pills, runs>>

DestructorStep == EnqPill \/ NextPill \/ Join

Next ==
    \/ \E j \in Jobs : CallAddJob(j) \/ addJob(j)
    \/ \E w \in Workers : takeJob(w) \/ JobDone(w)
    \/ SpuriousWake
    \/ Destroy
    \/ DestructorStep

Spec == Init /\ [][Next]_vars

\* Threads are scheduled.  A job need not end.
Fairness ==
    /\ \A j \in Jobs : WF_vars(addJob(j))
    /\ \A w \in Workers : WF_vars(takeJob(w))
    /\ WF_vars(DestructorStep)

FairSpec == Spec /\ Fairness

-----------------------------------------------------------------------------
(* Properties *)

Awake == {w \in Workers : worker[w].at \in {"deq", "woken"}}

\* No wakeup is lost: while a worker sleeps, there are as many workers on their
\* way to the queue as items in it.  One signal per enq is enough although
\* workers that never slept take items meant for a woken one.
EnoughAwake == Asleep # {} => Cardinality(Awake) >= Len(q)

\* Shutdown drains the pool: when the destructor returns, every job whose addJob
\* returned true has been executed, once, nothing is left in the queue, and no
\* job that was refused was executed.
ShutdownDrains ==
    dtor = "done" =>
        /\ q = <<>>
        /\ \A j \in Jobs : runs[j] = (IF adder[j] = "added" THEN 1 ELSE 0)

Queued(j) == \E i \in DOMAIN q : q[i] = j

\* A queued job is started, also when other jobs never end, as long as not
\* every worker is busy: a blocked grant delays a release only when blocked
\* handlers fill the whole pool.
QueuedJobStarts ==
    \A j \in Jobs :
        Queued(j) ~> (~Queued(j) \/ \A w \in Workers : worker[w].at = "running")

\* The destructor returns if jobs end, although the queue may be too full for
\* the pills.
DestructorReturns ==
    (\A w \in Workers : []<>(worker[w].at # "running")) =>
        ((dtor = "pills") ~> (dtor = "done"))
=============================================================================
