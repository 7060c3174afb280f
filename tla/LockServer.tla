----------------------------- MODULE LockServer -----------------------------
(***************************************************************************)
(* lock_server (lock_server.cc, lock_server.h) and class lock              *)
(* (lock_protocol.h): the handlers grant, release and stat, run by the     *)
(* threads of the RPC dispatch pool.                                       *)
(*                                                                         *)
(* Every handler does its work between pthread_mutex_lock(&mutex) and      *)
(* pthread_mutex_unlock(&mutex); such a critical section is one action.    *)
(* The only place where a handler gives the mutex up in the middle is      *)
(* pthread_cond_wait in grant, which splits grant into the actions         *)
(* GrantEnter (up to the first wait) and GrantWake (from a wait to the     *)
(* next wait or to the end).  A thread in a condition variable's wait set  *)
(* is "waiting"; a signalled (or spuriously woken) one that has not yet    *)
(* regained the mutex is "woken".                                          *)
(*                                                                         *)
(* nacquire is 0 for ever, so the result r of every handler, and the       *)
(* status OK it always returns, carry no information and are left out.     *)
(***************************************************************************)
CONSTANTS
    Clients,    \* client ids, the argument clt of the handlers
    LockIds,    \* lock ids, the argument lid of the handlers
    Threads,    \* the threads of the dispatch pool that run handlers
    NoClient    \* 0, the clt of a lock that is free

ASSUME ClientAssumption == NoClient \notin Clients

VARIABLES
    mapLocks,   \* mapLocks[lid]: absent from the map, or the lock object
    thread,     \* thread[t]: the handler call that thread t executes
    crashed     \* the process died on a null pointer

vars == <<mapLocks, thread, crashed>>

Ops == {"acquire", "release", "stat"}

Absent == [state |-> "absent", clt |-> NoClient]

\* class lock: a free lock has no clt, a locked one has.
Lock == [state : {"free"}, clt : {NoClient}] \cup [state : {"locked"}, clt : Clients]

Idle == [at |-> "idle"]

Handler == [at : {"entered", "waiting", "woken", "returned"},
            op : Ops, clt : Clients, lid : LockIds]

TypeOK ==
    /\ mapLocks \in [LockIds -> Lock \cup {Absent}]
    /\ thread \in [Threads -> Handler \cup {Idle}]
    /\ crashed \in BOOLEAN

Init ==
    /\ mapLocks = [l \in LockIds |-> Absent]
    /\ thread = [t \in Threads |-> Idle]
    /\ crashed = FALSE

-----------------------------------------------------------------------------
(* class lock *)

Is_Locked(l) == mapLocks[l].state = "locked"

\* A new lock is created free (constructor) and Set_Locked at once, so an
\* absent lock is as available to grant as a free one.
Set_Locked(l, clt) == mapLocks' = [mapLocks EXCEPT ![l] = [state |-> "locked", clt |-> clt]]

Bug_Set_Free(l) == mapLocks' = [mapLocks EXCEPT ![l].state = "free"]

Set_Free(l) == mapLocks' = [mapLocks EXCEPT ![l] = [state |-> "free", clt |-> NoClient]]

-----------------------------------------------------------------------------
(* Handler calls *)

MoveTo(t, where) == thread' = [thread EXCEPT ![t].at = where]

\* rpcs::dispatch calls the handler, which then asks for the mutex.
Invoke(t, op, clt, lid) ==
    /\ ~crashed
    /\ thread[t].at = "idle"
    /\ thread' = [thread EXCEPT ![t] = [at |-> "entered", op |-> op, clt |-> clt, lid |-> lid]]
    /\ UNCHANGED <<mapLocks, crashed>>

\* The loop of grant: wait while the lock is locked, then take it.
Bug_TakeOrWait(t) ==
    LET lid == thread[t].lid IN
    IF Is_Locked(lid) /\ thread[t].at = "entered"
        THEN /\ MoveTo(t, "waiting")
             /\ UNCHANGED mapLocks
        ELSE /\ MoveTo(t, "returned")
             /\ IF Is_Locked(lid) THEN UNCHANGED mapLocks ELSE Set_Locked(lid, thread[t].clt)

TakeOrWait(t) ==
    LET lid == thread[t].lid IN
    IF Is_Locked(lid)
        THEN /\ MoveTo(t, "waiting")
             /\ UNCHANGED mapLocks
        ELSE /\ MoveTo(t, "returned")
             /\ Set_Locked(lid, thread[t].clt)

\* grant, from its entry to the end or to the first pthread_cond_wait.
GrantEnter(t) ==
    /\ ~crashed
    /\ thread[t].at = "entered"
    /\ thread[t].op = "acquire"
    /\ TakeOrWait(t)
    /\ UNCHANGED crashed

\* grant, from the return of pthread_cond_wait to the end or to the next wait.
GrantWake(t) ==
    /\ ~crashed
    /\ thread[t].at = "woken"
    /\ TakeOrWait(t)
    /\ UNCHANGED crashed

\* pthread_cond_wait may return although nobody signalled.
SpuriousWake(t) ==
    /\ ~crashed
    /\ thread[t].at = "waiting"
    /\ MoveTo(t, "woken")
    /\ UNCHANGED <<mapLocks, crashed>>

Waiters(l) == {w \in Threads : thread[w].at = "waiting" /\ thread[w].lid = l}

\* pthread_cond_signal on cond_lock by thread t, which is about to return: if
\* threads wait, one of them wakes up.
Bug_SignalAndReturn(t) == MoveTo(t, "returned")

SignalAndReturn(t) ==
    LET lid == thread[t].lid IN
    \/ /\ Waiters(lid) = {}
       /\ MoveTo(t, "returned")
    \/ \E w \in Waiters(lid) :
           thread' = [thread EXCEPT ![t].at = "returned",
                                    ![w].at = "woken"]

\* release by the owner of a locked lock.
ReleaseOwned(t) ==
    /\ ~crashed
    /\ thread[t].at = "entered"
    /\ thread[t].op = "release"
    /\ Is_Locked(thread[t].lid)
    /\ mapLocks[thread[t].lid].clt = thread[t].clt
    /\ Set_Free(thread[t].lid)
    /\ SignalAndReturn(t)
    /\ UNCHANGED crashed

\* release by another client, or of a lock that is free: prints an error and
\* returns OK.
Bug_ReleaseRefused(t) ==
    /\ ~crashed
    /\ thread[t].at = "entered"
    /\ thread[t].op = "release"
    /\ mapLocks[thread[t].lid] # Absent
    /\ mapLocks[thread[t].lid].clt # thread[t].clt
    /\ Set_Free(thread[t].lid)
    /\ SignalAndReturn(t)
    /\ UNCHANGED crashed

ReleaseRefused(t) ==
    /\ ~crashed
    /\ thread[t].at = "entered"
    /\ thread[t].op = "release"
    /\ mapLocks[thread[t].lid] # Absent
    /\ ~(Is_Locked(thread[t].lid) /\ mapLocks[thread[t].lid].clt = thread[t].clt)
    /\ MoveTo(t, "returned")
    /\ UNCHANGED <<mapLocks, crashed>>

\* release of a lock that nobody ever acquired: mapLocks[lid] inserts a null
\* pointer, and Is_Locked() on it dereferences it.
ReleaseAbsent(t) ==
    /\ ~crashed
    /\ thread[t].at = "entered"
    /\ thread[t].op = "release"
    /\ mapLocks[thread[t].lid] = Absent
    /\ crashed' = TRUE
    /\ UNCHANGED <<mapLocks, thread>>

\* stat reads nacquire without the mutex.
Stat(t) ==
    /\ ~crashed
    /\ thread[t].at = "entered"
    /\ thread[t].op = "stat"
    /\ MoveTo(t, "returned")
    /\ UNCHANGED <<mapLocks, crashed>>

\* The handler returns to rpcs::dispatch.
Return(t) ==
    /\ ~crashed
    /\ thread[t].at = "returned"
    /\ thread' = [thread EXCEPT ![t] = Idle]
    /\ UNCHANGED <<mapLocks, crashed>>

\* The steps a thread takes by itself once a handler was called.
HandlerStep(t) ==
    \/ GrantEnter(t)
    \/ GrantWake(t)
    \/ ReleaseOwned(t)
    \/ ReleaseRefused(t)
    \/ ReleaseAbsent(t)
    \/ Stat(t)

Next ==
    \E t \in Threads :
        \/ \E op \in Ops, clt \in Clients, lid \in LockIds : Invoke(t, op, clt, lid)
        \/ HandlerStep(t)
        \/ SpuriousWake(t)
        \/ Return(t)

Spec == Init /\ [][Next]_vars

\* A handler that can run does run: threads are scheduled and the mutex is not
\* withheld for ever.  Nothing forces a client to call.
Fairness == \A t \in Threads : WF_vars(HandlerStep(t)) /\ WF_vars(Return(t))

FairSpec == Spec /\ Fairness

-----------------------------------------------------------------------------
(* Properties *)

Woken(l) == {w \in Threads : thread[w].at = "woken" /\ thread[w].lid = l}

\* No wakeup is lost: when a lock can be taken and threads wait for it, one of
\* the threads asleep in grant has been woken and is on its way to the mutex.
\* Barging acquires and spurious wakeups do not consume the signal of release.
NoLostWakeup ==
    \A l \in LockIds :
        (~Is_Locked(l) /\ Waiters(l) # {}) => Woken(l) # {}

\* A free lock with a thread in grant for it does not stay free: someone gets
\* it, unless a release of an unknown lock kills the server first.
WantedLockIsTaken ==
    \A l \in LockIds :
        (/\ ~Is_Locked(l)
         /\ \E t \in Threads :
                /\ thread[t].at \in {"entered", "waiting", "woken"}
                /\ thread[t].op = "acquire"
                /\ thread[t].lid = l)
        ~> (Is_Locked(l) \/ crashed)

\* The server implements the abstract lock: the owner is the clt of a locked
\* lock object, and a call has taken effect once its handler is returning.
ownerBar == [l \in LockIds |-> IF Is_Locked(l) THEN mapLocks[l].clt ELSE NoClient]

callBar ==
    [t \in Threads |->
        IF thread[t].at = "idle" THEN Idle
        ELSE [at |-> IF thread[t].at = "returned" THEN "done" ELSE "pending",
              op |-> thread[t].op, clt |-> thread[t].clt, lid |-> thread[t].lid]]

Abstract == INSTANCE LockSpec WITH Callers <- Threads, owner <- ownerBar, call <- callBar

\* grant returns only to a client that has just been made the owner of a lock
\* nobody held, and only the owner's release takes a lock away.
ImplementsLockSpec == Abstract!Spec
=============================================================================
