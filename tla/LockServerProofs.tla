-------------------------- MODULE LockServerProofs --------------------------
(***************************************************************************)
(* Proofs about LockServer for any sets of clients, lock ids and threads.  *)
(***************************************************************************)
EXTENDS LockServer, TLAPS

\* Only an acquire sleeps in pthread_cond_wait.
SleepersAcquire ==
    \A t \in Threads :
        thread[t].at \in {"waiting", "woken"} => thread[t].op = "acquire"

IInv == TypeOK /\ SleepersAcquire /\ NoLostWakeup

-----------------------------------------------------------------------------
\* The state of the server has its type in every reachable state.
THEOREM TypeCorrect == Spec => []TypeOK
<1>1. Init => TypeOK
  BY DEF Init, TypeOK
<1>2. TypeOK /\ [Next]_vars => TypeOK'
  <2> SUFFICES ASSUME TypeOK, [Next]_vars PROVE TypeOK'
    OBVIOUS
  <2>1. CASE UNCHANGED vars
    BY <2>1 DEF vars, TypeOK
  <2>2. ASSUME NEW t \in Threads, NEW op \in Ops, NEW clt \in Clients, NEW lid \in LockIds,
               Invoke(t, op, clt, lid)
        PROVE TypeOK'
    BY <2>2 DEF TypeOK, Invoke, Handler
  <2>3. ASSUME NEW t \in Threads, TakeOrWait(t), thread[t] \in Handler, UNCHANGED crashed
        PROVE TypeOK'
    BY <2>3 DEF TypeOK, TakeOrWait, MoveTo, Handler, Set_Locked, Lock
  <2>4. ASSUME NEW t \in Threads, HandlerStep(t) PROVE TypeOK'
    <3>1. CASE GrantEnter(t)
      BY <2>3, <3>1 DEF GrantEnter, TypeOK, Idle
    <3>2. CASE GrantWake(t)
      BY <2>3, <3>2 DEF GrantWake, TypeOK, Idle
    <3>3. CASE ReleaseOwned(t)
      BY <3>3 DEF ReleaseOwned, SignalAndReturn, Waiters, MoveTo, Set_Free, TypeOK, Handler, Idle, Lock
    <3>4. CASE ReleaseRefused(t)
      BY <3>4 DEF ReleaseRefused, MoveTo, TypeOK, Handler, Idle
    <3>5. CASE ReleaseAbsent(t)
      BY <3>5 DEF ReleaseAbsent, TypeOK
    <3>6. CASE Stat(t)
      BY <3>6 DEF Stat, MoveTo, TypeOK, Handler, Idle
    <3> QED BY <2>4, <3>1, <3>2, <3>3, <3>4, <3>5, <3>6 DEF HandlerStep
  <2>5. ASSUME NEW t \in Threads, SpuriousWake(t) PROVE TypeOK'
    BY <2>5 DEF SpuriousWake, MoveTo, TypeOK, Handler, Idle
  <2>6. ASSUME NEW t \in Threads, Return(t) PROVE TypeOK'
    BY <2>6 DEF Return, TypeOK
  <2> QED BY <2>1, <2>2, <2>4, <2>5, <2>6 DEF Next
<1> QED BY <1>1, <1>2, PTL DEF Spec

\* What a step of a thread in the loop of grant does to the wait sets.
LEMMA TakeOrWaitKeepsInv ==
  ASSUME IInv, TypeOK', NEW t \in Threads, TakeOrWait(t),
         thread[t].at \in {"entered", "woken"}, thread[t].op = "acquire"
  PROVE SleepersAcquire' /\ NoLostWakeup'
<1> DEFINE lid == thread[t].lid
<1>0. thread[t] \in Handler
  BY DEF IInv, TypeOK, Idle
<1>1. CASE Is_Locked(lid)
  <2>1. thread' = [thread EXCEPT ![t].at = "waiting"] /\ mapLocks' = mapLocks
    BY <1>1 DEF TakeOrWait, MoveTo
  <2>2. SleepersAcquire'
    BY <1>0, <2>1 DEF IInv, SleepersAcquire, TypeOK, Handler
  <2>3. ASSUME NEW l \in LockIds, ~Is_Locked(l)', Waiters(l)' # {}
        PROVE  Woken(l)' # {}
    <3>1. l # lid
      BY <1>1, <2>1, <2>3 DEF Is_Locked
    <3>2. Waiters(l)' = Waiters(l) /\ Woken(l)' = Woken(l)
      BY <1>0, <2>1, <3>1 DEF Waiters, Woken, IInv, TypeOK, Handler
    <3> QED BY <2>1, <2>3, <3>2 DEF IInv, NoLostWakeup, Is_Locked
  <2> QED BY <2>2, <2>3 DEF NoLostWakeup
<1>2. CASE ~Is_Locked(lid)
  <2>1. /\ thread' = [thread EXCEPT ![t].at = "returned"]
        /\ mapLocks' = [mapLocks EXCEPT ![lid] = [state |-> "locked", clt |-> thread[t].clt]]
    BY <1>2 DEF TakeOrWait, MoveTo, Set_Locked
  <2>2. SleepersAcquire'
    BY <1>0, <2>1 DEF IInv, SleepersAcquire, TypeOK, Handler
  <2>3. ASSUME NEW l \in LockIds, ~Is_Locked(l)', Waiters(l)' # {}
        PROVE  Woken(l)' # {}
    <3>1. l # lid /\ ~Is_Locked(l)
      BY <1>0, <2>1, <2>3 DEF Is_Locked, IInv, TypeOK, Handler
    <3>2. Waiters(l)' = Waiters(l) /\ Woken(l)' = Woken(l)
      BY <1>0, <2>1, <3>1 DEF Waiters, Woken, IInv, TypeOK, Handler
    <3> QED BY <2>3, <3>1, <3>2 DEF IInv, NoLostWakeup
  <2> QED BY <2>2, <2>3 DEF NoLostWakeup
<1> QED BY <1>1, <1>2

\* The owner's release frees the lock and wakes one of its waiters.
LEMMA ReleaseOwnedKeepsInv ==
  ASSUME IInv, NEW t \in Threads, ReleaseOwned(t)
  PROVE SleepersAcquire' /\ NoLostWakeup'
<1> DEFINE lid == thread[t].lid
<1>0. thread[t] \in Handler /\ thread[t].at = "entered" /\ thread[t].op = "release"
  BY DEF IInv, TypeOK, Idle, ReleaseOwned
<1>1. \A l \in LockIds : l # lid => mapLocks'[l] = mapLocks[l]
  BY DEF ReleaseOwned, Set_Free, IInv, TypeOK
<1>2. CASE Waiters(lid) = {} /\ MoveTo(t, "returned")
  <2>1. thread' = [thread EXCEPT ![t].at = "returned"]
    BY <1>2 DEF MoveTo
  <2>2. \A l \in LockIds : Waiters(l)' = Waiters(l) /\ Woken(l)' = Woken(l)
    BY <1>0, <2>1 DEF Waiters, Woken, IInv, TypeOK, Handler
  <2>3. SleepersAcquire'
    BY <1>0, <2>1 DEF IInv, SleepersAcquire, TypeOK, Handler
  <2>4. NoLostWakeup'
    BY <1>1, <1>2, <2>2 DEF NoLostWakeup, IInv, Is_Locked
  <2> QED BY <2>3, <2>4
<1>3. ASSUME NEW w \in Waiters(lid),
             thread' = [thread EXCEPT ![t].at = "returned", ![w].at = "woken"]
      PROVE  SleepersAcquire' /\ NoLostWakeup'
  <2>0. w \in Threads /\ w # t /\ thread[w] \in Handler /\ thread[w].lid = lid
    BY <1>0 DEF Waiters, IInv, TypeOK, Idle
  <2>1. SleepersAcquire'
    BY <1>0, <1>3, <2>0 DEF IInv, SleepersAcquire, TypeOK, Handler, Waiters
  <2>2. \A l \in LockIds : l = lid => w \in Woken(l)'
    BY <1>0, <1>3, <2>0 DEF Woken, IInv, TypeOK, Handler
  <2>3. \A l \in LockIds : l # lid => Waiters(l)' = Waiters(l) /\ Woken(l)' = Woken(l)
    BY <1>0, <1>3, <2>0 DEF Waiters, Woken, IInv, TypeOK, Handler
  <2>4. NoLostWakeup'
    BY <1>1, <2>2, <2>3 DEF NoLostWakeup, IInv, Is_Locked
  <2> QED BY <2>1, <2>4
<1> QED BY <1>2, <1>3 DEF ReleaseOwned, SignalAndReturn

\* A step that leaves the locks alone and moves a thread that does not sleep to
\* a place where it does not sleep either keeps the wait sets as they are.
LEMMA AwakeStepKeepsInv ==
  ASSUME IInv, TypeOK', NEW t \in Threads, UNCHANGED mapLocks,
         \A u \in Threads \ {t} : thread'[u] = thread[u],
         thread[t].at \notin {"waiting", "woken"},
         thread'[t].at \notin {"waiting", "woken"}
  PROVE SleepersAcquire' /\ NoLostWakeup'
<1>1. SleepersAcquire'
  BY DEF IInv, SleepersAcquire
<1>2. \A l \in LockIds : Waiters(l)' = Waiters(l) /\ Woken(l)' = Woken(l)
  BY DEF Waiters, Woken
<1>3. NoLostWakeup'
  BY <1>2 DEF IInv, NoLostWakeup, Is_Locked
<1> QED BY <1>1, <1>3

\* The inductive invariant: types, sleepers are acquires, no wakeup is lost.
LEMMA InductiveInvariant == Spec => []IInv
<1>1. Init => IInv
  <2> SUFFICES ASSUME Init PROVE IInv
    OBVIOUS
  <2>1. \A t \in Threads : thread[t].at = "idle"
    BY DEF Init, Idle
  <2>2. \A l \in LockIds : Waiters(l) = {}
    BY <2>1 DEF Waiters
  <2> QED BY <2>1, <2>2 DEF Init, IInv, TypeOK, SleepersAcquire, NoLostWakeup
<1>2. TypeOK' /\ IInv /\ [Next]_vars => IInv'
  <2> SUFFICES ASSUME TypeOK', IInv, [Next]_vars PROVE SleepersAcquire' /\ NoLostWakeup'
    BY DEF IInv
  <2>1. CASE UNCHANGED vars
    BY <2>1 DEF vars, IInv, SleepersAcquire, NoLostWakeup, Waiters, Woken, Is_Locked
  <2>2. ASSUME NEW t \in Threads, NEW op \in Ops, NEW clt \in Clients, NEW lid \in LockIds,
               Invoke(t, op, clt, lid)
        PROVE SleepersAcquire' /\ NoLostWakeup'
    BY <2>2, AwakeStepKeepsInv DEF Invoke, IInv, TypeOK
  <2>3. ASSUME NEW t \in Threads, HandlerStep(t) PROVE SleepersAcquire' /\ NoLostWakeup'
    <3>1. CASE GrantEnter(t)
      BY <3>1, TakeOrWaitKeepsInv DEF GrantEnter
    <3>2. CASE GrantWake(t)
      BY <3>2, TakeOrWaitKeepsInv DEF GrantWake, IInv, SleepersAcquire
    <3>3. CASE ReleaseOwned(t)
      BY <3>3, ReleaseOwnedKeepsInv
    <3>4. CASE ReleaseRefused(t) \/ Stat(t)
      <4>1. thread[t] \in Handler
        BY <3>4 DEF ReleaseRefused, Stat, IInv, TypeOK, Idle
      <4>2. /\ thread[t].at = "entered" /\ UNCHANGED mapLocks
            /\ thread' = [thread EXCEPT ![t].at = "returned"]
        BY <3>4 DEF ReleaseRefused, Stat, MoveTo
      <4>3. thread'[t].at = "returned" /\ \A u \in Threads \ {t} : thread'[u] = thread[u]
        BY <4>1, <4>2 DEF IInv, TypeOK, Handler
      <4> QED BY <4>2, <4>3, AwakeStepKeepsInv
    <3>5. CASE ReleaseAbsent(t)
      BY <3>5, AwakeStepKeepsInv DEF ReleaseAbsent
    <3> QED BY <2>3, <3>1, <3>2, <3>3, <3>4, <3>5 DEF HandlerStep
  <2>4. ASSUME NEW t \in Threads, SpuriousWake(t) PROVE SleepersAcquire' /\ NoLostWakeup'
    <3>1. /\ thread[t] \in Handler /\ thread[t].at = "waiting" /\ mapLocks' = mapLocks
          /\ thread' = [thread EXCEPT ![t].at = "woken"]
      BY <2>4 DEF SpuriousWake, MoveTo, IInv, TypeOK, Idle
    <3>2. SleepersAcquire'
      BY <3>1 DEF IInv, SleepersAcquire, TypeOK, Handler
    <3>3. \A l \in LockIds : Waiters(l)' \subseteq Waiters(l) /\ Woken(l) \subseteq Woken(l)'
      BY <3>1 DEF Waiters, Woken, IInv, TypeOK, Handler
    <3>4. NoLostWakeup'
      BY <3>1, <3>3 DEF IInv, NoLostWakeup, Is_Locked
    <3> QED BY <3>2, <3>4
  <2>5. ASSUME NEW t \in Threads, Return(t) PROVE SleepersAcquire' /\ NoLostWakeup'
    BY <2>5, AwakeStepKeepsInv DEF Return, IInv, TypeOK, Idle
  <2> QED BY <2>1, <2>2, <2>3, <2>4, <2>5 DEF Next
<1> QED BY <1>1, <1>2, TypeCorrect, PTL DEF Spec

\* No wakeup is lost, however many threads wait and whoever barges in between:
\* a lock that can be taken and has sleepers has one that is awake.
THEOREM NoLostWakeupHolds == Spec => []NoLostWakeup
<1>1. IInv => NoLostWakeup
  BY DEF IInv
<1> QED BY <1>1, InductiveInvariant, PTL

\* A handler that moves to its return is a call that takes effect.
LEMMA ReturningIsDone ==
  ASSUME TypeOK, NEW t \in Threads, thread[t] \in Handler, MoveTo(t, "returned")
  PROVE callBar' = [callBar EXCEPT ![t].at = "done"]
<1>1. thread' = [thread EXCEPT ![t].at = "returned"]
  BY DEF MoveTo
<1>2. thread[t].at # "idle" /\ DOMAIN thread = Threads
  BY DEF TypeOK, Handler
<1> QED BY <1>1, <1>2 DEF callBar, Handler

\* Locking a lock object makes its client the owner.
LEMMA LockedIsOwned ==
  ASSUME TypeOK, NEW lid \in LockIds, NEW clt \in Clients, Set_Locked(lid, clt)
  PROVE ownerBar' = [ownerBar EXCEPT ![lid] = clt]
<1>1. mapLocks' = [mapLocks EXCEPT ![lid] = [state |-> "locked", clt |-> clt]]
  BY DEF Set_Locked
<1>2. \A l \in LockIds : ownerBar'[l] = IF l = lid THEN clt ELSE ownerBar[l]
  BY <1>1 DEF ownerBar, Is_Locked, TypeOK
<1> QED BY <1>2 DEF ownerBar

\* The handlers implement the abstract blocking lock of LockSpec: grant returns
\* only after it took a lock that nobody held, and only a release by the owner
\* takes a lock away, whatever the interleaving of the pool's threads.
THEOREM Refinement == Spec => ImplementsLockSpec
<1> USE ClientAssumption
<1>1. Init => Abstract!Init
  BY DEF Init, Abstract!Init, ownerBar, callBar, Absent, Idle, Is_Locked, Abstract!NoCall
<1>2. IInv /\ [Next]_vars => [Abstract!Next]_(Abstract!avars)
  <2> SUFFICES ASSUME IInv, [Next]_vars PROVE [Abstract!Next]_(Abstract!avars)
    OBVIOUS
  <2>1. CASE UNCHANGED vars
    BY <2>1 DEF vars, Abstract!avars, ownerBar, callBar, Is_Locked
  <2>2. ASSUME NEW t \in Threads, NEW op \in Ops, NEW clt \in Clients, NEW lid \in LockIds,
               Invoke(t, op, clt, lid)
        PROVE Abstract!Next
    <3>1. ownerBar' = ownerBar
      BY <2>2 DEF Invoke, ownerBar, Is_Locked
    <3>2. callBar' = [callBar EXCEPT ![t] = [at |-> "pending", op |-> op, clt |-> clt, lid |-> lid]]
      BY <2>2 DEF Invoke, callBar, IInv, TypeOK
    <3>3. callBar[t].at = "idle"
      BY <2>2 DEF Invoke, callBar, Idle
    <3>4. Abstract!Invoke(t, op, clt, lid)
      BY <3>1, <3>2, <3>3 DEF Abstract!Invoke
    <3> QED BY <3>4 DEF Abstract!Next, Abstract!Ops, Ops
  <2>3. ASSUME NEW t \in Threads, TakeOrWait(t), thread[t] \in Handler,
               thread[t].at \in {"entered", "woken"}, thread[t].op = "acquire"
        PROVE [Abstract!Next]_(Abstract!avars)
    <3> DEFINE lid == thread[t].lid
    <3>1. CASE Is_Locked(lid)
      <4>1. ownerBar' = ownerBar
        BY <2>3, <3>1 DEF TakeOrWait, ownerBar, Is_Locked
      <4>2. callBar' = callBar
        BY <2>3, <3>1 DEF TakeOrWait, MoveTo, callBar, IInv, TypeOK, Handler
      <4> QED BY <4>1, <4>2 DEF Abstract!avars
    <3>2. CASE ~Is_Locked(lid)
      <4>1. ownerBar[lid] = NoClient
        BY <2>3, <3>2 DEF ownerBar, Handler
      <4>2. ownerBar' = [ownerBar EXCEPT ![lid] = thread[t].clt]
        <5>1. Set_Locked(lid, thread[t].clt) /\ lid \in LockIds /\ thread[t].clt \in Clients
          BY <2>3, <3>2 DEF TakeOrWait, Handler
        <5> QED BY <5>1, LockedIsOwned DEF IInv
      <4>3. callBar' = [callBar EXCEPT ![t].at = "done"]
        BY <2>3, <3>2, ReturningIsDone DEF TakeOrWait, IInv
      <4>4. callBar[t] = [at |-> "pending", op |-> "acquire", clt |-> thread[t].clt, lid |-> lid]
        BY <2>3 DEF callBar, Handler
      <4>5. Abstract!TakeEffectAcquire(t)
        BY <4>1, <4>2, <4>3, <4>4 DEF Abstract!TakeEffectAcquire, Abstract!Done
      <4> QED BY <4>5 DEF Abstract!Next
    <3> QED BY <3>1, <3>2
  <2>4. ASSUME NEW t \in Threads, ReleaseOwned(t) PROVE Abstract!Next
    <3> DEFINE lid == thread[t].lid
    <3>1. thread[t] \in Handler /\ thread[t].at = "entered" /\ thread[t].op = "release"
      BY <2>4 DEF ReleaseOwned, IInv, TypeOK, Idle
    <3>2. ownerBar[lid] = thread[t].clt
      BY <2>4, <3>1 DEF ReleaseOwned, ownerBar, Handler
    <3>3. ownerBar' = [ownerBar EXCEPT ![lid] = NoClient]
      BY <2>4, <3>1 DEF ReleaseOwned, Set_Free, ownerBar, Is_Locked, IInv, TypeOK, Handler
    <3>4. callBar' = [callBar EXCEPT ![t].at = "done"]
      <4>1. CASE MoveTo(t, "returned")
        BY <3>1, <4>1, ReturningIsDone DEF IInv
      <4>2. ASSUME NEW w \in Waiters(lid),
                   thread' = [thread EXCEPT ![t].at = "returned", ![w].at = "woken"]
            PROVE  callBar' = [callBar EXCEPT ![t].at = "done"]
        <5>1. w \in Threads /\ w # t /\ thread[w] \in Handler /\ thread[w].at = "waiting"
          BY <3>1 DEF Waiters, IInv, TypeOK, Idle
        <5> QED BY <3>1, <4>2, <5>1 DEF callBar, IInv, TypeOK, Handler
      <4> QED BY <2>4, <4>1, <4>2 DEF ReleaseOwned, SignalAndReturn
    <3>5. callBar[t] = [at |-> "pending", op |-> "release", clt |-> thread[t].clt, lid |-> lid]
      BY <3>1 DEF callBar, Handler
    <3>6. Abstract!TakeEffectRelease(t)
      BY <3>2, <3>3, <3>4, <3>5 DEF Abstract!TakeEffectRelease, Abstract!Done
    <3> QED BY <3>6 DEF Abstract!Next
  <2>5. ASSUME NEW t \in Threads, ReleaseRefused(t) \/ Stat(t) PROVE Abstract!Next
    <3>1. thread[t] \in Handler /\ thread[t].at = "entered"
      BY <2>5 DEF ReleaseRefused, Stat, IInv, TypeOK, Idle
    <3>2. ownerBar' = ownerBar
      BY <2>5 DEF ReleaseRefused, Stat, ownerBar, Is_Locked
    <3>3. callBar' = [callBar EXCEPT ![t].at = "done"]
      BY <2>5, <3>1, ReturningIsDone DEF ReleaseRefused, Stat, IInv
    <3>4. callBar[t] = [at |-> "pending", op |-> thread[t].op, clt |-> thread[t].clt, lid |-> thread[t].lid]
      BY <3>1 DEF callBar, Handler
    <3>5. thread[t].op = "stat" \/ (thread[t].op = "release" /\ ownerBar[thread[t].lid] # thread[t].clt)
      BY <2>5, <3>1 DEF ReleaseRefused, Stat, ownerBar, Handler, Is_Locked
    <3>6. Abstract!TakeEffectNothing(t)
      BY <3>2, <3>3, <3>4, <3>5 DEF Abstract!TakeEffectNothing, Abstract!Done
    <3> QED BY <3>6 DEF Abstract!Next
  <2>6. ASSUME NEW t \in Threads, ReleaseAbsent(t) \/ SpuriousWake(t) PROVE UNCHANGED Abstract!avars
    <3>1. ownerBar' = ownerBar
      BY <2>6 DEF ReleaseAbsent, SpuriousWake, ownerBar, Is_Locked
    <3>2. CASE ReleaseAbsent(t)
      BY <3>1, <3>2 DEF ReleaseAbsent, callBar, Abstract!avars
    <3>3. CASE SpuriousWake(t)
      <4>1. thread[t] \in Handler
        BY <3>3 DEF SpuriousWake, IInv, TypeOK, Idle
      <4> QED BY <3>1, <3>3, <4>1 DEF SpuriousWake, MoveTo, callBar, Abstract!avars, IInv, TypeOK, Handler
    <3> QED BY <2>6, <3>2, <3>3
  <2>7. ASSUME NEW t \in Threads, Return(t) PROVE Abstract!Next
    <3>1. ownerBar' = ownerBar
      BY <2>7 DEF Return, ownerBar, Is_Locked
    <3>2. callBar' = [callBar EXCEPT ![t] = Abstract!NoCall]
      BY <2>7 DEF Return, callBar, IInv, TypeOK, Idle, Abstract!NoCall
    <3>3. callBar[t].at = "done"
      BY <2>7 DEF Return, callBar
    <3>4. Abstract!Return(t)
      BY <3>1, <3>2, <3>3 DEF Abstract!Return
    <3> QED BY <3>4 DEF Abstract!Next
  <2>8. ASSUME NEW t \in Threads, HandlerStep(t) PROVE [Abstract!Next]_(Abstract!avars)
    <3>1. CASE GrantEnter(t) \/ GrantWake(t)
      BY <2>3, <3>1 DEF GrantEnter, GrantWake, IInv, SleepersAcquire, TypeOK, Idle
    <3> QED BY <2>4, <2>5, <2>6, <2>8, <3>1 DEF HandlerStep
  <2> QED BY <2>1, <2>2, <2>6, <2>7, <2>8 DEF Next
<1> QED BY <1>1, <1>2, InductiveInvariant, PTL DEF Spec, ImplementsLockSpec, Abstract!Spec
=============================================================================
