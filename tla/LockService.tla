---------------------------- MODULE LockService ----------------------------
(***************************************************************************)
(* The whole lock service: application threads that use lock_client        *)
(* (lock_client.cc) the way lock_tester.cc does, the RPC library (Rpc),    *)
(* and the lock server's handlers run by the dispatch pool (LockServer).   *)
(*                                                                         *)
(* A step of the composition is a step of one of the parts, or a joint     *)
(* step where one calls another: an application thread enters call1 or     *)
(* sees it return, dispatch calls a handler, a handler returns to          *)
(* dispatch, the server process restarts.                                  *)
(*                                                                         *)
(* Several application threads may share one lock_client (test4 and test5  *)
(* of lock_tester): to the server they are one client.  lock_client        *)
(* asserts that every call returns OK, so a failed call ends the process   *)
(* of that client.                                                         *)
(***************************************************************************)
EXTENDS Integers, FiniteSets

CONSTANTS
    Clients,        \* lock_client objects, each with its own rpcc
    AppThreads,     \* the threads of the applications
    LockIds,        \* lock ids
    Threads,        \* threads of the server's dispatch pool
    NoClient,       \* 0, the clt of a lock that is free
    Bind,           \* rpc_const::bind
    Expiring,       \* the clients whose calls may reach the final deadline
    MaxRounds,      \* bound: acquire/release rounds per application thread
    MaxXid, MaxSend, MaxRetries, MaxNonce   \* the bounds of Rpc

\* ClientOf[a]: the lock_client that application thread a uses.
CONSTANT ClientOf

ASSUME ClientOfAssumption == ClientOf \in [AppThreads -> Clients]

\* Every round needs two xids, and bind one.
ASSUME RoundsAssumption ==
    \A c \in Clients :
        MaxXid >= 1 + 2 * MaxRounds * Cardinality({a \in AppThreads : ClientOf[a] = c})

VARIABLES srv_nonce, xid, acked, hdr, pc, sends, reply, destroy_wait, canceler,
          nonce, window, thr, reqs, reps, runs      \* of Rpc
VARIABLES mapLocks, thread, crashed                 \* of LockServer
VARIABLES
    client,     \* client[c]: the process of lock_client c
    app         \* app[a]: the application thread a

\* A request of the application: a procedure and its lock id.
Requests == [proc : {"acquire", "release"}, lid : LockIds]

\* What Rpc and LockServer assume of their constants.
ASSUME PartsAssumption ==
    /\ MaxXid \in Nat /\ MaxSend \in Nat /\ MaxNonce \in Nat \ {0} /\ MaxRounds \in Nat
    /\ Bind \notin Requests
    /\ NoClient \notin Clients

R == INSTANCE Rpc WITH Ops <- Requests, Cancelling <- {}

S == INSTANCE LockServer

rpcVars == <<srv_nonce, xid, acked, hdr, pc, sends, reply, destroy_wait, canceler,
             nonce, window, thr, reqs, reps, runs>>
lockVars == <<mapLocks, thread, crashed>>
appVars == <<client, app>>
vars == <<rpcVars, lockVars, appVars>>

TypeOK ==
    /\ R!TypeOK
    /\ S!TypeOK
    /\ client \in [Clients -> {"new", "binding", "bound", "aborted"}]
    /\ app \in [AppThreads -> [at : {"resting"}, rounds : 0 .. MaxRounds] \cup
                             [at : {"acquiring", "holding", "releasing"},
                              xid : 1 .. MaxXid, lid : LockIds, rounds : 0 .. MaxRounds]]

Init ==
    /\ R!Init
    /\ S!Init
    /\ client = [c \in Clients |-> "new"]
    /\ app = [a \in AppThreads |-> [at |-> "resting", rounds |-> 0]]

-----------------------------------------------------------------------------
(* lock_client *)

Returned(c, x) == pc[c][x] = "returned"

\* The constructor calls bind.
StartBind(c) ==
    /\ client[c] = "new"
    /\ R!Call(c, Bind)
    /\ client' = [client EXCEPT ![c] = "binding"]
    /\ UNCHANGED <<lockVars, app>>

\* bind returns.  When it failed the constructor only says so, and the first
\* call fails the assertion because the rpcc is not bound.
EndBind(c) ==
    /\ client[c] = "binding"
    /\ \E x \in 1 .. MaxXid :
           /\ Returned(c, x)
           /\ client' = [client EXCEPT ![c] = IF reply[c][x].ret = "ok" THEN "bound" ELSE "aborted"]
    /\ UNCHANGED <<rpcVars, lockVars, app>>

\* lock_client::acquire enters call1.
StartAcquire(a, lid) ==
    LET c == ClientOf[a] IN
    /\ client[c] = "bound"
    /\ app[a].at = "resting" /\ app[a].rounds < MaxRounds
    /\ R!Call(c, [proc |-> "acquire", lid |-> lid])
    /\ app' = [app EXCEPT ![a] = [at |-> "acquiring", xid |-> xid[c], lid |-> lid,
                                  rounds |-> @.rounds + 1]]
    /\ UNCHANGED <<lockVars, client>>

\* lock_client::release enters call1.
StartRelease(a) ==
    LET c == ClientOf[a] IN
    /\ client[c] = "bound"
    /\ app[a].at = "holding"
    /\ R!Call(c, [proc |-> "release", lid |-> app[a].lid])
    /\ app' = [app EXCEPT ![a].at = "releasing", ![a].xid = xid[c]]
    /\ UNCHANGED <<lockVars, client>>

\* The call returns OK and the assertion holds.
ReturnOk(a) ==
    LET c == ClientOf[a] IN
    /\ client[c] = "bound"
    /\ app[a].at \in {"acquiring", "releasing"}
    /\ Returned(c, app[a].xid)
    /\ reply[c][app[a].xid].ret = "ok"
    /\ app' = [app EXCEPT ![a] = IF @.at = "acquiring" THEN [@ EXCEPT !.at = "holding"]
                                 ELSE [at |-> "resting", rounds |-> @.rounds]]
    /\ UNCHANGED <<rpcVars, lockVars, client>>

\* The call fails: assert(ret == lock_protocol::OK) aborts the client process.
ReturnFailure(a) ==
    LET c == ClientOf[a] IN
    /\ client[c] = "bound"
    /\ app[a].at \in {"acquiring", "releasing"}
    /\ Returned(c, app[a].xid)
    /\ reply[c][app[a].xid].ret # "ok"
    /\ client' = [client EXCEPT ![c] = "aborted"]
    /\ UNCHANGED <<rpcVars, lockVars, app>>

-----------------------------------------------------------------------------
(* Steps inside the RPC library *)

Alive(c) == client[c] # "aborted"

CallerStep(c, x) ==
    /\ Alive(c)
    /\ \/ R!Send(c, x)
       \/ R!WaitDone(c, x)
       \/ R!Exit(c, x)
       \/ R!SetBound(c, x)
    /\ UNCHANGED <<lockVars, appVars>>

Timeout(c, x) ==
    /\ Alive(c)
    /\ \/ R!TimeoutRetry(c, x)
       \/ c \in Expiring /\ R!TimeoutFinal(c, x)
    /\ UNCHANGED <<lockVars, appVars>>

GotPdu(m) ==
    /\ Alive(m.clt)
    /\ R!got_pdu(m)
    /\ UNCHANGED <<lockVars, appVars>>

\* dispatch calls the handler: rpcbind inside rpcs, the others in lock_server.
DispatchNew(t, m) ==
    LET op == hdr[m.clt][m.xid].op IN
    /\ ~crashed
    /\ R!DispatchNew(t, m)
    /\ IF op = Bind THEN UNCHANGED lockVars ELSE S!Invoke(t, op.proc, m.clt, op.lid)
    /\ UNCHANGED appVars

\* dispatch answers or drops a request by itself.
DispatchOther(t, m) ==
    /\ ~crashed
    /\ \/ R!DispatchOldServer(t, m)
       \/ R!DispatchInProgress(t, m)
       \/ R!DispatchDone(t, m)
       \/ R!DispatchForgotten(t, m)
    /\ UNCHANGED <<lockVars, appVars>>

\* The handler returns to dispatch, which saves the reply.
HandlerReturn(t) ==
    /\ ~crashed
    /\ R!HandlerReturn(t)
    /\ IF hdr[thr[t].clt][thr[t].xid].op = Bind THEN UNCHANGED lockVars ELSE S!Return(t)
    /\ UNCHANGED appVars

ReplySend(t) == ~crashed /\ R!ReplySend(t) /\ UNCHANGED <<lockVars, appVars>>

\* The server process dies, or has crashed, and is started again: the RPC
\* tables and the locks are gone.
Restart ==
    /\ R!Restart
    /\ mapLocks' = [l \in LockIds |-> S!Absent]
    /\ thread' = [t \in Threads |-> S!Idle]
    /\ crashed' = FALSE
    /\ UNCHANGED appVars

-----------------------------------------------------------------------------
(* Steps inside the lock server *)

ServerStep(t) == S!HandlerStep(t) /\ UNCHANGED <<rpcVars, appVars>>

SpuriousWake(t) == S!SpuriousWake(t) /\ UNCHANGED <<rpcVars, appVars>>

AppStep(a) == StartRelease(a) \/ ReturnOk(a) \/ ReturnFailure(a)

DispatchStep(t) ==
    \/ \E m \in reqs : DispatchNew(t, m) \/ DispatchOther(t, m)
    \/ HandlerReturn(t)
    \/ ReplySend(t)
    \/ ServerStep(t)

Next ==
    \/ \E a \in AppThreads : AppStep(a) \/ \E lid \in LockIds : StartAcquire(a, lid)
    \/ \E c \in Clients :
           \/ StartBind(c)
           \/ EndBind(c)
           \/ \E x \in 1 .. MaxXid : CallerStep(c, x) \/ Timeout(c, x)
    \/ \E m \in reps : GotPdu(m)
    \/ \E t \in Threads : DispatchStep(t) \/ SpuriousWake(t)
    \/ Restart

Spec == Init /\ [][Next]_vars

\* Threads are scheduled, an application that holds a lock gives it back, and
\* on a connection that stays alive sends end and PDUs arrive.
Fairness ==
    /\ \A a \in AppThreads : WF_vars(AppStep(a))
    /\ \A c \in Clients :
           /\ WF_vars(EndBind(c))
           /\ \A x \in 1 .. MaxXid : WF_vars(CallerStep(c, x))
    /\ WF_vars(\E m \in reps : GotPdu(m))
    /\ \A t \in Threads : WF_vars(DispatchStep(t))

FairSpec == Spec /\ Fairness

-----------------------------------------------------------------------------
(* Properties *)

\* a has the lock: lock_client::acquire has returned and release was not called.
Holds(a) == client[ClientOf[a]] = "bound" /\ app[a].at = "holding"

\* The server instance that a got its lock from.
GrantedBy(a) == hdr[ClientOf[a]][app[a].xid].srv_nonce

\* Two application threads never hold one lock granted by the same server
\* instance, not even two threads that share a lock_client and so look like
\* the same owner to lock_server::release.
MutualExclusion ==
    \A a, b \in AppThreads :
        (a # b /\ Holds(a) /\ Holds(b) /\ app[a].lid = app[b].lid) => GrantedBy(a) # GrantedBy(b)

\* As long as the instance that granted a lock lives, a holder's lock is locked
\* on the server in its client's name: no late or repeated release, from the
\* same client or another one, frees it under the holder.
HolderOwnsLock ==
    \A a \in AppThreads :
        (Holds(a) /\ GrantedBy(a) = nonce) =>
            mapLocks[app[a].lid] = [state |-> "locked", clt |-> ClientOf[a]]

\* A lock that the server has given away is on its way to an application thread,
\* in its hands, or on its way back; no late copy of an acquire takes it once more
\* for a client that is done with it.  The one exception is the lock of a client
\* that aborted in lock_client.cc:33, whose request may be executed afterwards:
\* nothing in the server ever takes such a lock back.
NoOrphanLock ==
    \A l \in LockIds, c \in Clients :
        mapLocks[l] = [state |-> "locked", clt |-> c] =>
            \/ client[c] = "aborted"
            \/ \E a \in AppThreads : ClientOf[a] = c /\ app[a].at # "resting" /\ app[a].lid = l

\* lock_server::release never meets a lock that is not in mapLocks, although it
\* does not look: with clients that release only what they acquired, the check
\* of srv_nonce_ keeps the releases of an earlier instance's locks away.
NoNullLock == ~crashed

\* Every acquire returns with the lock when every caller can have a dispatch
\* thread, the server stays up, no call reaches its deadline and no send blocks.
AcquireSucceeds == \A a \in AppThreads : (app[a].at = "acquiring") ~> Holds(a)
=============================================================================
