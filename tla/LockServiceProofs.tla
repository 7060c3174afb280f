-------------------------- MODULE LockServiceProofs --------------------------
(***************************************************************************)
(* Proofs about the composed LockService, for any clients, application     *)
(* threads, locks, dispatch threads and bounds.  A step of the service is  *)
(* a step of Rpc or leaves Rpc alone, so what RpcAnswerProofs proves about *)
(* a call holds here, and what is left to show is how the calls of the     *)
(* application threads and the locks of the server belong together.        *)
(***************************************************************************)
EXTENDS LockService, TLAPS

RP == INSTANCE RpcAnswerProofs WITH Ops <- Requests, Cancelling <- {}

Xids == 1 .. MaxXid

-----------------------------------------------------------------------------
(* The inductive invariant *)

Resting == [at : {"resting"}, rounds : 0 .. MaxRounds]

Working == [at : {"acquiring", "holding", "releasing"},
            xid : Xids, lid : LockIds, rounds : 0 .. MaxRounds]

OwnTypes ==
    /\ S!TypeOK
    /\ client \in [Clients -> {"new", "binding", "bound", "aborted"}]
    /\ app \in [AppThreads -> Resting \cup Working]

Busy(a) == app[a].at # "resting"

\* The request a's present call made, or made last.
RequestOf(a) ==
    [proc |-> IF app[a].at = "releasing" THEN "release" ELSE "acquire", lid |-> app[a].lid]

Used(c, x) == pc[c][x] # "none"

\* Application threads and calls belong together: a busy thread has a call of its
\* own, and a call that has not returned the handler's result has its thread.
CallInv ==
    /\ \A a \in AppThreads : Busy(a) =>
           /\ Used(ClientOf[a], app[a].xid)
           /\ hdr[ClientOf[a]][app[a].xid].op = RequestOf(a)
           /\ app[a].at = "holding" => reply[ClientOf[a]][app[a].xid].ret = "ok"
    /\ \A a, b \in AppThreads :
           a # b /\ Busy(a) /\ Busy(b) /\ ClientOf[a] = ClientOf[b] => app[a].xid # app[b].xid
    /\ \A c \in Clients, x \in Xids : Used(c, x) /\ hdr[c][x].op # Bind =>
           \/ reply[c][x].ret = "ok"
           \/ \E a \in AppThreads : /\ ClientOf[a] = c
                                    /\ app[a].at \in {"acquiring", "releasing"}
                                    /\ app[a].xid = x

\* A dispatch thread is inside a handler of lock_server exactly while it runs a
\* call that is no bind, with that call's arguments; it works only for clients
\* bound to this instance; only an acquire sleeps.
Serving(t) == thr[t].at = "run" /\ hdr[thr[t].clt][thr[t].xid].op # Bind

ThreadInv ==
    \A t \in Threads :
        /\ thread[t].at # "idle" <=> Serving(t)
        /\ Serving(t) => /\ thread[t].clt = thr[t].clt
                         /\ thread[t].op = hdr[thr[t].clt][thr[t].xid].op.proc
                         /\ thread[t].lid = hdr[thr[t].clt][thr[t].xid].op.lid
        /\ thread[t].at \in {"waiting", "woken"} => thread[t].op = "acquire"
        /\ thr[t].at # "idle" /\ hdr[thr[t].clt][thr[t].xid].op # Bind =>
               hdr[thr[t].clt][thr[t].xid].srv_nonce = nonce

Running(t, c, x) == thr[t].at = "run" /\ thr[t].clt = c /\ thr[t].xid = x

\* The handler of the call has done its work.
Effected(c, x) ==
    /\ runs[c][x] = 1
    /\ \A t \in Threads : Running(t, c, x) => thread[t].at = "returned"

\* The handler's result is at the caller or on its way.
OkOf(c, x) ==
    \/ reply[c][x].ret = "ok"
    \/ \E m \in reps : m.clt = c /\ m.xid = x /\ m.ret = "ok"

\* The instance of the server that a's call is for.
Instance(a) == hdr[ClientOf[a]][app[a].xid].srv_nonce

\* a has been given its lock and the lock has not been given back: from the work
\* of grant, through the reply, to the work of release.
Entitled(a) ==
    \/ /\ app[a].at = "acquiring"
       /\ \/ OkOf(ClientOf[a], app[a].xid)
          \/ Instance(a) = nonce /\ Effected(ClientOf[a], app[a].xid)
    \/ app[a].at = "holding"
    \/ app[a].at = "releasing" /\ ~Effected(ClientOf[a], app[a].xid)

LockedFor(l, c) == mapLocks[l] = [state |-> "locked", clt |-> c]

\* The locked locks of the server and the entitled threads of its clients match
\* one to one; in an earlier instance a lock had one entitled thread at most.
EntitledInv ==
    /\ \A a \in AppThreads : Entitled(a) /\ Instance(a) = nonce => LockedFor(app[a].lid, ClientOf[a])
    /\ \A a, b \in AppThreads :
           a # b /\ Entitled(a) /\ Entitled(b) /\ app[a].lid = app[b].lid => Instance(a) # Instance(b)
    /\ \A l \in LockIds, c \in Clients : LockedFor(l, c) =>
           \E a \in AppThreads :
               ClientOf[a] = c /\ Entitled(a) /\ app[a].lid = l /\ Instance(a) = nonce

LInv == OwnTypes /\ CallInv /\ ThreadInv /\ EntitledInv /\ NoNullLock

-----------------------------------------------------------------------------
(* The service runs the RPC protocol *)

USE PartsAssumption, ClientOfAssumption

\* Two instances of Rpc with the same substitution are the same.
LEMMA SameRpcClient ==
  ASSUME NEW c, NEW x
  PROVE /\ \A op : R!Call(c, op) => RP!Call(c, op)
        /\ R!Send(c, x) => RP!Send(c, x)
        /\ R!WaitDone(c, x) => RP!WaitDone(c, x)
        /\ R!TimeoutRetry(c, x) => RP!TimeoutRetry(c, x)
        /\ R!TimeoutFinal(c, x) => RP!TimeoutFinal(c, x)
        /\ R!Exit(c, x) => RP!Exit(c, x)
        /\ R!SetBound(c, x) => RP!SetBound(c, x)
        /\ \A m : R!got_pdu(m) => RP!got_pdu(m)
<1> USE DEF R!serverVars, RP!serverVars, R!netVars, RP!netVars, R!GoTo, RP!GoTo,
            R!OnlyGoTo, RP!OnlyGoTo, R!IsDone, RP!IsDone, R!Xids, RP!Xids
<1>1. ASSUME NEW op, R!Call(c, op) PROVE RP!Call(c, op)
  BY <1>1 DEF R!Call, RP!Call, R!IsXidRep, RP!IsXidRep
<1>2. R!Send(c, x) => RP!Send(c, x)
  BY DEF R!Send, RP!Send
<1>3. R!WaitDone(c, x) => RP!WaitDone(c, x)
  BY DEF R!WaitDone, RP!WaitDone
<1>4. R!MayResend(c, x) => RP!MayResend(c, x)
  <2>1. R!Retried = RP!Retried
    BY DEF R!Retried, RP!Retried
  <2> QED BY <2>1 DEF R!MayResend, RP!MayResend, R!Cardinality, RP!Cardinality
<1>5. R!TimeoutRetry(c, x) => RP!TimeoutRetry(c, x)
  BY <1>4 DEF R!TimeoutRetry, RP!TimeoutRetry
<1>6. R!TimeoutFinal(c, x) => RP!TimeoutFinal(c, x)
  BY <1>4 DEF R!TimeoutFinal, RP!TimeoutFinal
<1>7. R!Exit(c, x) => RP!Exit(c, x)
  BY DEF R!Exit, RP!Exit, R!Finish, RP!Finish
<1>8. R!SetBound(c, x) => RP!SetBound(c, x)
  BY DEF R!SetBound, RP!SetBound
<1>9. ASSUME NEW m, R!got_pdu(m) PROVE RP!got_pdu(m)
  BY <1>9 DEF R!got_pdu, RP!got_pdu, R!Pending, RP!Pending, R!Outstanding, RP!Outstanding
<1> QED BY <1>1, <1>2, <1>3, <1>5, <1>6, <1>7, <1>8, <1>9

\* The same for the server's actions.
LEMMA SameRpcServer ==
  ASSUME NEW t, NEW m
  PROVE /\ R!DispatchOldServer(t, m) => RP!DispatchOldServer(t, m)
        /\ R!DispatchNew(t, m) => RP!DispatchNew(t, m)
        /\ R!DispatchInProgress(t, m) => RP!DispatchInProgress(t, m)
        /\ R!DispatchDone(t, m) => RP!DispatchDone(t, m)
        /\ R!DispatchForgotten(t, m) => RP!DispatchForgotten(t, m)
        /\ R!HandlerReturn(t) => RP!HandlerReturn(t)
        /\ R!ReplySend(t) => RP!ReplySend(t)
        /\ R!Restart => RP!Restart
<1> USE DEF R!clientVars, RP!clientVars, R!serverVars, RP!serverVars, R!netVars, RP!netVars,
            R!Receive, RP!Receive, R!OldServer, RP!OldServer, R!SendReply, RP!SendReply, R!Xids, RP!Xids
<1>1. R!DispatchOldServer(t, m) => RP!DispatchOldServer(t, m)
  BY DEF R!DispatchOldServer, RP!DispatchOldServer
<1>2. /\ R!Accept(t, m) => RP!Accept(t, m)
      /\ R!Trimmed(m) = RP!Trimmed(m)
  BY DEF R!Accept, RP!Accept, R!Trimmed, RP!Trimmed, R!Trim, RP!Trim
<1>3. \A w, x : R!IsForgotten(w, x) <=> RP!IsForgotten(w, x)
  BY DEF R!IsForgotten, RP!IsForgotten
<1>4. R!DispatchNew(t, m) => RP!DispatchNew(t, m)
  BY <1>2, <1>3 DEF R!DispatchNew, RP!DispatchNew
<1>5. R!DispatchInProgress(t, m) => RP!DispatchInProgress(t, m)
  BY <1>2 DEF R!DispatchInProgress, RP!DispatchInProgress
<1>6. R!DispatchDone(t, m) => RP!DispatchDone(t, m)
  BY <1>2 DEF R!DispatchDone, RP!DispatchDone
<1>7. R!DispatchForgotten(t, m) => RP!DispatchForgotten(t, m)
  BY <1>2, <1>3 DEF R!DispatchForgotten, RP!DispatchForgotten
<1>8. R!HandlerReturn(t) => RP!HandlerReturn(t)
  BY DEF R!HandlerReturn, RP!HandlerReturn, R!Answered, RP!Answered
<1>9. R!ReplySend(t) => RP!ReplySend(t)
  BY DEF R!ReplySend, RP!ReplySend, R!Dangling, RP!Dangling, R!Idle, RP!Idle
<1>10. R!Restart => RP!Restart
  BY DEF R!Restart, RP!Restart, R!EmptyWindow, RP!EmptyWindow, R!Idle, RP!Idle
<1> QED BY <1>1, <1>4, <1>5, <1>6, <1>7, <1>8, <1>9, <1>10

\* A step of the service is a step of Rpc or leaves Rpc alone.
LEMMA StepIsRpcStep ==
  ASSUME OwnTypes, [Next]_vars
  PROVE  [RP!Next]_(RP!vars)
<1> USE DEF RP!Xids
<1>0. CASE UNCHANGED rpcVars
  BY <1>0 DEF rpcVars, RP!vars, RP!clientVars, RP!serverVars, RP!netVars
<1>1. ASSUME NEW c \in Clients, NEW op \in Requests \cup {Bind}, R!Call(c, op) PROVE RP!Next
  BY <1>1, SameRpcClient DEF RP!Next
<1>2. ASSUME NEW a \in AppThreads, AppStep(a) \/ \E lid \in LockIds : StartAcquire(a, lid)
      PROVE  UNCHANGED rpcVars \/ RP!Next
  <2>1. ClientOf[a] \in Clients
    OBVIOUS
  <2>2. ASSUME NEW lid \in LockIds, StartAcquire(a, lid) PROVE RP!Next
    <3>1. [proc |-> "acquire", lid |-> lid] \in Requests
      BY DEF Requests
    <3> QED BY <1>1, <2>1, <2>2, <3>1 DEF StartAcquire
  <2>3. CASE StartRelease(a)
    <3>1. R!Call(ClientOf[a], [proc |-> "release", lid |-> app[a].lid])
      BY <2>3 DEF StartRelease
    <3>2. app[a].lid \in LockIds
      BY <2>3 DEF StartRelease, OwnTypes, Resting, Working
    <3>3. [proc |-> "release", lid |-> app[a].lid] \in Requests
      BY <3>2 DEF Requests
    <3> QED BY <1>1, <2>1, <3>1, <3>3
  <2>4. CASE ReturnOk(a) \/ ReturnFailure(a)
    BY <2>4 DEF ReturnOk, ReturnFailure
  <2> QED BY <1>2, <2>2, <2>3, <2>4 DEF AppStep
<1>3. ASSUME NEW c \in Clients, StartBind(c) \/ EndBind(c) PROVE UNCHANGED rpcVars \/ RP!Next
  BY <1>1, <1>3 DEF StartBind, EndBind
<1>4. ASSUME NEW c \in Clients, NEW x \in Xids, CallerStep(c, x) \/ Timeout(c, x) PROVE RP!Next
  <2>1. RP!CallerStep(c, x) \/ RP!TimeoutRetry(c, x)
    BY <1>4, SameRpcClient DEF CallerStep, Timeout, RP!CallerStep, RP!AfterSend
  <2> QED BY <2>1 DEF RP!Next, Xids
<1>5. ASSUME NEW m \in reps, GotPdu(m) PROVE RP!Next
  BY <1>5, SameRpcClient DEF GotPdu, RP!Next
<1>6. ASSUME NEW t \in Threads, DispatchStep(t) \/ SpuriousWake(t) PROVE UNCHANGED rpcVars \/ RP!Next
  <2>1. ASSUME NEW m \in reqs, DispatchNew(t, m) \/ DispatchOther(t, m) PROVE RP!Next
    <3>1. RP!Dispatch(t, m)
      BY <2>1, SameRpcServer DEF DispatchNew, DispatchOther, RP!Dispatch
    <3> QED BY <3>1 DEF RP!Next
  <2>2. CASE HandlerReturn(t) \/ ReplySend(t)
    BY <2>2, SameRpcServer DEF HandlerReturn, ReplySend, RP!Next
  <2>3. CASE ServerStep(t) \/ SpuriousWake(t)
    BY <2>3 DEF ServerStep, SpuriousWake
  <2> QED BY <1>6, <2>1, <2>2, <2>3 DEF DispatchStep
<1>7. CASE Restart
  BY <1>7, SameRpcServer DEF Restart, RP!Next
<1>8. CASE UNCHANGED vars
  BY <1>0, <1>8 DEF vars
<1> QED BY <1>0, <1>2, <1>3, <1>4, <1>5, <1>6, <1>7, <1>8 DEF Next, Xids
-----------------------------------------------------------------------------
(* What the RPC library promises about calls *)

Sending(t, c, x) == thr[t].at = "send" /\ thr[t].clt = c /\ thr[t].xid = x

\* The handler of the call has run and no thread is inside it.
Settled(c, x) == runs[c][x] = 1 /\ \A t \in Threads : ~Running(t, c, x)

\* The part of the invariant of RpcAnswerProofs that the lock service rests on.
CallFacts ==
    /\ nonce \in Nat
    /\ \A c \in Clients, x \in Xids :
           /\ hdr[c][x].op \in Requests \cup {Bind}
           /\ hdr[c][x].srv_nonce \in Nat /\ hdr[c][x].srv_nonce <= nonce
           /\ ~Used(c, x) => runs[c][x] = 0 /\ reply[c][x].ret = "none"
           /\ hdr[c][x].op # Bind =>
                 /\ hdr[c][x].srv_nonce # 0
                 /\ runs[c][x] \in {0, 1}
                 /\ \A t \in Threads : Running(t, c, x) => runs[c][x] = 1
                 /\ \A t, u \in Threads : Running(t, c, x) /\ Running(u, c, x) => t = u
                 /\ \A t \in Threads : Sending(t, c, x) => Settled(c, x)
                 /\ OkOf(c, x) => Settled(c, x)
                 /\ Used(c, x) => hdr[c][x].srv_nonce = srv_nonce[c]
    /\ \A t \in Threads : thr[t].at # "idle" =>
           /\ thr[t].at \in {"run", "send"}
           /\ thr[t].clt \in Clients /\ thr[t].xid \in Xids /\ Used(thr[t].clt, thr[t].xid)
    /\ \A m \in reps : m.clt \in Clients /\ m.xid \in Xids /\ Used(m.clt, m.xid)
    /\ \A m \in reqs : m.clt \in Clients /\ m.xid \in Xids /\ Used(m.clt, m.xid)

\* The invariant of RpcAnswerProofs says all that.
LEMMA RpcFacts == RP!AInv => CallFacts
<1> SUFFICES ASSUME RP!AInv PROVE CallFacts
  OBVIOUS
<1> USE DEF RP!Used, Used, RP!Xids, Xids
<1>0. RP!TypeOK /\ RP!HeaderInv /\ RP!MsgInv /\ RP!RunInv /\ RP!AnswerInv /\ RP!BindInv
  BY DEF RP!AInv, RP!IInv
<1>1. nonce \in Nat
  BY <1>0 DEF RP!TypeOK, RP!Nonces
<1>2. /\ \A t \in Threads : thr[t].at # "idle" =>
           /\ thr[t].at \in {"run", "send"}
           /\ thr[t].clt \in Clients /\ thr[t].xid \in Xids /\ Used(thr[t].clt, thr[t].xid)
      /\ \A m \in reps : m.clt \in Clients /\ m.xid \in Xids /\ Used(m.clt, m.xid)
      /\ \A m \in reqs : m.clt \in Clients /\ m.xid \in Xids /\ Used(m.clt, m.xid)
  <2>1. \A t \in Threads : thr[t].at # "idle" =>
           thr[t].at \in {"run", "send"} /\ thr[t].clt \in Clients /\ thr[t].xid \in Xids
    BY <1>0 DEF RP!TypeOK, RP!Dispatchers, RP!Idle
  <2>2. /\ \A m \in reps : m.clt \in Clients /\ m.xid \in Xids
        /\ \A m \in reqs : m.clt \in Clients /\ m.xid \in Xids
    BY <1>0 DEF RP!TypeOK, RP!Replies, RP!Requests
  <2> QED BY <1>0, <2>1, <2>2 DEF RP!MsgInv
<1>3. ASSUME NEW c \in Clients, NEW x \in Xids
      PROVE  /\ hdr[c][x].op \in Requests \cup {Bind}
             /\ hdr[c][x].srv_nonce \in Nat /\ hdr[c][x].srv_nonce <= nonce
             /\ ~Used(c, x) => runs[c][x] = 0 /\ reply[c][x].ret = "none"
  <2>1. hdr[c][x] \in RP!Headers
    BY <1>0 DEF RP!TypeOK
  <2>2. hdr[c][x].op \in Requests \cup {Bind} /\ hdr[c][x].srv_nonce \in Nat
    BY <2>1 DEF RP!Headers, RP!Nonces
  <2> QED BY <1>0, <2>2 DEF RP!HeaderInv, RP!RunInv, RP!AnswerInv
<1>4. ASSUME NEW c \in Clients, NEW x \in Xids, hdr[c][x].op # Bind
      PROVE  /\ hdr[c][x].srv_nonce # 0
             /\ runs[c][x] \in {0, 1}
             /\ \A t \in Threads : Running(t, c, x) => runs[c][x] = 1
             /\ \A t, u \in Threads : Running(t, c, x) /\ Running(u, c, x) => t = u
             /\ \A t \in Threads : Sending(t, c, x) => Settled(c, x)
             /\ OkOf(c, x) => Settled(c, x)
             /\ Used(c, x) => hdr[c][x].srv_nonce = srv_nonce[c]
  <2>1. runs[c][x] \in Nat
    BY <1>0 DEF RP!TypeOK
  <2>2. runs[c][x] \in {0, 1}
    BY <1>0, <1>4, <2>1 DEF RP!RunInv
  <2>3. RP!Settled(c, x) <=> Settled(c, x)
    BY DEF RP!Settled, Settled, RP!Running, Running
  <2>4. /\ \A t \in Threads : Running(t, c, x) => runs[c][x] = 1
        /\ \A t, u \in Threads : Running(t, c, x) /\ Running(u, c, x) => t = u
        /\ \A t \in Threads : Sending(t, c, x) => Settled(c, x)
        /\ OkOf(c, x) => Settled(c, x)
    BY <1>0, <1>4, <2>3 DEF RP!AnswerInv, OkOf, Running, RP!Running, Sending, RP!Sending
  <2>5. hdr[c][x].srv_nonce # 0 /\ (Used(c, x) => hdr[c][x].srv_nonce = srv_nonce[c])
    BY <1>0, <1>4 DEF RP!HeaderInv, RP!BindInv
  <2> QED BY <2>2, <2>4, <2>5
<1> QED BY <1>1, <1>2, <1>3, <1>4 DEF CallFacts

-----------------------------------------------------------------------------
(* Steps that change no entitlement *)

\* The call of a busy application thread is a request to lock_server.
LEMMA BusyCall ==
  ASSUME OwnTypes, CallInv, NEW a \in AppThreads, Busy(a)
  PROVE /\ ClientOf[a] \in Clients /\ app[a].xid \in Xids /\ app[a].lid \in LockIds
        /\ Used(ClientOf[a], app[a].xid)
        /\ hdr[ClientOf[a]][app[a].xid].op = RequestOf(a)
        /\ RequestOf(a) # Bind
<1>1. app[a] \in Working
  BY DEF OwnTypes, Resting, Busy
<1>2. app[a].xid \in Xids /\ app[a].lid \in LockIds
  BY <1>1 DEF Working
<1>3. RequestOf(a) \in Requests
  BY <1>2 DEF RequestOf, Requests
<1> QED BY <1>2, <1>3 DEF CallInv

\* Nobody becomes entitled, and those entitled in this instance stay so.
LEMMA EntitledFrame ==
  ASSUME EntitledInv, UNCHANGED <<mapLocks, nonce>>,
         \A a \in AppThreads : Entitled(a)' =>
             Entitled(a) /\ app'[a].lid = app[a].lid /\ Instance(a)' = Instance(a),
         \A a \in AppThreads : Entitled(a) /\ Instance(a) = nonce =>
             Entitled(a)' /\ app'[a].lid = app[a].lid /\ Instance(a)' = Instance(a)
  PROVE  EntitledInv'
<1>1. \A a \in AppThreads : Entitled(a)' /\ Instance(a)' = nonce' => LockedFor(app[a].lid, ClientOf[a])'
  BY DEF EntitledInv, LockedFor
<1>2. \A a, b \in AppThreads :
        a # b /\ Entitled(a)' /\ Entitled(b)' /\ app'[a].lid = app'[b].lid => Instance(a)' # Instance(b)'
  BY DEF EntitledInv
<1>3. \A l \in LockIds, c \in Clients : LockedFor(l, c)' =>
        \E a \in AppThreads :
            ClientOf[a] = c /\ Entitled(a)' /\ app'[a].lid = l /\ Instance(a)' = nonce'
  <2> SUFFICES ASSUME NEW l \in LockIds, NEW c \in Clients, LockedFor(l, c)'
               PROVE  \E a \in AppThreads :
                        ClientOf[a] = c /\ Entitled(a)' /\ app'[a].lid = l /\ Instance(a)' = nonce'
    OBVIOUS
  <2>1. LockedFor(l, c)
    BY DEF LockedFor
  <2>2. PICK a \in AppThreads : ClientOf[a] = c /\ Entitled(a) /\ app[a].lid = l /\ Instance(a) = nonce
    BY <2>1 DEF EntitledInv
  <2> QED BY <2>2
<1> QED BY <1>1, <1>2, <1>3 DEF EntitledInv

\* What the steps of Rpc that make no call and run no handler do.
Quiet ==
    /\ UNCHANGED <<hdr, runs, nonce>>
    /\ \A c \in Clients, x \in Xids :
           /\ Used(c, x)' <=> Used(c, x)
           /\ reply[c][x].ret = "ok" => reply'[c][x].ret = "ok"
           /\ OkOf(c, x)' => OkOf(c, x) \/ \E t \in Threads : Sending(t, c, x)
    /\ \A t \in Threads :
           \/ thr'[t] = thr[t]
           \/ thr[t].at = "send" /\ thr'[t].at = "idle"
           \/ /\ thr[t].at = "idle" /\ thr'[t].at = "send"
              /\ \/ hdr[thr'[t].clt][thr'[t].xid].op = Bind
                 \/ hdr[thr'[t].clt][thr'[t].xid].srv_nonce = nonce

\* They keep the invariant.
LEMMA QuietKeepsInv ==
  ASSUME CallFacts, LInv, Quiet, UNCHANGED <<lockVars, app, client>>
  PROVE  LInv'
<1> USE DEF lockVars
<1>0. UNCHANGED <<hdr, runs, nonce, mapLocks, thread, crashed, app, client>>
  BY DEF Quiet
<1>1. OwnTypes'
  BY <1>0 DEF LInv, OwnTypes, S!TypeOK
<1>2. \A a \in AppThreads : Busy(a) =>
        ClientOf[a] \in Clients /\ app[a].xid \in Xids /\ hdr[ClientOf[a]][app[a].xid].op # Bind
  BY BusyCall DEF LInv
<1>3. CallInv'
  <2>1. \A a \in AppThreads : Busy(a)' =>
           /\ Used(ClientOf[a], app[a].xid)'
           /\ hdr'[ClientOf[a]][app'[a].xid].op = RequestOf(a)'
           /\ app'[a].at = "holding" => reply'[ClientOf[a]][app'[a].xid].ret = "ok"
    BY <1>0, <1>2 DEF LInv, CallInv, Quiet, Busy, RequestOf
  <2>2. \A a, b \in AppThreads :
          a # b /\ Busy(a)' /\ Busy(b)' /\ ClientOf[a] = ClientOf[b] => app'[a].xid # app'[b].xid
    BY <1>0 DEF LInv, CallInv, Busy
  <2>3. \A c \in Clients, x \in Xids : Used(c, x)' /\ hdr'[c][x].op # Bind =>
           \/ reply'[c][x].ret = "ok"
           \/ \E a \in AppThreads : /\ ClientOf[a] = c
                                    /\ app'[a].at \in {"acquiring", "releasing"}
                                    /\ app'[a].xid = x
    BY <1>0 DEF LInv, CallInv, Quiet
  <2> QED BY <2>1, <2>2, <2>3 DEF CallInv
<1>4. \A t \in Threads : (Serving(t)' <=> Serving(t)) /\ (Serving(t) => thr'[t] = thr[t])
  BY <1>0 DEF Quiet, Serving
<1>5. ThreadInv'
  <2> SUFFICES ASSUME NEW t \in Threads
               PROVE /\ thread'[t].at # "idle" <=> Serving(t)'
                     /\ Serving(t)' => /\ thread'[t].clt = thr'[t].clt
                                       /\ thread'[t].op = hdr'[thr'[t].clt][thr'[t].xid].op.proc
                                       /\ thread'[t].lid = hdr'[thr'[t].clt][thr'[t].xid].op.lid
                     /\ thread'[t].at \in {"waiting", "woken"} => thread'[t].op = "acquire"
                     /\ thr'[t].at # "idle" /\ hdr'[thr'[t].clt][thr'[t].xid].op # Bind =>
                            hdr'[thr'[t].clt][thr'[t].xid].srv_nonce = nonce'
    BY DEF ThreadInv
  <2> QED BY <1>0, <1>4 DEF LInv, ThreadInv, Quiet
<1>6. \A t \in Threads, c \in Clients, x \in Xids : Running(t, c, x)' <=> Running(t, c, x)
  BY DEF Quiet, Running
<1>7. \A c \in Clients, x \in Xids : Effected(c, x)' <=> Effected(c, x)
  BY <1>0, <1>6 DEF Effected
<1>8. \A a \in AppThreads : Instance(a)' = Instance(a)
  BY <1>0 DEF Instance
<1>9. \A a \in AppThreads : Entitled(a)' => Entitled(a)
  <2> SUFFICES ASSUME NEW a \in AppThreads, Entitled(a)' PROVE Entitled(a)
    OBVIOUS
  <2>1. Busy(a)
    BY <1>0 DEF Entitled, Busy
  <2>2. PICK c \in Clients, x \in Xids : c = ClientOf[a] /\ x = app[a].xid
    BY <1>2, <2>1
  <2>3. CASE app[a].at = "acquiring"
    <3>1. hdr[c][x].op # Bind
      BY <1>2, <2>1, <2>2
    <3>2. CASE OkOf(c, x)' /\ ~OkOf(c, x)
      <4>1. PICK t \in Threads : Sending(t, c, x)
        BY <3>2 DEF Quiet
      <4>2. hdr[c][x].srv_nonce = nonce
        BY <3>1, <4>1 DEF LInv, ThreadInv, Sending
      <4>3. Effected(c, x)
        BY <3>1, <4>1 DEF CallFacts, Settled, Effected
      <4> QED BY <2>2, <2>3, <4>2, <4>3 DEF Entitled, Instance
    <3>3. CASE OkOf(c, x)
      BY <2>2, <2>3, <3>3 DEF Entitled
    <3>4. CASE ~OkOf(c, x)'
      BY <1>0, <1>7, <1>8, <2>2, <2>3, <3>4 DEF Entitled
    <3> QED BY <3>2, <3>3, <3>4
  <2>4. CASE app[a].at # "acquiring"
    BY <1>0, <1>7, <2>2, <2>4 DEF Entitled
  <2> QED BY <2>3, <2>4
<1>10. \A a \in AppThreads : Entitled(a) /\ Instance(a) = nonce => Entitled(a)'
  <2> SUFFICES ASSUME NEW a \in AppThreads, Entitled(a), Instance(a) = nonce PROVE Entitled(a)'
    OBVIOUS
  <2>1. Busy(a)
    BY DEF Entitled, Busy
  <2>2. PICK c \in Clients, x \in Xids : c = ClientOf[a] /\ x = app[a].xid
    BY <1>2, <2>1
  <2>3. hdr[c][x].op # Bind
    BY <1>2, <2>1, <2>2
  <2>4. OkOf(c, x) => Effected(c, x)
    BY <2>3 DEF CallFacts, Settled, Effected
  <2> QED BY <1>0, <1>7, <1>8, <2>2, <2>4 DEF Entitled
<1>11. EntitledInv'
  BY <1>0, <1>8, <1>9, <1>10, EntitledFrame DEF LInv
<1> QED BY <1>0, <1>1, <1>3, <1>5, <1>11 DEF LInv, NoNullLock

\* A caller that moves on stays inside its call.
LEMMA MoveKeepsUsed ==
  ASSUME RP!TypeOK, NEW c \in Clients, NEW x \in Xids, NEW place,
         Used(c, x), place # "none", pc' = [pc EXCEPT ![c][x] = place]
  PROVE  \A d \in Clients, y \in Xids : Used(d, y)' <=> Used(d, y)
BY DEF RP!TypeOK, RP!Xids, Xids, Used

\* The steps inside call1 and bind are quiet.
LEMMA CallerIsQuiet ==
  ASSUME RP!TypeOK, NEW c \in Clients, NEW x \in Xids, CallerStep(c, x) \/ Timeout(c, x)
  PROVE  Quiet
<1> USE DEF R!serverVars, R!netVars, RP!Xids, Xids
<1>1. ASSUME \A d \in Clients, y \in Xids : Used(d, y)' <=> Used(d, y),
             UNCHANGED <<hdr, runs, nonce, reply, reps, thr>>
      PROVE  Quiet
  BY <1>1 DEF Quiet, OkOf
<1>2. CASE R!Send(c, x)
  <2>1. \A d \in Clients, y \in Xids : Used(d, y)' <=> Used(d, y)
    <3>1. CASE pc[c][x] = "send"
      BY <1>2, <3>1, MoveKeepsUsed DEF R!Send, R!GoTo, Used
    <3>2. CASE pc[c][x] = "lastsend"
      BY <1>2, <3>2, MoveKeepsUsed DEF R!Send, R!GoTo, Used
    <3> QED BY <1>2, <3>1, <3>2 DEF R!Send
  <2> QED BY <1>1, <1>2, <2>1 DEF R!Send
<1>3. CASE R!WaitDone(c, x)
  <2>1. \A d \in Clients, y \in Xids : Used(d, y)' <=> Used(d, y)
    BY <1>3, MoveKeepsUsed DEF R!WaitDone, R!OnlyGoTo, R!GoTo, Used
  <2> QED BY <1>1, <1>3, <2>1 DEF R!WaitDone, R!OnlyGoTo
<1>4. CASE R!TimeoutRetry(c, x)
  <2>1. \A d \in Clients, y \in Xids : Used(d, y)' <=> Used(d, y)
    BY <1>4, MoveKeepsUsed DEF R!TimeoutRetry, R!OnlyGoTo, R!GoTo, Used
  <2> QED BY <1>1, <1>4, <2>1 DEF R!TimeoutRetry, R!OnlyGoTo
<1>5. CASE R!TimeoutFinal(c, x)
  <2>1. \A d \in Clients, y \in Xids : Used(d, y)' <=> Used(d, y)
    BY <1>5, MoveKeepsUsed DEF R!TimeoutFinal, R!OnlyGoTo, R!GoTo, Used
  <2> QED BY <1>1, <1>5, <2>1 DEF R!TimeoutFinal, R!OnlyGoTo
<1>6. CASE R!SetBound(c, x)
  <2>1. \A d \in Clients, y \in Xids : Used(d, y)' <=> Used(d, y)
    BY <1>6, MoveKeepsUsed DEF R!SetBound, R!GoTo, Used
  <2> QED BY <1>1, <1>6, <2>1 DEF R!SetBound
<1>7. CASE R!Exit(c, x)
  <2>1. \A d \in Clients, y \in Xids : Used(d, y)' <=> Used(d, y)
    <3>1. PICK place \in {"bind", "returned"} : pc' = [pc EXCEPT ![c][x] = place]
      BY <1>7 DEF R!Exit, R!Finish, R!GoTo
    <3>2. Used(c, x)
      BY <1>7 DEF R!Exit, Used
    <3> QED BY <3>1, <3>2, MoveKeepsUsed
  <2>2. \A d \in Clients, y \in Xids :
          reply'[d][y] = IF d = c /\ y = x /\ reply[c][x].ret = "none"
                         THEN [ret |-> "timeout_failure", val |-> 0] ELSE reply[d][y]
    BY <1>7 DEF R!Exit, R!Finish, R!IsDone, RP!TypeOK
  <2>3. \A d \in Clients, y \in Xids : reply'[d][y].ret = "ok" <=> reply[d][y].ret = "ok"
    BY <2>2
  <2>4. UNCHANGED <<hdr, runs, nonce, reps, thr>>
    BY <1>7 DEF R!Exit
  <2> QED BY <2>1, <2>3, <2>4 DEF Quiet, OkOf
<1> QED BY <1>2, <1>3, <1>4, <1>5, <1>6, <1>7 DEF CallerStep, Timeout

\* So is the arrival of a reply.
LEMMA GotPduIsQuiet ==
  ASSUME RP!TypeOK, NEW m \in reps, GotPdu(m)
  PROVE  Quiet
<1> USE DEF R!serverVars, RP!Xids, Xids
<1>0. R!got_pdu(m) /\ m.clt \in Clients /\ m.xid \in Xids
  BY DEF GotPdu, RP!TypeOK, RP!Replies
<1>1. \A d \in Clients, y \in Xids :
        \/ reply'[d][y] = reply[d][y]
        \/ d = m.clt /\ y = m.xid /\ reply[d][y].ret = "none" /\ reply'[d][y].ret = m.ret
  BY <1>0 DEF R!got_pdu, R!IsDone, RP!TypeOK
<1>2. UNCHANGED <<hdr, runs, nonce, pc, thr>> /\ reps' \subseteq reps
  BY <1>0 DEF R!got_pdu
<1>3. \A d \in Clients, y \in Xids : OkOf(d, y)' => OkOf(d, y)
  BY <1>1, <1>2 DEF OkOf
<1> QED BY <1>1, <1>2, <1>3 DEF Quiet, Used

\* And what dispatch does without running a handler.
LEMMA DispatchOtherIsQuiet ==
  ASSUME CallFacts, RP!TypeOK, NEW t \in Threads, NEW m \in reqs, DispatchOther(t, m)
  PROVE  Quiet
<1> USE DEF R!clientVars, R!serverVars
<1>1. ASSUME UNCHANGED <<hdr, runs, nonce, pc, reply, thr>>, NEW ret,
             reps' = reps \cup {[clt |-> m.clt, xid |-> m.xid, ret |-> ret, val |-> nonce]}, ret # "ok"
      PROVE  Quiet
  <2>1. \A d \in Clients, y \in Xids : OkOf(d, y)' => OkOf(d, y)
    BY <1>1 DEF OkOf
  <2> QED BY <1>1, <2>1 DEF Quiet, Used
<1>2. CASE R!DispatchOldServer(t, m)
  BY <1>1, <1>2 DEF R!DispatchOldServer, R!SendReply
<1>3. CASE R!DispatchForgotten(t, m)
  BY <1>1, <1>3 DEF R!DispatchForgotten, R!SendReply
<1>4. CASE R!DispatchInProgress(t, m)
  BY <1>4 DEF R!DispatchInProgress, Quiet, Used, OkOf
<1>5. CASE R!DispatchDone(t, m)
  <2>1. /\ UNCHANGED <<hdr, runs, nonce, pc, reply, reps>>
        /\ thr[t].at = "idle"
        /\ thr' = [thr EXCEPT ![t] = [at |-> "send", clt |-> m.clt, xid |-> m.xid, owned |-> TRUE]]
        /\ hdr[m.clt][m.xid].srv_nonce \in {0, nonce}
    BY <1>5 DEF R!DispatchDone, R!Accept, R!Receive, R!OldServer
  <2>2. /\ m.clt \in Clients /\ m.xid \in Xids /\ Used(m.clt, m.xid)
    BY DEF CallFacts
  <2>3. hdr[m.clt][m.xid].op = Bind \/ hdr[m.clt][m.xid].srv_nonce = nonce
    BY <2>1, <2>2 DEF CallFacts
  <2>4. \A u \in Threads :
          thr'[u] = IF u = t THEN [at |-> "send", clt |-> m.clt, xid |-> m.xid, owned |-> TRUE] ELSE thr[u]
    BY <2>1 DEF RP!TypeOK
  <2> QED BY <2>1, <2>3, <2>4 DEF Quiet, Used, OkOf
<1> QED BY <1>2, <1>3, <1>4, <1>5 DEF DispatchOther

\* And the sending of a reply: the thread that sends it vouches for it.
LEMMA ReplySendIsQuiet ==
  ASSUME RP!TypeOK, NEW t \in Threads, ReplySend(t)
  PROVE  Quiet
<1> USE DEF R!clientVars
<1>1. /\ UNCHANGED <<hdr, runs, nonce, pc, reply>>
      /\ thr[t].at = "send"
      /\ thr' = [thr EXCEPT ![t] = R!Idle]
      /\ \A m \in reps' : m \in reps \/ (m.clt = thr[t].clt /\ m.xid = thr[t].xid)
  BY DEF ReplySend, R!ReplySend, R!SendReply
<1>2. \A u \in Threads : thr'[u] = IF u = t THEN R!Idle ELSE thr[u]
  BY <1>1 DEF RP!TypeOK
<1>3. \A c \in Clients, x \in Xids : OkOf(c, x)' => OkOf(c, x) \/ Sending(t, c, x)
  BY <1>1 DEF OkOf, Sending
<1> QED BY <1>1, <1>2, <1>3 DEF Quiet, Used, R!Idle

-----------------------------------------------------------------------------
(* Steps of the application threads *)

\* What a new call does to the RPC state: it takes an xid nobody knows.
LEMMA NewCallEffect ==
  ASSUME RP!TypeOK, RP!HeaderInv, NEW c \in Clients, NEW op, R!Call(c, op)
  PROVE /\ xid[c] \in Xids /\ ~Used(c, xid[c])
        /\ hdr'[c][xid[c]].op = op
        /\ \A d \in Clients, y \in Xids :
             /\ Used(d, y)' <=> Used(d, y) \/ (d = c /\ y = xid[c])
             /\ ~(d = c /\ y = xid[c]) => hdr'[d][y] = hdr[d][y]
        /\ UNCHANGED <<reply, reps, thr, runs, nonce>>
<1> USE DEF RP!Xids, Xids
<1>1. xid[c] \in Xids
  BY DEF R!Call, RP!TypeOK
<1>2. ~Used(c, xid[c])
  BY <1>1 DEF RP!HeaderInv, RP!Used, Used
<1>3. PICK r : hdr' = [hdr EXCEPT ![c][xid[c]] = [op |-> op, srv_nonce |-> srv_nonce[c], xid_rep |-> r]]
  BY DEF R!Call
<1>4. pc' = [pc EXCEPT ![c][xid[c]] = "send"]
  BY DEF R!Call, R!GoTo
<1>5. hdr'[c][xid[c]].op = op
  BY <1>1, <1>3 DEF RP!TypeOK
<1>6. \A d \in Clients, y \in Xids :
        /\ pc'[d][y] = IF d = c /\ y = xid[c] THEN "send" ELSE pc[d][y]
        /\ ~(d = c /\ y = xid[c]) => hdr'[d][y] = hdr[d][y]
  BY <1>1, <1>3, <1>4 DEF RP!TypeOK
<1>7. UNCHANGED <<reply, reps, thr, runs, nonce>>
  BY DEF R!Call, R!serverVars, R!netVars
<1> QED BY <1>1, <1>2, <1>5, <1>6, <1>7 DEF Used

\* A dispatch thread knows nothing of the xid of a new call.
LEMMA NewCallKeepsThreads ==
  ASSUME CallFacts, ThreadInv, RP!TypeOK, RP!HeaderInv, NEW c \in Clients, NEW op, R!Call(c, op),
         UNCHANGED lockVars
  PROVE  /\ ThreadInv'
         /\ \A d \in Clients, y \in Xids : Effected(d, y)' <=> Effected(d, y)
         /\ \A d \in Clients, y \in Xids : OkOf(d, y)' <=> OkOf(d, y)
<1> USE DEF lockVars
<1>1. /\ xid[c] \in Xids /\ ~Used(c, xid[c])
      /\ \A d \in Clients, y \in Xids : Used(d, y) => hdr'[d][y] = hdr[d][y]
      /\ UNCHANGED <<reply, reps, thr, runs, nonce>>
  BY NewCallEffect
<1>2. \A t \in Threads : thr[t].at # "idle" => hdr'[thr[t].clt][thr[t].xid] = hdr[thr[t].clt][thr[t].xid]
  BY <1>1 DEF CallFacts
<1>3. \A t \in Threads : Serving(t)' <=> Serving(t)
  BY <1>1, <1>2 DEF Serving
<1>4. ThreadInv'
  <2> SUFFICES ASSUME NEW t \in Threads
               PROVE /\ thread'[t].at # "idle" <=> Serving(t)'
                     /\ Serving(t)' => /\ thread'[t].clt = thr'[t].clt
                                       /\ thread'[t].op = hdr'[thr'[t].clt][thr'[t].xid].op.proc
                                       /\ thread'[t].lid = hdr'[thr'[t].clt][thr'[t].xid].op.lid
                     /\ thread'[t].at \in {"waiting", "woken"} => thread'[t].op = "acquire"
                     /\ thr'[t].at # "idle" /\ hdr'[thr'[t].clt][thr'[t].xid].op # Bind =>
                            hdr'[thr'[t].clt][thr'[t].xid].srv_nonce = nonce'
    BY DEF ThreadInv
  <2>1. Serving(t) => thr[t].at # "idle"
    BY DEF Serving
  <2> QED BY <1>1, <1>2, <1>3, <2>1 DEF ThreadInv
<1>5. \A d \in Clients, y \in Xids : Effected(d, y)' <=> Effected(d, y)
  BY <1>1 DEF Effected, Running
<1> QED BY <1>1, <1>4, <1>5 DEF OkOf

\* The constructor of lock_client binds: no application thread is involved.
LEMMA StartBindKeepsInv ==
  ASSUME CallFacts, RP!TypeOK, RP!HeaderInv, LInv, NEW c \in Clients, StartBind(c)
  PROVE  LInv'
<1> USE DEF lockVars
<1>0. R!Call(c, Bind) /\ UNCHANGED <<mapLocks, thread, crashed, app>>
  BY DEF StartBind
<1>1. /\ xid[c] \in Xids /\ ~Used(c, xid[c])
      /\ hdr'[c][xid[c]].op = Bind
      /\ \A d \in Clients, y \in Xids :
           /\ Used(d, y)' <=> Used(d, y) \/ (d = c /\ y = xid[c])
           /\ ~(d = c /\ y = xid[c]) => hdr'[d][y] = hdr[d][y]
      /\ UNCHANGED <<reply, reps, thr, runs, nonce>>
  BY <1>0, NewCallEffect
<1>2. OwnTypes'
  BY <1>0 DEF LInv, OwnTypes, S!TypeOK, StartBind
<1>3. \A a \in AppThreads : Busy(a) =>
        /\ ClientOf[a] \in Clients /\ app[a].xid \in Xids
        /\ Used(ClientOf[a], app[a].xid)
        /\ hdr'[ClientOf[a]][app[a].xid] = hdr[ClientOf[a]][app[a].xid]
  BY <1>1, BusyCall DEF LInv
<1>4. CallInv'
  <2>1. \A a \in AppThreads : Busy(a)' =>
           /\ Used(ClientOf[a], app[a].xid)'
           /\ hdr'[ClientOf[a]][app'[a].xid].op = RequestOf(a)'
           /\ app'[a].at = "holding" => reply'[ClientOf[a]][app'[a].xid].ret = "ok"
    BY <1>0, <1>1, <1>3 DEF LInv, CallInv, Busy, RequestOf
  <2>2. \A a, b \in AppThreads :
          a # b /\ Busy(a)' /\ Busy(b)' /\ ClientOf[a] = ClientOf[b] => app'[a].xid # app'[b].xid
    BY <1>0 DEF LInv, CallInv, Busy
  <2>3. \A d \in Clients, y \in Xids : Used(d, y)' /\ hdr'[d][y].op # Bind =>
           \/ reply'[d][y].ret = "ok"
           \/ \E a \in AppThreads : /\ ClientOf[a] = d
                                    /\ app'[a].at \in {"acquiring", "releasing"}
                                    /\ app'[a].xid = y
    BY <1>0, <1>1 DEF LInv, CallInv
  <2> QED BY <2>1, <2>2, <2>3 DEF CallInv
<1>5. /\ ThreadInv'
      /\ \A d \in Clients, y \in Xids : Effected(d, y)' <=> Effected(d, y)
      /\ \A d \in Clients, y \in Xids : OkOf(d, y)' <=> OkOf(d, y)
  BY <1>0, NewCallKeepsThreads DEF LInv
<1>6. \A a \in AppThreads : Busy(a) => Instance(a)' = Instance(a) /\ (Entitled(a)' <=> Entitled(a))
  BY <1>0, <1>1, <1>3, <1>5 DEF Instance, Entitled
<1>7. \A a \in AppThreads : ~Busy(a) => ~Entitled(a) /\ ~Entitled(a)'
  BY <1>0 DEF Entitled, Busy
<1>8. EntitledInv'
  BY <1>0, <1>1, <1>6, <1>7, EntitledFrame DEF LInv
<1> QED BY <1>0, <1>2, <1>4, <1>5, <1>8 DEF LInv, NoNullLock

\* lock_client::acquire: the new call is not executed yet, so a gains nothing.
LEMMA StartAcquireKeepsInv ==
  ASSUME CallFacts, RP!TypeOK, RP!HeaderInv, LInv, NEW a \in AppThreads, NEW lid \in LockIds,
         StartAcquire(a, lid)
  PROVE  LInv'
<1> USE DEF lockVars
<1>0. PICK c \in Clients : c = ClientOf[a]
  OBVIOUS
<1>1. /\ R!Call(c, [proc |-> "acquire", lid |-> lid])
      /\ app[a].at = "resting" /\ app[a].rounds < MaxRounds
      /\ app' = [app EXCEPT ![a] = [at |-> "acquiring", xid |-> xid[c], lid |-> lid,
                                    rounds |-> app[a].rounds + 1]]
      /\ UNCHANGED <<mapLocks, thread, crashed, client>>
  BY <1>0 DEF StartAcquire
<1>2. /\ xid[c] \in Xids /\ ~Used(c, xid[c])
      /\ hdr'[c][xid[c]].op = [proc |-> "acquire", lid |-> lid]
      /\ \A d \in Clients, y \in Xids :
           /\ Used(d, y)' <=> Used(d, y) \/ (d = c /\ y = xid[c])
           /\ ~(d = c /\ y = xid[c]) => hdr'[d][y] = hdr[d][y]
      /\ UNCHANGED <<reply, reps, thr, runs, nonce>>
  BY <1>1, NewCallEffect
<1>3. \A b \in AppThreads :
        app'[b] = IF b = a THEN [at |-> "acquiring", xid |-> xid[c], lid |-> lid,
                                 rounds |-> app[a].rounds + 1] ELSE app[b]
  BY <1>1 DEF LInv, OwnTypes
<1>4. app'[a].at = "acquiring" /\ app'[a].xid = xid[c] /\ app'[a].lid = lid
  BY <1>3
<1>5. OwnTypes'
  <2>1. app[a].rounds \in 0 .. MaxRounds
    BY <1>1 DEF LInv, OwnTypes, Resting, Working
  <2>2. [at |-> "acquiring", xid |-> xid[c], lid |-> lid, rounds |-> app[a].rounds + 1] \in Working
    BY <1>1, <1>2, <2>1 DEF Working
  <2>3. app' \in [AppThreads -> Resting \cup Working]
    BY <1>1, <2>2 DEF LInv, OwnTypes
  <2> QED BY <1>1, <2>3 DEF LInv, OwnTypes, S!TypeOK
<1>6. \A b \in AppThreads : Busy(b) =>
        /\ b # a /\ app'[b] = app[b]
        /\ ClientOf[b] \in Clients /\ app[b].xid \in Xids
        /\ Used(ClientOf[b], app[b].xid)
        /\ ~(ClientOf[b] = c /\ app[b].xid = xid[c])
        /\ hdr'[ClientOf[b]][app[b].xid] = hdr[ClientOf[b]][app[b].xid]
  BY <1>1, <1>2, <1>3, BusyCall DEF LInv, Busy
<1>7. \A b \in AppThreads : Busy(b)' => b = a \/ Busy(b)
  BY <1>3 DEF Busy
<1>8. CallInv'
  <2>1. ASSUME NEW b \in AppThreads, Busy(b)'
        PROVE  /\ Used(ClientOf[b], app[b].xid)'
               /\ hdr'[ClientOf[b]][app'[b].xid].op = RequestOf(b)'
               /\ app'[b].at = "holding" => reply'[ClientOf[b]][app'[b].xid].ret = "ok"
    <3>1. CASE b = a
      BY <1>0, <1>2, <1>4, <3>1 DEF RequestOf
    <3>2. CASE Busy(b)
      BY <1>2, <1>6, <3>2 DEF LInv, CallInv, RequestOf
    <3> QED BY <1>7, <2>1, <3>1, <3>2
  <2>2. \A b, e \in AppThreads :
          b # e /\ Busy(b)' /\ Busy(e)' /\ ClientOf[b] = ClientOf[e] => app'[b].xid # app'[e].xid
    BY <1>0, <1>4, <1>6, <1>7 DEF LInv, CallInv
  <2>3. ASSUME NEW d \in Clients, NEW y \in Xids, Used(d, y)', hdr'[d][y].op # Bind
        PROVE  \/ reply'[d][y].ret = "ok"
               \/ \E b \in AppThreads : /\ ClientOf[b] = d
                                        /\ app'[b].at \in {"acquiring", "releasing"}
                                        /\ app'[b].xid = y
    <3>1. CASE d = c /\ y = xid[c]
      BY <1>0, <1>4, <3>1
    <3>2. CASE ~(d = c /\ y = xid[c])
      BY <1>2, <1>6, <2>3, <3>2 DEF LInv, CallInv, Busy
    <3> QED BY <3>1, <3>2
  <2> QED BY <2>1, <2>2, <2>3 DEF CallInv
<1>9. /\ ThreadInv'
      /\ \A d \in Clients, y \in Xids : Effected(d, y)' <=> Effected(d, y)
      /\ \A d \in Clients, y \in Xids : OkOf(d, y)' <=> OkOf(d, y)
  BY <1>1, NewCallKeepsThreads DEF LInv
<1>10. \A b \in AppThreads : Busy(b) => Instance(b)' = Instance(b) /\ (Entitled(b)' <=> Entitled(b))
  BY <1>2, <1>6, <1>9 DEF Instance, Entitled
<1>11. \A b \in AppThreads : ~Busy(b) => ~Entitled(b)
  BY DEF Entitled, Busy
<1>12. \A b \in AppThreads : ~Busy(b) => ~Entitled(b)'
  <2> SUFFICES ASSUME NEW b \in AppThreads, ~Busy(b), Entitled(b)' PROVE FALSE
    OBVIOUS
  <2>1. b = a
    BY <1>7 DEF Entitled, Busy
  <2>2. ~Effected(c, xid[c]) /\ ~OkOf(c, xid[c])
    <3>1. ~\E m \in reps : m.clt = c /\ m.xid = xid[c]
      BY <1>2 DEF CallFacts
    <3>2. runs[c][xid[c]] = 0 /\ reply[c][xid[c]].ret = "none"
      BY <1>2 DEF CallFacts
    <3> QED BY <3>1, <3>2 DEF Effected, OkOf
  <2> QED BY <1>0, <1>2, <1>4, <1>9, <2>1, <2>2 DEF Entitled
<1>13. EntitledInv'
  BY <1>1, <1>2, <1>6, <1>10, <1>11, <1>12, EntitledFrame DEF LInv
<1> QED BY <1>1, <1>5, <1>8, <1>9, <1>13 DEF LInv, NoNullLock

\* lock_client::release: a stays entitled, to the same lock of the same instance.
LEMMA StartReleaseKeepsInv ==
  ASSUME CallFacts, CallFacts', RP!TypeOK, RP!HeaderInv, LInv, NEW a \in AppThreads, StartRelease(a)
  PROVE  LInv'
<1> USE DEF lockVars
<1>0. PICK c \in Clients, lid \in LockIds : c = ClientOf[a] /\ lid = app[a].lid
  BY BusyCall DEF LInv, StartRelease, Busy
<1>1. /\ R!Call(c, [proc |-> "release", lid |-> lid])
      /\ app[a].at = "holding"
      /\ app' = [app EXCEPT ![a].at = "releasing", ![a].xid = xid[c]]
      /\ UNCHANGED <<mapLocks, thread, crashed, client>>
  BY <1>0 DEF StartRelease
<1>2. /\ xid[c] \in Xids /\ ~Used(c, xid[c])
      /\ hdr'[c][xid[c]].op = [proc |-> "release", lid |-> lid]
      /\ \A d \in Clients, y \in Xids :
           /\ Used(d, y)' <=> Used(d, y) \/ (d = c /\ y = xid[c])
           /\ ~(d = c /\ y = xid[c]) => hdr'[d][y] = hdr[d][y]
      /\ UNCHANGED <<reply, reps, thr, runs, nonce>>
  BY <1>1, NewCallEffect
<1>3. app[a] \in Working
  BY <1>1 DEF LInv, OwnTypes, Resting
<1>4. /\ app'[a].at = "releasing" /\ app'[a].xid = xid[c] /\ app'[a].lid = lid
      /\ \A b \in AppThreads : b # a => app'[b] = app[b]
  BY <1>0, <1>1, <1>3 DEF LInv, OwnTypes, Working
<1>5. OwnTypes'
  <2>1. [app[a] EXCEPT !.at = "releasing", !.xid = xid[c]] \in Working
    BY <1>2, <1>3 DEF Working
  <2>2. app' = [app EXCEPT ![a] = [app[a] EXCEPT !.at = "releasing", !.xid = xid[c]]]
    BY <1>1, <1>3 DEF LInv, OwnTypes, Working
  <2>3. app' \in [AppThreads -> Resting \cup Working]
    BY <2>1, <2>2 DEF LInv, OwnTypes
  <2> QED BY <1>1, <2>3 DEF LInv, OwnTypes, S!TypeOK
<1>6. \A b \in AppThreads : Busy(b) =>
        /\ ClientOf[b] \in Clients /\ app[b].xid \in Xids
        /\ Used(ClientOf[b], app[b].xid)
        /\ ~(ClientOf[b] = c /\ app[b].xid = xid[c])
        /\ hdr'[ClientOf[b]][app[b].xid] = hdr[ClientOf[b]][app[b].xid]
  BY <1>1, <1>2, BusyCall DEF LInv
<1>7. Busy(a) /\ \A b \in AppThreads : Busy(b)' <=> Busy(b)
  BY <1>1, <1>4 DEF Busy
<1>8. CallInv'
  <2>1. ASSUME NEW b \in AppThreads, Busy(b)'
        PROVE  /\ Used(ClientOf[b], app[b].xid)'
               /\ hdr'[ClientOf[b]][app'[b].xid].op = RequestOf(b)'
               /\ app'[b].at = "holding" => reply'[ClientOf[b]][app'[b].xid].ret = "ok"
    <3>1. CASE b = a
      BY <1>0, <1>2, <1>4, <3>1 DEF RequestOf
    <3>2. CASE b # a
      BY <1>2, <1>4, <1>6, <1>7, <2>1, <3>2 DEF LInv, CallInv, RequestOf
    <3> QED BY <3>1, <3>2
  <2>2. \A b, e \in AppThreads :
          b # e /\ Busy(b)' /\ Busy(e)' /\ ClientOf[b] = ClientOf[e] => app'[b].xid # app'[e].xid
    BY <1>0, <1>4, <1>6, <1>7 DEF LInv, CallInv
  <2>3. ASSUME NEW d \in Clients, NEW y \in Xids, Used(d, y)', hdr'[d][y].op # Bind
        PROVE  \/ reply'[d][y].ret = "ok"
               \/ \E b \in AppThreads : /\ ClientOf[b] = d
                                        /\ app'[b].at \in {"acquiring", "releasing"}
                                        /\ app'[b].xid = y
    <3>1. CASE d = c /\ y = xid[c]
      BY <1>0, <1>4, <3>1
    <3>2. CASE ~(d = c /\ y = xid[c])
      <4>1. Used(d, y) /\ hdr[d][y].op # Bind
        BY <1>2, <2>3, <3>2
      <4>2. CASE reply[d][y].ret = "ok"
        BY <1>2, <4>2
      <4>3. ASSUME NEW b \in AppThreads, ClientOf[b] = d, app[b].at \in {"acquiring", "releasing"},
                   app[b].xid = y
            PROVE  app'[b] = app[b]
        BY <1>1, <1>4, <4>3
      <4> QED BY <4>1, <4>2, <4>3 DEF LInv, CallInv
    <3> QED BY <3>1, <3>2
  <2> QED BY <2>1, <2>2, <2>3 DEF CallInv
<1>9. /\ ThreadInv'
      /\ \A d \in Clients, y \in Xids : Effected(d, y)' <=> Effected(d, y)
      /\ \A d \in Clients, y \in Xids : OkOf(d, y)' <=> OkOf(d, y)
  BY <1>1, NewCallKeepsThreads DEF LInv
<1>10. \A b \in AppThreads : b # a => /\ Busy(b) => Instance(b)' = Instance(b)
                                      /\ Entitled(b)' <=> Entitled(b)
  BY <1>2, <1>4, <1>6, <1>7, <1>9 DEF Instance, Entitled, Busy
<1>11. Entitled(a) /\ Entitled(a)'
  <2>1. ~Effected(c, xid[c])
    BY <1>2 DEF CallFacts, Effected
  <2> QED BY <1>0, <1>1, <1>2, <1>4, <1>9, <2>1 DEF Entitled
<1>12. Instance(a)' = Instance(a)
  <2>1. PICK x \in Xids : x = app[a].xid
    BY <1>6, <1>7
  <2>2. /\ hdr'[c][x].op # Bind /\ Used(c, x)' /\ hdr'[c][x] = hdr[c][x]
    BY <1>0, <1>2, <1>6, <1>7, <2>1, BusyCall DEF LInv
  <2>3. PICK y \in Xids : y = xid[c]
    BY <1>2
  <2>4. hdr'[c][y].op # Bind /\ Used(c, y)'
    <3>1. [proc |-> "release", lid |-> lid] \in Requests
      BY DEF Requests
    <3> QED BY <1>2, <2>3, <3>1
  <2>5. hdr'[c][x].srv_nonce = srv_nonce'[c] /\ hdr'[c][y].srv_nonce = srv_nonce'[c]
    BY <2>2, <2>4 DEF CallFacts
  <2> QED BY <1>0, <1>4, <2>1, <2>2, <2>3, <2>5 DEF Instance
<1>13. \A b \in AppThreads : Entitled(b) => app'[b].lid = app[b].lid /\ Busy(b)
  BY <1>0, <1>4 DEF Entitled, Busy
<1>14. EntitledInv'
  BY <1>1, <1>2, <1>10, <1>11, <1>12, <1>13, EntitledFrame DEF LInv
<1> QED BY <1>1, <1>5, <1>8, <1>9, <1>14 DEF LInv, NoNullLock

\* The call returns OK: from acquire a holds its lock, from release it is done.
LEMMA ReturnOkKeepsInv ==
  ASSUME CallFacts, LInv, NEW a \in AppThreads, ReturnOk(a)
  PROVE  LInv'
<1> USE DEF lockVars, rpcVars
<1>0. Busy(a)
  BY DEF ReturnOk, Busy
<1>1. PICK c \in Clients, x \in Xids, lid \in LockIds :
        c = ClientOf[a] /\ x = app[a].xid /\ lid = app[a].lid /\ hdr[c][x].op # Bind
  BY <1>0, BusyCall DEF LInv
<1>2. /\ app[a].at \in {"acquiring", "releasing"} /\ reply[c][x].ret = "ok"
      /\ app' = [app EXCEPT ![a] = IF app[a].at = "acquiring" THEN [app[a] EXCEPT !.at = "holding"]
                                   ELSE [at |-> "resting", rounds |-> app[a].rounds]]
      /\ UNCHANGED <<hdr, pc, reply, reps, thr, runs, nonce, mapLocks, thread, crashed, client>>
  BY <1>1 DEF ReturnOk
<1>3. app[a] \in Working
  BY <1>0 DEF LInv, OwnTypes, Resting, Busy
<1>4. /\ \A b \in AppThreads : b # a => app'[b] = app[b]
      /\ app[a].at = "acquiring" => app'[a].at = "holding" /\ app'[a].xid = x /\ app'[a].lid = lid
      /\ app[a].at = "releasing" => app'[a].at = "resting"
  BY <1>1, <1>2, <1>3 DEF LInv, OwnTypes, Working
<1>5. OwnTypes'
  <2>1. [app[a] EXCEPT !.at = "holding"] \in Working /\ [at |-> "resting", rounds |-> app[a].rounds] \in Resting
    BY <1>3 DEF Working, Resting
  <2>2. app' \in [AppThreads -> Resting \cup Working]
    BY <1>2, <2>1 DEF LInv, OwnTypes
  <2> QED BY <1>2, <2>2 DEF LInv, OwnTypes, S!TypeOK
<1>6. CallInv'
  <2>1. ASSUME NEW b \in AppThreads, Busy(b)'
        PROVE  /\ Used(ClientOf[b], app[b].xid)'
               /\ hdr'[ClientOf[b]][app'[b].xid].op = RequestOf(b)'
               /\ app'[b].at = "holding" => reply'[ClientOf[b]][app'[b].xid].ret = "ok"
    <3>1. CASE b = a
      <4>1. app[a].at = "acquiring"
        BY <1>2, <1>4, <2>1, <3>1 DEF Busy
      <4> QED BY <1>0, <1>1, <1>2, <1>4, <3>1, <4>1 DEF LInv, CallInv, RequestOf, Used
    <3>2. CASE b # a
      BY <1>2, <1>4, <2>1, <3>2 DEF LInv, CallInv, RequestOf, Used, Busy
    <3> QED BY <3>1, <3>2
  <2>2. ASSUME NEW b \in AppThreads, NEW e \in AppThreads,
               b # e, Busy(b)', Busy(e)', ClientOf[b] = ClientOf[e]
        PROVE  app'[b].xid # app'[e].xid
    <3>1. \A f \in AppThreads : Busy(f)' => Busy(f) /\ app'[f].xid = app[f].xid
      BY <1>0, <1>1, <1>2, <1>4 DEF Busy
    <3> QED BY <2>2, <3>1 DEF LInv, CallInv
  <2>3. ASSUME NEW d \in Clients, NEW y \in Xids, Used(d, y)', hdr'[d][y].op # Bind
        PROVE  \/ reply'[d][y].ret = "ok"
               \/ \E b \in AppThreads : /\ ClientOf[b] = d
                                        /\ app'[b].at \in {"acquiring", "releasing"}
                                        /\ app'[b].xid = y
    <3>1. CASE d = c /\ y = x
      BY <1>2, <3>1
    <3>2. CASE ~(d = c /\ y = x)
      BY <1>1, <1>2, <1>4, <2>3, <3>2 DEF LInv, CallInv, Used
    <3> QED BY <3>1, <3>2
  <2> QED BY <2>1, <2>2, <2>3 DEF CallInv
<1>7. ThreadInv'
  BY <1>2 DEF LInv, ThreadInv, Serving
<1>8. /\ \A d \in Clients, y \in Xids : Effected(d, y)' <=> Effected(d, y)
      /\ \A d \in Clients, y \in Xids : OkOf(d, y)' <=> OkOf(d, y)
  BY <1>2 DEF Effected, Running, OkOf
<1>9. \A b \in AppThreads : b # a => Instance(b)' = Instance(b) /\ (Entitled(b)' <=> Entitled(b))
  <2> SUFFICES ASSUME NEW b \in AppThreads, b # a
               PROVE  Instance(b)' = Instance(b) /\ (Entitled(b)' <=> Entitled(b))
    OBVIOUS
  <2>1. app'[b] = app[b]
    BY <1>4
  <2>2. Instance(b)' = Instance(b)
    BY <1>2, <2>1 DEF Instance
  <2>3. CASE Busy(b)
    <3>1. PICK d \in Clients, y \in Xids : d = ClientOf[b] /\ y = app[b].xid
      BY <2>3, BusyCall DEF LInv
    <3> QED BY <1>2, <1>8, <2>1, <2>2, <3>1 DEF Entitled
  <2>4. CASE ~Busy(b)
    BY <2>1, <2>2, <2>4 DEF Entitled, Busy
  <2> QED BY <2>2, <2>3, <2>4
<1>10. CASE app[a].at = "acquiring"
  <2>1. Instance(a)' = Instance(a)
    BY <1>1, <1>2, <1>4, <1>10 DEF Instance
  <2>2. Entitled(a) /\ Entitled(a)' /\ app'[a].lid = app[a].lid
    BY <1>1, <1>2, <1>4, <1>10 DEF Entitled, OkOf
  <2>3. EntitledInv'
    BY <1>2, <1>4, <1>9, <2>1, <2>2, EntitledFrame DEF LInv
  <2> QED BY <1>2, <1>5, <1>6, <1>7, <2>3 DEF LInv, NoNullLock
<1>11. CASE app[a].at = "releasing"
  <2>1. Effected(c, x)
    BY <1>1, <1>2 DEF CallFacts, OkOf, Settled, Effected
  <2>2. ~Entitled(a) /\ ~Entitled(a)'
    BY <1>1, <1>4, <1>11, <2>1 DEF Entitled
  <2>3. EntitledInv'
    BY <1>2, <1>4, <1>9, <2>2, EntitledFrame DEF LInv
  <2> QED BY <1>2, <1>5, <1>6, <1>7, <2>3 DEF LInv, NoNullLock
<1> QED BY <1>2, <1>10, <1>11

\* Steps that change only what lock_client's process is doing.
LEMMA ClientOnlyKeepsInv ==
  ASSUME LInv, UNCHANGED <<rpcVars, lockVars, app>>,
         client' \in [Clients -> {"new", "binding", "bound", "aborted"}]
  PROVE  LInv'
<1> USE DEF lockVars, rpcVars
<1>1. OwnTypes'
  BY DEF LInv, OwnTypes, S!TypeOK
<1>2. CallInv'
  BY DEF LInv, CallInv, Busy, RequestOf, Used
<1>3. ThreadInv'
  BY DEF LInv, ThreadInv, Serving
<1>4. EntitledInv'
  BY DEF LInv, EntitledInv, Entitled, Instance, LockedFor, Effected, OkOf, Running
<1> QED BY <1>1, <1>2, <1>3, <1>4 DEF LInv, NoNullLock

-----------------------------------------------------------------------------
(* Steps of the server *)

\* The server's steps leave the application threads and their calls alone.
LEMMA CallFrame ==
  ASSUME CallInv, UNCHANGED <<app, hdr, pc, reply>>
  PROVE  CallInv'
BY DEF CallInv, Busy, RequestOf, Used

\* A step after which the same handlers have done their work changes no entitlement.
LEMMA EffectedFrame ==
  ASSUME OwnTypes, CallInv, EntitledInv, UNCHANGED <<app, hdr, reply, reps, nonce, mapLocks>>,
         \A c \in Clients, x \in Xids : hdr[c][x].op # Bind => (Effected(c, x)' <=> Effected(c, x))
  PROVE  EntitledInv'
<1>1. \A a \in AppThreads : Instance(a)' = Instance(a)
  BY DEF Instance
<1>2. \A a \in AppThreads : Entitled(a)' <=> Entitled(a)
  <2> SUFFICES ASSUME NEW a \in AppThreads PROVE Entitled(a)' <=> Entitled(a)
    OBVIOUS
  <2>1. CASE Busy(a)
    <3>1. PICK c \in Clients, x \in Xids : c = ClientOf[a] /\ x = app[a].xid /\ hdr[c][x].op # Bind
      BY <2>1, BusyCall
    <3>2. OkOf(c, x)' <=> OkOf(c, x)
      BY DEF OkOf
    <3> QED BY <1>1, <3>1, <3>2 DEF Entitled
  <2>2. CASE ~Busy(a)
    BY <2>2 DEF Entitled, Busy
  <2> QED BY <2>1, <2>2
<1> QED BY <1>1, <1>2, EntitledFrame

\* Who a running handler works for: an application thread that waits for it.
LEMMA ServingIsOwned ==
  ASSUME CallFacts, LInv, NEW t \in Threads, Serving(t)
  PROVE  \E a \in AppThreads :
           /\ ClientOf[a] = thr[t].clt /\ app[a].xid = thr[t].xid
           /\ app[a].lid = thread[t].lid
           /\ \/ app[a].at = "acquiring" /\ thread[t].op = "acquire"
              \/ app[a].at = "releasing" /\ thread[t].op = "release"
           /\ Instance(a) = nonce
<1>1. PICK c \in Clients, x \in Xids : c = thr[t].clt /\ x = thr[t].xid /\ Used(c, x) /\ hdr[c][x].op # Bind
  BY DEF CallFacts, Serving
<1>2. Running(t, c, x)
  BY <1>1 DEF Serving, Running
<1>3. reply[c][x].ret # "ok"
  BY <1>1, <1>2 DEF CallFacts, OkOf, Settled
<1>4. PICK a \in AppThreads : /\ ClientOf[a] = c /\ app[a].xid = x
                              /\ app[a].at \in {"acquiring", "releasing"}
  BY <1>1, <1>3 DEF LInv, CallInv
<1>5. hdr[c][x].op = RequestOf(a)
  BY <1>4, BusyCall DEF LInv, Busy
<1>6. thread[t].op = hdr[c][x].op.proc /\ thread[t].lid = hdr[c][x].op.lid /\ hdr[c][x].srv_nonce = nonce
  BY <1>1 DEF LInv, ThreadInv, Serving
<1> QED BY <1>1, <1>4, <1>5, <1>6 DEF RequestOf, Instance

\* dispatch starts a handler, which has not done its work yet.
LEMMA DispatchNewKeepsInv ==
  ASSUME CallFacts, CallFacts', RP!TypeOK, LInv, NEW t \in Threads, NEW m \in reqs, DispatchNew(t, m)
  PROVE  LInv'
<1> USE DEF lockVars, appVars, R!clientVars
<1>1. PICK c \in Clients, x \in Xids : c = m.clt /\ x = m.xid /\ Used(c, x)
  BY DEF CallFacts
<1>2. /\ thr[t].at = "idle"
      /\ thr' = [thr EXCEPT ![t] = [at |-> "run", clt |-> c, xid |-> x, owned |-> FALSE]]
      /\ runs' = [runs EXCEPT ![c][x] = @ + 1]
      /\ hdr[c][x].srv_nonce \in {0, nonce}
      /\ UNCHANGED <<app, client, hdr, pc, reply, reps, nonce>>
  BY <1>1 DEF DispatchNew, R!DispatchNew, R!Accept, R!Receive, R!OldServer
<1>3. \A u \in Threads :
        thr'[u] = IF u = t THEN [at |-> "run", clt |-> c, xid |-> x, owned |-> FALSE] ELSE thr[u]
  BY <1>2 DEF RP!TypeOK
<1>4. \A d \in Clients, y \in Xids : runs'[d][y] = IF d = c /\ y = x THEN runs[c][x] + 1 ELSE runs[d][y]
  BY <1>2 DEF RP!TypeOK, RP!Xids, Xids
<1>5. CallInv'
  BY <1>2, CallFrame DEF LInv
<1>6. \A d \in Clients, y \in Xids, u \in Threads :
        Running(u, d, y)' <=> Running(u, d, y) \/ (u = t /\ d = c /\ y = x)
  BY <1>2, <1>3 DEF Running
<1>7. \A u \in Threads : u # t => (Serving(u)' <=> Serving(u))
  BY <1>2, <1>3 DEF Serving
<1>8. thread[t].at = "idle"
  BY <1>2 DEF LInv, ThreadInv, Serving
<1>9. CASE hdr[c][x].op = Bind
  <2>1. UNCHANGED <<mapLocks, thread, crashed>>
    BY <1>1, <1>9 DEF DispatchNew
  <2>2. OwnTypes'
    BY <1>2, <2>1 DEF LInv, OwnTypes, S!TypeOK
  <2>3. ~Serving(t)' /\ thr'[t].clt = c /\ thr'[t].xid = x
    BY <1>2, <1>3, <1>9 DEF Serving
  <2>4. ThreadInv'
    BY <1>2, <1>3, <1>7, <1>8, <1>9, <2>1, <2>3 DEF LInv, ThreadInv
  <2>5. \A d \in Clients, y \in Xids : hdr[d][y].op # Bind => (Effected(d, y)' <=> Effected(d, y))
    BY <1>4, <1>6, <1>9, <2>1 DEF Effected
  <2>6. EntitledInv'
    BY <1>2, <2>1, <2>5, EffectedFrame DEF LInv
  <2> QED BY <1>5, <2>1, <2>2, <2>4, <2>6 DEF LInv, NoNullLock
<1>10. CASE hdr[c][x].op # Bind
  <2>1. PICK op \in Requests : op = hdr[c][x].op
    BY <1>10 DEF CallFacts
  <2>2. op.proc \in {"acquire", "release"} /\ op.lid \in LockIds
    BY DEF Requests
  <2>3. /\ thread' = [thread EXCEPT ![t] = [at |-> "entered", op |-> op.proc, clt |-> c, lid |-> op.lid]]
        /\ UNCHANGED <<mapLocks, crashed>>
    BY <1>1, <1>10, <2>1 DEF DispatchNew, S!Invoke
  <2>4. /\ \A u \in Threads : u # t => thread'[u] = thread[u]
        /\ thread'[t].at = "entered" /\ thread'[t].op = op.proc
        /\ thread'[t].clt = c /\ thread'[t].lid = op.lid
    BY <2>3 DEF LInv, OwnTypes, S!TypeOK
  <2>5. OwnTypes'
    <3>1. [at |-> "entered", op |-> op.proc, clt |-> c, lid |-> op.lid] \in S!Handler
      BY <2>2 DEF S!Handler, S!Ops
    <3>2. thread' \in [Threads -> S!Handler \cup {S!Idle}]
      BY <2>3, <3>1 DEF LInv, OwnTypes, S!TypeOK
    <3> QED BY <1>2, <2>3, <3>2 DEF LInv, OwnTypes, S!TypeOK
  <2>6. Serving(t)' /\ thr'[t].clt = c /\ thr'[t].xid = x
    BY <1>2, <1>3, <1>10 DEF Serving
  <2>7. hdr[c][x].srv_nonce = nonce
    BY <1>2, <1>10 DEF CallFacts
  <2>8. ThreadInv'
    BY <1>2, <1>3, <1>7, <2>1, <2>4, <2>6, <2>7 DEF LInv, ThreadInv
  <2>9. runs[c][x] = 0
    BY <1>2, <1>4, <1>10 DEF CallFacts
  <2>10. \A d \in Clients, y \in Xids : Effected(d, y)' <=> Effected(d, y)
    <3> SUFFICES ASSUME NEW d \in Clients, NEW y \in Xids PROVE Effected(d, y)' <=> Effected(d, y)
      OBVIOUS
    <3>1. CASE d = c /\ y = x
      BY <1>6, <2>4, <2>9, <3>1 DEF Effected
    <3>2. CASE ~(d = c /\ y = x)
      <4>1. ~Running(t, d, y)
        BY <1>2 DEF Running
      <4> QED BY <1>4, <1>6, <2>4, <3>2, <4>1 DEF Effected
    <3> QED BY <3>1, <3>2
  <2>11. EntitledInv'
    BY <1>2, <2>3, <2>10, EffectedFrame DEF LInv
  <2> QED BY <1>5, <2>3, <2>5, <2>8, <2>11 DEF LInv, NoNullLock
<1> QED BY <1>9, <1>10

\* A handler that has done its work returns to dispatch.
LEMMA HandlerReturnKeepsInv ==
  ASSUME CallFacts, RP!TypeOK, LInv, NEW t \in Threads, HandlerReturn(t)
  PROVE  LInv'
<1> USE DEF lockVars, appVars, R!clientVars, R!netVars
<1>1. PICK c \in Clients, x \in Xids : c = thr[t].clt /\ x = thr[t].xid /\ thr[t].at = "run"
  BY DEF CallFacts, HandlerReturn, R!HandlerReturn
<1>2. /\ thr' = [thr EXCEPT ![t].at = "send", ![t].owned = (window[c][x] # "absent")]
      /\ UNCHANGED <<app, client, hdr, pc, reply, reps, nonce, runs>>
  BY <1>1 DEF HandlerReturn, R!HandlerReturn
<1>3. /\ thr'[t].at = "send" /\ thr'[t].clt = c /\ thr'[t].xid = x
      /\ \A u \in Threads : u # t => thr'[u] = thr[u]
  <2>1. thr[t] \in RP!Dispatchers
    BY <1>1 DEF RP!TypeOK, RP!Idle
  <2> QED BY <1>1, <1>2, <2>1 DEF RP!TypeOK, RP!Dispatchers
<1>4. CallInv'
  BY <1>2, CallFrame DEF LInv
<1>5. \A d \in Clients, y \in Xids, u \in Threads : Running(u, d, y)' <=> Running(u, d, y) /\ u # t
  BY <1>3 DEF Running
<1>6. ~Serving(t)' /\ \A u \in Threads : u # t => (Serving(u)' <=> Serving(u))
  BY <1>2, <1>3 DEF Serving
<1>7. /\ UNCHANGED <<mapLocks, crashed>>
      /\ \A u \in Threads : u # t => thread'[u] = thread[u]
      /\ thread'[t].at = "idle"
      /\ thread' \in [Threads -> S!Handler \cup {S!Idle}]
      /\ hdr[c][x].op # Bind => thread[t].at = "returned"
  <2>1. CASE hdr[c][x].op = Bind
    <3>1. UNCHANGED <<mapLocks, thread, crashed>>
      BY <1>1, <2>1 DEF HandlerReturn
    <3>2. thread[t].at = "idle"
      BY <1>1, <2>1 DEF LInv, ThreadInv, Serving
    <3> QED BY <2>1, <3>1, <3>2 DEF LInv, OwnTypes, S!TypeOK
  <2>2. CASE hdr[c][x].op # Bind
    <3>1. S!Return(t)
      BY <1>1, <2>2 DEF HandlerReturn
    <3> QED BY <3>1 DEF S!Return, S!Idle, LInv, OwnTypes, S!TypeOK
  <2> QED BY <2>1, <2>2
<1>8. OwnTypes'
  BY <1>2, <1>7 DEF LInv, OwnTypes, S!TypeOK
<1>9. ThreadInv'
  <2> SUFFICES ASSUME NEW u \in Threads
               PROVE /\ thread'[u].at # "idle" <=> Serving(u)'
                     /\ Serving(u)' => /\ thread'[u].clt = thr'[u].clt
                                       /\ thread'[u].op = hdr'[thr'[u].clt][thr'[u].xid].op.proc
                                       /\ thread'[u].lid = hdr'[thr'[u].clt][thr'[u].xid].op.lid
                     /\ thread'[u].at \in {"waiting", "woken"} => thread'[u].op = "acquire"
                     /\ thr'[u].at # "idle" /\ hdr'[thr'[u].clt][thr'[u].xid].op # Bind =>
                            hdr'[thr'[u].clt][thr'[u].xid].srv_nonce = nonce'
    BY DEF ThreadInv
  <2>1. CASE u = t
    BY <1>1, <1>2, <1>3, <1>6, <1>7, <2>1 DEF LInv, ThreadInv
  <2>2. CASE u # t
    <3>1. thr'[u] = thr[u] /\ thread'[u] = thread[u] /\ (Serving(u)' <=> Serving(u))
      BY <1>3, <1>6, <1>7, <2>2
    <3> QED BY <1>2, <3>1 DEF LInv, ThreadInv
  <2> QED BY <2>1, <2>2
<1>10. \A d \in Clients, y \in Xids : hdr[d][y].op # Bind => (Effected(d, y)' <=> Effected(d, y))
  <2> SUFFICES ASSUME NEW d \in Clients, NEW y \in Xids, hdr[d][y].op # Bind
               PROVE  Effected(d, y)' <=> Effected(d, y)
    OBVIOUS
  <2>1. Running(t, d, y) => thread[t].at = "returned"
    BY <1>1, <1>7 DEF Running
  <2> QED BY <1>2, <1>5, <1>7, <2>1 DEF Effected
<1>11. EntitledInv'
  BY <1>2, <1>7, <1>10, EffectedFrame DEF LInv
<1> QED BY <1>4, <1>7, <1>8, <1>9, <1>11 DEF LInv, NoNullLock

\* A new instance of the server has no locks, no calls and no clients yet; what
\* its predecessor granted stays granted by that one.
LEMMA RestartKeepsInv ==
  ASSUME CallFacts, LInv, Restart
  PROVE  LInv'
<1> USE DEF appVars, R!clientVars
<1>1. /\ nonce' = nonce + 1
      /\ thr' = [t \in Threads |-> R!Idle]
      /\ thread' = [t \in Threads |-> S!Idle]
      /\ mapLocks' = [l \in LockIds |-> S!Absent]
      /\ crashed' = FALSE
      /\ UNCHANGED <<app, client, hdr, pc, reply, reps, runs>>
  BY DEF Restart, R!Restart
<1>2. OwnTypes'
  BY <1>1 DEF LInv, OwnTypes, S!TypeOK
<1>3. CallInv'
  BY <1>1, CallFrame DEF LInv
<1>4. ThreadInv'
  BY <1>1 DEF ThreadInv, Serving, R!Idle, S!Idle
<1>5. \A a \in AppThreads : Instance(a)' = Instance(a) /\ (Busy(a) => Instance(a) # nonce')
  <2> SUFFICES ASSUME NEW a \in AppThreads
               PROVE  Instance(a)' = Instance(a) /\ (Busy(a) => Instance(a) # nonce')
    OBVIOUS
  <2>1. Instance(a)' = Instance(a)
    BY <1>1 DEF Instance
  <2>2. ASSUME Busy(a) PROVE Instance(a) # nonce'
    <3>1. Instance(a) \in Nat /\ Instance(a) <= nonce /\ nonce \in Nat
      BY <2>2, BusyCall DEF LInv, CallFacts, Instance
    <3> QED BY <1>1, <3>1
  <2> QED BY <2>1, <2>2
<1>6. \A a \in AppThreads : Entitled(a)' => Entitled(a) /\ Busy(a)
  <2> SUFFICES ASSUME NEW a \in AppThreads, Entitled(a)' PROVE Entitled(a) /\ Busy(a)
    OBVIOUS
  <2>1. Busy(a)
    BY <1>1 DEF Entitled, Busy
  <2>2. PICK c \in Clients, x \in Xids : c = ClientOf[a] /\ x = app[a].xid
    BY <2>1, BusyCall DEF LInv
  <2>3. \A t \in Threads : ~Running(t, c, x)'
    BY <1>1 DEF Running, R!Idle
  <2>4. Effected(c, x) => Effected(c, x)'
    BY <1>1, <2>3 DEF Effected
  <2>5. OkOf(c, x)' <=> OkOf(c, x)
    BY <1>1 DEF OkOf
  <2> QED BY <1>1, <1>5, <2>1, <2>2, <2>4, <2>5 DEF Entitled
<1>7. EntitledInv'
  <2>1. \A a \in AppThreads : Entitled(a)' /\ Instance(a)' = nonce' => LockedFor(app[a].lid, ClientOf[a])'
    BY <1>5, <1>6
  <2>2. \A a, b \in AppThreads :
          a # b /\ Entitled(a)' /\ Entitled(b)' /\ app'[a].lid = app'[b].lid => Instance(a)' # Instance(b)'
    BY <1>1, <1>5, <1>6 DEF LInv, EntitledInv
  <2>3. \A l \in LockIds, c \in Clients : ~LockedFor(l, c)'
    BY <1>1 DEF LockedFor, S!Absent
  <2> QED BY <2>1, <2>2, <2>3 DEF EntitledInv
<1> QED BY <1>1, <1>2, <1>3, <1>4, <1>7 DEF LInv, NoNullLock

\* Handlers move on: each keeps its arguments, and only an acquire goes to sleep.
HandlersMove ==
    \A u \in Threads :
        \/ thread'[u] = thread[u]
        \/ /\ thread[u].at # "idle" /\ thread'[u].at # "idle"
           /\ thread'[u].op = thread[u].op /\ thread'[u].clt = thread[u].clt /\ thread'[u].lid = thread[u].lid
           /\ thread'[u].at \in {"waiting", "woken"} => thread[u].op = "acquire"

\* Such a step keeps threads and handlers together.
LEMMA HandlersMoveKeepThreads ==
  ASSUME ThreadInv, HandlersMove, UNCHANGED <<thr, hdr, nonce>>
  PROVE  ThreadInv'
<1> SUFFICES ASSUME NEW u \in Threads
             PROVE /\ thread'[u].at # "idle" <=> Serving(u)'
                   /\ Serving(u)' => /\ thread'[u].clt = thr'[u].clt
                                     /\ thread'[u].op = hdr'[thr'[u].clt][thr'[u].xid].op.proc
                                     /\ thread'[u].lid = hdr'[thr'[u].clt][thr'[u].xid].op.lid
                   /\ thread'[u].at \in {"waiting", "woken"} => thread'[u].op = "acquire"
                   /\ thr'[u].at # "idle" /\ hdr'[thr'[u].clt][thr'[u].xid].op # Bind =>
                          hdr'[thr'[u].clt][thr'[u].xid].srv_nonce = nonce'
  BY DEF ThreadInv
<1>1. Serving(u)' <=> Serving(u)
  BY DEF Serving
<1> QED BY <1>1 DEF ThreadInv, HandlersMove

\* A handler whose thread is not idle, with its types.
LEMMA HandlerType ==
  ASSUME LInv, NEW t \in Threads, thread[t].at # "idle"
  PROVE  /\ thread[t] \in S!Handler /\ Serving(t)
         /\ thread[t].clt \in Clients /\ thread[t].lid \in LockIds
<1>1. thread[t] \in S!Handler
  BY DEF LInv, OwnTypes, S!TypeOK, S!Idle
<1> QED BY <1>1 DEF S!Handler, LInv, ThreadInv

\* A handler that goes to sleep or is woken up has done nothing yet.
LEMMA SleepKeepsInv ==
  ASSUME LInv, NEW t \in Threads, NEW where \in {"waiting", "woken"},
         thread[t].at \in {"entered", "waiting", "woken"}, thread[t].op = "acquire",
         thread' = [thread EXCEPT ![t].at = where],
         UNCHANGED <<mapLocks, crashed, rpcVars, appVars>>
  PROVE  LInv'
<1> USE DEF rpcVars, appVars
<1>1. thread[t] \in S!Handler
  BY HandlerType
<1>2. \A u \in Threads : thread'[u] = IF u = t THEN [thread[t] EXCEPT !.at = where] ELSE thread[u]
  BY DEF LInv, OwnTypes, S!TypeOK
<1>3. /\ [thread[t] EXCEPT !.at = where] \in S!Handler
      /\ thread'[t].at = where /\ thread'[t].op = thread[t].op
      /\ thread'[t].clt = thread[t].clt /\ thread'[t].lid = thread[t].lid
  BY <1>1, <1>2 DEF S!Handler
<1>4. OwnTypes'
  <2>1. thread' \in [Threads -> S!Handler \cup {S!Idle}]
    BY <1>2, <1>3 DEF LInv, OwnTypes, S!TypeOK
  <2> QED BY <2>1 DEF LInv, OwnTypes, S!TypeOK
<1>5. HandlersMove
  BY <1>2, <1>3 DEF HandlersMove
<1>6. \A c \in Clients, x \in Xids : Effected(c, x)' <=> Effected(c, x)
  <2> SUFFICES ASSUME NEW c \in Clients, NEW x \in Xids PROVE Effected(c, x)' <=> Effected(c, x)
    OBVIOUS
  <2>1. \A u \in Threads : thread'[u].at = "returned" <=> thread[u].at = "returned"
    BY <1>2, <1>3
  <2>2. \A u \in Threads : Running(u, c, x)' <=> Running(u, c, x)
    BY DEF Running
  <2> QED BY <2>1, <2>2 DEF Effected
<1>7. EntitledInv'
  BY <1>6, EffectedFrame DEF LInv
<1> QED BY <1>4, <1>5, <1>7, CallFrame, HandlersMoveKeepThreads DEF LInv, NoNullLock

\* What the end of a handler's work does to the calls: its own call has taken
\* effect, the others are as before.
LEMMA HandlerDone ==
  ASSUME CallFacts, LInv, NEW t \in Threads, thread[t].at \in {"entered", "waiting", "woken"},
         thread'[t].at = "returned", UNCHANGED <<thr, runs, hdr, reply, reps, nonce, app>>,
         \A u \in Threads : u # t => (thread'[u].at = "returned" <=> thread[u].at = "returned"),
         NEW a \in AppThreads, ClientOf[a] = thr[t].clt, app[a].xid = thr[t].xid,
         Instance(a) = nonce, app[a].at \in {"acquiring", "releasing"}
  PROVE  /\ Entitled(a)' <=> app[a].at = "acquiring"
         /\ Entitled(a) <=> app[a].at = "releasing"
         /\ \A b \in AppThreads : b # a => (Entitled(b)' <=> Entitled(b))
         /\ \A b \in AppThreads : Instance(b)' = Instance(b)
<1>1. Serving(t) /\ Busy(a)
  BY HandlerType DEF Busy
<1>2. PICK c \in Clients, x \in Xids :
        c = thr[t].clt /\ x = thr[t].xid /\ hdr[c][x].op # Bind /\ Running(t, c, x)
  BY <1>1 DEF CallFacts, Serving, Running
<1>3. \A u \in Threads, d \in Clients, y \in Xids : Running(u, d, y)' <=> Running(u, d, y)
  BY DEF Running
<1>4. runs[c][x] = 1 /\ \A u \in Threads : Running(u, c, x) => u = t
  BY <1>2 DEF CallFacts
<1>5. ~Effected(c, x) /\ Effected(c, x)'
  BY <1>2, <1>3, <1>4 DEF Effected
<1>6. \A d \in Clients, y \in Xids : ~(d = c /\ y = x) => (Effected(d, y)' <=> Effected(d, y))
  <2> SUFFICES ASSUME NEW d \in Clients, NEW y \in Xids, ~(d = c /\ y = x)
               PROVE  Effected(d, y)' <=> Effected(d, y)
    OBVIOUS
  <2>1. ~Running(t, d, y)
    BY <1>2 DEF Running
  <2> QED BY <1>3, <2>1 DEF Effected
<1>7. ~OkOf(c, x) /\ \A d \in Clients, y \in Xids : OkOf(d, y)' <=> OkOf(d, y)
  BY <1>2 DEF CallFacts, OkOf, Settled
<1>8. \A b \in AppThreads : Instance(b)' = Instance(b)
  BY DEF Instance
<1>9. (Entitled(a)' <=> app[a].at = "acquiring") /\ (Entitled(a) <=> app[a].at = "releasing")
  BY <1>2, <1>5, <1>7, <1>8 DEF Entitled
<1>10. ASSUME NEW b \in AppThreads, b # a PROVE Entitled(b)' <=> Entitled(b)
  <2>1. CASE Busy(b)
    <3>1. PICK d \in Clients, y \in Xids : d = ClientOf[b] /\ y = app[b].xid
      BY <2>1, BusyCall DEF LInv
    <3>2. ~(d = c /\ y = x)
      BY <1>1, <1>2, <1>10, <2>1, <3>1 DEF LInv, CallInv
    <3> QED BY <1>6, <1>7, <1>8, <3>1, <3>2 DEF Entitled
  <2>2. CASE ~Busy(b)
    BY <2>2 DEF Entitled, Busy
  <2> QED BY <2>1, <2>2
<1> QED BY <1>8, <1>9, <1>10

\* grant takes a lock that is not locked: its caller becomes the one entitled.
LEMMA GrantKeepsInv ==
  ASSUME CallFacts, LInv, NEW t \in Threads, thread[t].at \in {"entered", "woken"},
         thread[t].op = "acquire", S!TakeOrWait(t), UNCHANGED <<crashed, rpcVars, appVars>>
  PROVE  LInv'
<1> USE DEF rpcVars, appVars
<1>1. PICK c \in Clients, lid \in LockIds :
        c = thread[t].clt /\ lid = thread[t].lid /\ thread[t] \in S!Handler /\ Serving(t)
  BY HandlerType
<1>2. CASE S!Is_Locked(lid)
  <2>1. thread' = [thread EXCEPT ![t].at = "waiting"] /\ UNCHANGED mapLocks
    BY <1>1, <1>2 DEF S!TakeOrWait, S!MoveTo
  <2> QED BY <2>1, SleepKeepsInv
<1>3. CASE ~S!Is_Locked(lid)
  <2>1. /\ thread' = [thread EXCEPT ![t].at = "returned"]
        /\ mapLocks' = [mapLocks EXCEPT ![lid] = [state |-> "locked", clt |-> c]]
    BY <1>1, <1>3 DEF S!TakeOrWait, S!MoveTo, S!Set_Locked
  <2>2. /\ \A u \in Threads : u # t => thread'[u] = thread[u]
        /\ thread'[t] = [thread[t] EXCEPT !.at = "returned"]
    BY <2>1 DEF LInv, OwnTypes, S!TypeOK
  <2>3. /\ thread'[t] \in S!Handler
        /\ thread'[t].at = "returned" /\ thread'[t].op = thread[t].op
        /\ thread'[t].clt = thread[t].clt /\ thread'[t].lid = thread[t].lid
    BY <1>1, <2>2 DEF S!Handler
  <2>4. OwnTypes'
    <3>1. thread' \in [Threads -> S!Handler \cup {S!Idle}]
      BY <2>1, <2>2, <2>3 DEF LInv, OwnTypes, S!TypeOK
    <3>2. mapLocks' \in [LockIds -> S!Lock \cup {S!Absent}]
      BY <2>1 DEF LInv, OwnTypes, S!TypeOK, S!Lock
    <3> QED BY <3>1, <3>2 DEF LInv, OwnTypes, S!TypeOK
  <2>5. HandlersMove
    BY <2>2, <2>3 DEF HandlersMove
  <2>6. PICK a \in AppThreads : /\ ClientOf[a] = thr[t].clt /\ app[a].xid = thr[t].xid
                                /\ app[a].lid = lid /\ app[a].at = "acquiring" /\ Instance(a) = nonce
    BY <1>1, ServingIsOwned
  <2>7. ClientOf[a] = c
    BY <1>1, <2>6 DEF LInv, ThreadInv
  <2>8. /\ Entitled(a)' /\ ~Entitled(a)
        /\ \A b \in AppThreads : b # a => (Entitled(b)' <=> Entitled(b))
        /\ \A b \in AppThreads : Instance(b)' = Instance(b)
    BY <2>2, <2>3, <2>6, HandlerDone
  <2>9. /\ LockedFor(lid, c)'
        /\ \A d \in Clients : ~LockedFor(lid, d) /\ (LockedFor(lid, d)' => d = c)
        /\ \A l \in LockIds, d \in Clients : l # lid => (LockedFor(l, d)' <=> LockedFor(l, d))
    BY <1>3, <2>1 DEF LockedFor, S!Is_Locked, LInv, OwnTypes, S!TypeOK
  <2>10. \A b \in AppThreads : Entitled(b) =>
           /\ app[b].lid \in LockIds /\ ClientOf[b] \in Clients
           /\ Instance(b) = nonce => LockedFor(app[b].lid, ClientOf[b]) /\ app[b].lid # lid
    <3> SUFFICES ASSUME NEW b \in AppThreads, Entitled(b)
                 PROVE  /\ app[b].lid \in LockIds /\ ClientOf[b] \in Clients
                        /\ Instance(b) = nonce => LockedFor(app[b].lid, ClientOf[b]) /\ app[b].lid # lid
      OBVIOUS
    <3>1. Busy(b)
      BY DEF Entitled, Busy
    <3>2. app[b].lid \in LockIds /\ ClientOf[b] \in Clients
      BY <3>1, BusyCall DEF LInv
    <3> QED BY <2>9, <3>2 DEF LInv, EntitledInv
  <2>11. EntitledInv'
    <3>1. ASSUME NEW b \in AppThreads, Entitled(b)', Instance(b)' = nonce'
          PROVE  LockedFor(app[b].lid, ClientOf[b])'
      <4>1. CASE b = a
        BY <2>6, <2>7, <2>9, <4>1 DEF LockedFor
      <4>2. CASE b # a
        BY <2>8, <2>9, <2>10, <3>1, <4>2 DEF LockedFor
      <4> QED BY <4>1, <4>2
    <3>2. ASSUME NEW b \in AppThreads, NEW e \in AppThreads, b # e, Entitled(b)', Entitled(e)',
                 app[b].lid = app[e].lid
          PROVE  Instance(b)' # Instance(e)'
      BY <2>6, <2>8, <2>10, <3>2 DEF LInv, EntitledInv
    <3>3. ASSUME NEW l \in LockIds, NEW d \in Clients, LockedFor(l, d)'
          PROVE  \E b \in AppThreads :
                   ClientOf[b] = d /\ Entitled(b)' /\ app'[b].lid = l /\ Instance(b)' = nonce'
      <4>1. CASE l = lid
        BY <2>6, <2>7, <2>8, <2>9, <3>3, <4>1
      <4>2. CASE l # lid
        <5>1. PICK b \in AppThreads : ClientOf[b] = d /\ Entitled(b) /\ app[b].lid = l /\ Instance(b) = nonce
          BY <2>9, <3>3, <4>2 DEF LInv, EntitledInv
        <5> QED BY <2>8, <5>1
      <4> QED BY <4>1, <4>2
    <3> QED BY <3>1, <3>2, <3>3 DEF EntitledInv
  <2> QED BY <2>4, <2>5, <2>11, CallFrame, HandlersMoveKeepThreads DEF LInv, NoNullLock
<1> QED BY <1>2, <1>3

\* A release that has not done its work finds the lock locked by its client.
LEMMA ReleaseFindsLock ==
  ASSUME CallFacts, LInv, NEW t \in Threads, thread[t].at = "entered", thread[t].op = "release"
  PROVE  \E a \in AppThreads :
           /\ ClientOf[a] = thr[t].clt /\ app[a].xid = thr[t].xid
           /\ app[a].lid = thread[t].lid /\ app[a].at = "releasing" /\ Instance(a) = nonce
           /\ Entitled(a) /\ ClientOf[a] = thread[t].clt
           /\ LockedFor(thread[t].lid, thread[t].clt)
<1>1. Serving(t)
  BY HandlerType
<1>2. PICK a \in AppThreads :
        /\ ClientOf[a] = thr[t].clt /\ app[a].xid = thr[t].xid
        /\ app[a].lid = thread[t].lid /\ app[a].at = "releasing" /\ Instance(a) = nonce
  BY <1>1, ServingIsOwned
<1>3. PICK c \in Clients, x \in Xids : c = thr[t].clt /\ x = thr[t].xid
  BY <1>1 DEF CallFacts, Serving
<1>4. ~Effected(c, x)
  BY <1>1, <1>3 DEF Serving, Running, Effected
<1>5. Entitled(a)
  BY <1>2, <1>3, <1>4 DEF Entitled
<1>6. ClientOf[a] = thread[t].clt
  BY <1>1, <1>2 DEF LInv, ThreadInv
<1> QED BY <1>2, <1>5, <1>6 DEF LInv, EntitledInv

\* release frees the lock of the one thread that was entitled to it.
LEMMA ReleaseKeepsInv ==
  ASSUME CallFacts, LInv, NEW t \in Threads, S!ReleaseOwned(t), UNCHANGED <<rpcVars, appVars>>
  PROVE  LInv'
<1> USE DEF rpcVars, appVars
<1>1. /\ thread[t].at = "entered" /\ thread[t].op = "release"
      /\ S!Set_Free(thread[t].lid) /\ S!SignalAndReturn(t) /\ UNCHANGED crashed
  BY DEF S!ReleaseOwned
<1>2. PICK a \in AppThreads :
           /\ ClientOf[a] = thr[t].clt /\ app[a].xid = thr[t].xid
           /\ app[a].lid = thread[t].lid /\ app[a].at = "releasing" /\ Instance(a) = nonce
           /\ Entitled(a)
  BY <1>1, ReleaseFindsLock
<1>3. PICK lid \in LockIds : lid = thread[t].lid /\ thread[t] \in S!Handler
  BY <1>1, HandlerType
<1>4. /\ mapLocks' \in [LockIds -> S!Lock \cup {S!Absent}]
      /\ \A d \in Clients : ~LockedFor(lid, d)'
      /\ \A l \in LockIds, d \in Clients : l # lid => (LockedFor(l, d)' <=> LockedFor(l, d))
  BY <1>1, <1>3 DEF S!Set_Free, S!Lock, LockedFor, LInv, OwnTypes, S!TypeOK
<1>5. \A w \in S!Waiters(lid) : w \in Threads /\ w # t /\ thread[w].at = "waiting" /\ thread[w] \in S!Handler
  BY <1>1, HandlerType DEF S!Waiters
<1>6. /\ thread' \in [Threads -> S!Handler \cup {S!Idle}]
      /\ thread'[t] = [thread[t] EXCEPT !.at = "returned"]
      /\ \A u \in Threads : u # t =>
           \/ thread'[u] = thread[u]
           \/ thread[u] \in S!Handler /\ thread[u].at = "waiting" /\ thread'[u] = [thread[u] EXCEPT !.at = "woken"]
  <2>0. thread \in [Threads -> S!Handler \cup {S!Idle}]
    BY DEF LInv, OwnTypes, S!TypeOK
  <2>1. \A h \in S!Handler : [h EXCEPT !.at = "returned"] \in S!Handler /\ [h EXCEPT !.at = "woken"] \in S!Handler
    BY DEF S!Handler
  <2>2. CASE thread' = [thread EXCEPT ![t].at = "returned"]
    BY <1>3, <2>0, <2>1, <2>2
  <2>3. ASSUME NEW w \in S!Waiters(lid), thread' = [thread EXCEPT ![t].at = "returned", ![w].at = "woken"]
        PROVE /\ thread' \in [Threads -> S!Handler \cup {S!Idle}]
              /\ thread'[t] = [thread[t] EXCEPT !.at = "returned"]
              /\ \A u \in Threads : u # t =>
                   \/ thread'[u] = thread[u]
                   \/ thread[u] \in S!Handler /\ thread[u].at = "waiting" /\ thread'[u] = [thread[u] EXCEPT !.at = "woken"]
    <3>1. w \in Threads /\ w # t /\ thread[w].at = "waiting" /\ thread[w] \in S!Handler
      BY <1>5
    <3>2. \A u \in Threads : thread'[u] = IF u = w THEN [thread[w] EXCEPT !.at = "woken"]
                                          ELSE IF u = t THEN [thread[t] EXCEPT !.at = "returned"] ELSE thread[u]
      BY <2>0, <2>3, <3>1
    <3>3. thread' \in [Threads -> S!Handler \cup {S!Idle}]
      BY <1>3, <2>0, <2>1, <2>3, <3>1, <3>2
    <3> QED BY <3>1, <3>2, <3>3
  <2> QED BY <1>1, <1>3, <2>2, <2>3 DEF S!SignalAndReturn, S!MoveTo
<1>7. /\ thread'[t].at = "returned" /\ thread'[t].op = thread[t].op
      /\ thread'[t].clt = thread[t].clt /\ thread'[t].lid = thread[t].lid
  BY <1>3, <1>6 DEF S!Handler
<1>8. OwnTypes'
  BY <1>1, <1>4, <1>6 DEF LInv, OwnTypes, S!TypeOK
<1>9. \A u \in Threads : u # t =>
        \/ thread'[u] = thread[u]
        \/ /\ thread[u].at = "waiting" /\ thread'[u].at = "woken" /\ thread[u].op = "acquire"
           /\ thread'[u].op = thread[u].op /\ thread'[u].clt = thread[u].clt /\ thread'[u].lid = thread[u].lid
  BY <1>6 DEF S!Handler, LInv, ThreadInv
<1>10. HandlersMove
  BY <1>1, <1>7, <1>9 DEF HandlersMove
<1>11. /\ ~Entitled(a)'
       /\ \A b \in AppThreads : b # a => (Entitled(b)' <=> Entitled(b))
       /\ \A b \in AppThreads : Instance(b)' = Instance(b)
  <2>1. \A u \in Threads : u # t => (thread'[u].at = "returned" <=> thread[u].at = "returned")
    BY <1>9
  <2> QED BY <1>1, <1>2, <1>7, <2>1, HandlerDone
<1>12. EntitledInv'
  <2>1. ASSUME NEW b \in AppThreads, Entitled(b)', Instance(b)' = nonce'
        PROVE  LockedFor(app[b].lid, ClientOf[b])'
    <3>1. b # a /\ Entitled(b) /\ Instance(b) = nonce
      BY <1>11, <2>1
    <3>2. app[b].lid # lid
      BY <1>2, <1>3, <3>1 DEF LInv, EntitledInv
    <3>3. PICK l \in LockIds, d \in Clients : l = app[b].lid /\ d = ClientOf[b]
      BY <3>1, BusyCall DEF LInv, Entitled, Busy
    <3>4. LockedFor(l, d)'
      BY <1>4, <3>1, <3>2, <3>3 DEF LInv, EntitledInv
    <3> QED BY <3>3, <3>4 DEF LockedFor
  <2>2. \A b, e \in AppThreads :
          b # e /\ Entitled(b)' /\ Entitled(e)' /\ app'[b].lid = app'[e].lid => Instance(b)' # Instance(e)'
    BY <1>11 DEF LInv, EntitledInv
  <2>3. ASSUME NEW l \in LockIds, NEW d \in Clients, LockedFor(l, d)'
        PROVE  \E b \in AppThreads :
                 ClientOf[b] = d /\ Entitled(b)' /\ app'[b].lid = l /\ Instance(b)' = nonce'
    <3>1. l # lid /\ LockedFor(l, d)
      BY <1>4, <2>3
    <3>2. PICK b \in AppThreads : ClientOf[b] = d /\ Entitled(b) /\ app[b].lid = l /\ Instance(b) = nonce
      BY <3>1 DEF LInv, EntitledInv
    <3> QED BY <1>2, <1>3, <1>11, <3>1, <3>2
  <2> QED BY <2>1, <2>2, <2>3 DEF EntitledInv
<1> QED BY <1>1, <1>8, <1>10, <1>12, CallFrame, HandlersMoveKeepThreads DEF LInv, NoNullLock

\* All steps inside lock_server; a release never finds its lock absent or not its own.
LEMMA ServerStepKeepsInv ==
  ASSUME CallFacts, LInv, NEW t \in Threads, ServerStep(t) \/ SpuriousWake(t)
  PROVE  LInv'
<1>1. CASE S!SpuriousWake(t) /\ UNCHANGED <<rpcVars, appVars>>
  <2>1. thread[t].at = "waiting" /\ thread' = [thread EXCEPT ![t].at = "woken"] /\ UNCHANGED <<mapLocks, crashed>>
    BY <1>1 DEF S!SpuriousWake, S!MoveTo
  <2>2. thread[t].op = "acquire"
    BY <2>1 DEF LInv, ThreadInv
  <2> QED BY <1>1, <2>1, <2>2, SleepKeepsInv
<1>2. ASSUME S!GrantEnter(t) \/ S!GrantWake(t), UNCHANGED <<rpcVars, appVars>> PROVE LInv'
  <2>1. thread[t].at \in {"entered", "woken"} /\ S!TakeOrWait(t) /\ UNCHANGED crashed
    BY <1>2 DEF S!GrantEnter, S!GrantWake
  <2>2. thread[t].op = "acquire"
    BY <1>2 DEF S!GrantEnter, S!GrantWake, LInv, ThreadInv
  <2> QED BY <1>2, <2>1, <2>2, GrantKeepsInv
<1>3. ~S!ReleaseRefused(t)
  <2> SUFFICES ASSUME S!ReleaseRefused(t) PROVE FALSE
    OBVIOUS
  <2>1. LockedFor(thread[t].lid, thread[t].clt)
    BY ReleaseFindsLock DEF S!ReleaseRefused
  <2> QED BY <2>1 DEF S!ReleaseRefused, S!Is_Locked, LockedFor
<1>4. ~S!ReleaseAbsent(t)
  <2> SUFFICES ASSUME S!ReleaseAbsent(t) PROVE FALSE
    OBVIOUS
  <2>1. LockedFor(thread[t].lid, thread[t].clt)
    BY ReleaseFindsLock DEF S!ReleaseAbsent
  <2> QED BY <2>1 DEF S!ReleaseAbsent, S!Absent, LockedFor
<1>5. ~S!Stat(t)
  <2> SUFFICES ASSUME S!Stat(t) PROVE FALSE
    OBVIOUS
  <2>1. Serving(t)
    BY HandlerType DEF S!Stat
  <2>2. thread[t].op \in {"acquire", "release"}
    BY <2>1, ServingIsOwned
  <2> QED BY <2>2 DEF S!Stat
<1> QED BY <1>1, <1>2, <1>3, <1>4, <1>5, ReleaseKeepsInv DEF ServerStep, SpuriousWake, S!HandlerStep

-----------------------------------------------------------------------------
(* The theorems *)

\* The invariant holds initially.
LEMMA InitInv == ASSUME Init PROVE RP!AInv /\ LInv
<1> USE DEF S!Init, S!Idle
<1>1. RP!Init
  BY DEF Init, R!Init, RP!Init, R!Xids, RP!Xids, R!NoHeader, RP!NoHeader, R!NoOutcome, RP!NoOutcome,
         R!EmptyWindow, RP!EmptyWindow, R!Idle, RP!Idle
<1>2. RP!AInv
  BY <1>1, RP!InitAInv
<1>3. OwnTypes
  <2>1. [at |-> "resting", rounds |-> 0] \in Resting
    BY DEF Resting
  <2>2. app \in [AppThreads -> Resting \cup Working]
    BY <2>1 DEF Init
  <2> QED BY <2>2 DEF Init, OwnTypes, S!TypeOK
<1>4. \A a \in AppThreads : ~Busy(a) /\ ~Entitled(a)
  BY DEF Init, Busy, Entitled
<1>5. \A c \in Clients, x \in Xids : ~Used(c, x)
  BY DEF Init, R!Init, R!Xids, Xids, Used
<1>6. ThreadInv
  BY DEF Init, R!Init, R!Idle, ThreadInv, Serving
<1>7. \A l \in LockIds, c \in Clients : ~LockedFor(l, c)
  BY DEF Init, LockedFor, S!Absent
<1>8. CallInv /\ EntitledInv
  BY <1>4, <1>5, <1>7 DEF CallInv, EntitledInv
<1> QED BY <1>2, <1>3, <1>6, <1>8 DEF LInv, NoNullLock, Init

\* Every step keeps the invariant, given what the RPC library promises before and
\* after it.
LEMMA StepKeepsInv ==
  ASSUME CallFacts, CallFacts', RP!AInv, LInv, [Next]_vars
  PROVE  LInv'
<1>0. RP!TypeOK /\ RP!HeaderInv
  BY DEF RP!AInv, RP!IInv
<1>1. CASE UNCHANGED vars
  BY <1>1, ClientOnlyKeepsInv DEF vars, appVars, LInv, OwnTypes
<1>2. ASSUME NEW a \in AppThreads, AppStep(a) PROVE LInv'
  <2>1. CASE ReturnFailure(a)
    <3>1. client' \in [Clients -> {"new", "binding", "bound", "aborted"}]
      BY <2>1 DEF ReturnFailure, LInv, OwnTypes
    <3> QED BY <2>1, <3>1, ClientOnlyKeepsInv DEF ReturnFailure
  <2> QED BY <1>0, <1>2, <2>1, StartReleaseKeepsInv, ReturnOkKeepsInv DEF AppStep
<1>3. ASSUME NEW c \in Clients, EndBind(c) PROVE LInv'
  <2>1. client' \in [Clients -> {"new", "binding", "bound", "aborted"}]
    BY <1>3 DEF EndBind, LInv, OwnTypes
  <2> QED BY <1>3, <2>1, ClientOnlyKeepsInv DEF EndBind
<1>4. ASSUME NEW c \in Clients, NEW x \in Xids, CallerStep(c, x) \/ Timeout(c, x) PROVE LInv'
  <2>1. Quiet
    BY <1>0, <1>4, CallerIsQuiet
  <2> QED BY <1>4, <2>1, QuietKeepsInv DEF CallerStep, Timeout, appVars
<1>5. ASSUME NEW m \in reps, GotPdu(m) PROVE LInv'
  <2>1. Quiet
    BY <1>0, <1>5, GotPduIsQuiet
  <2> QED BY <1>5, <2>1, QuietKeepsInv DEF GotPdu, appVars
<1>6. ASSUME NEW t \in Threads, NEW m \in reqs, DispatchOther(t, m) PROVE LInv'
  <2>1. Quiet
    BY <1>0, <1>6, DispatchOtherIsQuiet
  <2> QED BY <1>6, <2>1, QuietKeepsInv DEF DispatchOther, appVars
<1>7. ASSUME NEW t \in Threads, ReplySend(t) PROVE LInv'
  <2>1. Quiet
    BY <1>0, <1>7, ReplySendIsQuiet
  <2> QED BY <1>7, <2>1, QuietKeepsInv DEF ReplySend, appVars
<1>8. ASSUME NEW t \in Threads, DispatchStep(t) \/ SpuriousWake(t) PROVE LInv'
  BY <1>0, <1>6, <1>7, <1>8, DispatchNewKeepsInv, HandlerReturnKeepsInv, ServerStepKeepsInv DEF DispatchStep
<1>9. CASE Next
  BY <1>0, <1>2, <1>3, <1>4, <1>5, <1>8, <1>9, StartAcquireKeepsInv, StartBindKeepsInv, RestartKeepsInv
     DEF Next, Xids
<1> QED BY <1>1, <1>9

\* The invariants of the protocol and of the service hold in every reachable state.
LEMMA InductiveInvariant == Spec => [](RP!AInv /\ LInv)
<1>1. Init => RP!AInv /\ LInv
  BY InitInv
<1>2. RP!AInv /\ LInv /\ [Next]_vars => RP!AInv'
  <2> SUFFICES ASSUME RP!AInv, LInv, [Next]_vars PROVE RP!AInv'
    OBVIOUS
  <2>1. [RP!Next]_(RP!vars)
    BY StepIsRpcStep DEF LInv
  <2> QED BY <2>1, RP!StepKeepsAInv
<1>3. CallFacts /\ CallFacts' /\ RP!AInv /\ LInv /\ [Next]_vars => LInv'
  BY StepKeepsInv
<1>4. RP!AInv => CallFacts
  BY RpcFacts
<1> QED BY <1>1, <1>2, <1>3, <1>4, PTL DEF Spec

\* Two application threads never hold one lock granted by the same server instance,
\* whatever the network, timeouts, retransmissions, restarts and other clients do,
\* and even when the two threads share a lock_client.
THEOREM MutualExclusionHolds == Spec => []MutualExclusion
<1>1. LInv => MutualExclusion
  BY DEF LInv, EntitledInv, MutualExclusion, Holds, GrantedBy, Entitled, Instance
<1> QED BY <1>1, InductiveInvariant, PTL

\* As long as the instance that granted a lock lives, the lock is locked on the
\* server in the name of the holder's client.
THEOREM HolderOwnsLockHolds == Spec => []HolderOwnsLock
<1>1. LInv => HolderOwnsLock
  BY DEF LInv, EntitledInv, HolderOwnsLock, Holds, GrantedBy, Entitled, Instance, LockedFor
<1> QED BY <1>1, InductiveInvariant, PTL

\* Every locked lock of the server belongs to an application thread that is waiting
\* for it, holds it or is giving it back.
THEOREM NoOrphanLockHolds == Spec => []NoOrphanLock
<1>1. LInv => NoOrphanLock
  BY DEF LInv, EntitledInv, NoOrphanLock, LockedFor, Entitled
<1> QED BY <1>1, InductiveInvariant, PTL

\* lock_server::release never dereferences the null pointer of an absent lock.
THEOREM NoNullLockHolds == Spec => []NoNullLock
<1>1. LInv => NoNullLock
  BY DEF LInv
<1> QED BY <1>1, InductiveInvariant, PTL
=============================================================================
