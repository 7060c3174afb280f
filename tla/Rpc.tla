-------------------------------- MODULE Rpc --------------------------------
(***************************************************************************)
(* The RPC library's protocol (rpc/rpc.cc): the clients (rpcc) with their  *)
(* concurrent callers, the server (rpcs) with its dispatch pool and reply  *)
(* window, server restarts, and a network that reorders and loses.         *)
(*                                                                         *)
(* Critical sections under rpcc::m_, caller::m and rpcs::reply_window_m_   *)
(* are actions.  A connection is abstracted to what it can do to a PDU:    *)
(* deliver it once, in any order (the dispatch pool reorders), or never.   *)
(* A PDU that is lost simply stays in flight for ever, so there is no loss *)
(* action, and so does a request dropped because its procedure is not yet  *)
(* registered; a duplicate exists only when a caller retransmits on a new  *)
(* connection.  The reply window of a client, a list sorted by xid, is a   *)
(* function from xids; the list xid_rep_window_ is the set of xids passed  *)
(* to update_xid_rep, whose front is the end of its contiguous prefix.     *)
(* WindowLists.tla checks the list code against these two abstractions.    *)
(*                                                                         *)
(* Clients here have retrans_ set and so a nonzero clt_nonce_.  Nonces of  *)
(* different clients and server instances are assumed different.           *)
(***************************************************************************)
EXTENDS XidWindows, FiniteSets

CONSTANTS
    Clients,    \* rpcc objects, each with its own clt_nonce_
    Threads,    \* the threads of rpcs::dispatchpool_
    Bind,       \* rpc_const::bind
    Ops,        \* the other requests: a procedure with its arguments
    Cancelling, \* the clients whose application calls cancel()
    MaxSend,    \* bound: transmissions per call
    MaxRetries, \* bound: calls that are transmitted more than once
    MaxNonce    \* bound: server instances

ASSUME OpsAssumption == Bind \notin Ops

ASSUME BoundsAssumption == MaxSend \in Nat /\ MaxNonce \in Nat \ {0}

VARIABLES
    srv_nonce,      \* rpcc::srv_nonce_, 0 while not bound (bind_done_ is false)
    xid,            \* rpcc::xid_, the next xid
    acked,          \* the xids passed to update_xid_rep
    hdr,            \* hdr[c][x]: the request with xid x, its header and arguments
    pc,             \* pc[c][x]: where the thread inside call1 is
    sends,          \* sends[c][x]: transmissions so far
    reply,          \* reply[c][x]: ca.done, ca.intret and the reply's body
    destroy_wait,   \* rpcc::destroy_wait_
    canceler,       \* the thread inside rpcc::cancel
    nonce,          \* rpcs::nonce_
    window,         \* reply_window_[c], a function from xids
    thr,            \* the dispatch threads
    reqs,           \* request PDUs in flight or in the dispatch queue
    reps,           \* reply PDUs in flight
    runs            \* history: how often the handler was run for a call

clientVars == <<srv_nonce, xid, acked, hdr, pc, sends, reply, destroy_wait, canceler>>
serverVars == <<nonce, window, thr>>
netVars == <<reqs, reps>>
vars == <<clientVars, serverVars, netVars, runs>>

Nonces == 1 .. MaxNonce

\* What call1 can return: the handler's result or one of rpc_const's failures.
Rets == {"none", "ok", "oldsrv_failure", "atmostonce_failure", "cancel_failure", "timeout_failure"}

\* The places of call1 at which the caller is in calls_.
Outstanding == {"send", "wait", "lastsend", "exit"}

Places == Outstanding \cup {"none", "bind", "returned"}

\* The parts of a request that matter: req_header::srv_nonce and xid_rep, and
\* the procedure with its arguments.
Headers == [op : Ops \cup {Bind}, srv_nonce : Nonces \cup {0}, xid_rep : 0 .. MaxXid]

NoHeader == [op |-> Bind, srv_nonce |-> 0, xid_rep |-> 0]

\* ret is "none" until ca.done is set; val is the body of a reply to bind.
Outcomes == [ret : Rets, val : Nonces \cup {0}]

NoOutcome == [ret |-> "none", val |-> 0]

\* A dispatch thread: at "run" inside the handler, at "send" before c->send of
\* a reply; owned tells whether the reply buffer belongs to the reply window.
Dispatchers == [at : {"run", "send"}, clt : Clients, xid : Xids, owned : BOOLEAN]

Idle == [at |-> "idle"]

Requests == [clt : Clients, xid : Xids, n : 1 .. MaxSend]

Replies == [clt : Clients, xid : Xids, ret : {"ok", "oldsrv_failure", "atmostonce_failure"},
            val : Nonces]

TypeOK ==
    /\ srv_nonce \in [Clients -> Nonces \cup {0}]
    /\ xid \in [Clients -> 1 .. MaxXid + 1]
    /\ acked \in [Clients -> SUBSET Xids]
    /\ hdr \in [Clients -> [Xids -> Headers]]
    /\ pc \in [Clients -> [Xids -> Places]]
    /\ sends \in [Clients -> [Xids -> 0 .. MaxSend]]
    /\ reply \in [Clients -> [Xids -> Outcomes]]
    /\ destroy_wait \in [Clients -> BOOLEAN]
    /\ canceler \in [Clients -> {"none", "waiting", "signalled", "done"}]
    /\ nonce \in Nonces
    /\ window \in [Clients -> ReplyWindows]
    /\ thr \in [Threads -> Dispatchers \cup {Idle}]
    /\ reqs \subseteq Requests
    /\ reps \subseteq Replies
    /\ runs \in [Clients -> [Xids -> Nat]]

Init ==
    /\ srv_nonce = [c \in Clients |-> 0]
    /\ xid = [c \in Clients |-> 1]
    /\ acked = [c \in Clients |-> {}]
    /\ hdr = [c \in Clients |-> [x \in Xids |-> NoHeader]]
    /\ pc = [c \in Clients |-> [x \in Xids |-> "none"]]
    /\ sends = [c \in Clients |-> [x \in Xids |-> 0]]
    /\ reply = [c \in Clients |-> [x \in Xids |-> NoOutcome]]
    /\ destroy_wait = [c \in Clients |-> FALSE]
    /\ canceler = [c \in Clients |-> "none"]
    /\ nonce = 1
    /\ window = [c \in Clients |-> EmptyWindow]
    /\ thr = [t \in Threads |-> Idle]
    /\ reqs = {}
    /\ reps = {}
    /\ runs = [c \in Clients |-> [x \in Xids |-> 0]]

-----------------------------------------------------------------------------
(* rpcc: callers *)

\* calls_[x] exists.
Pending(c, x) == pc[c][x] \in Outstanding

\* ca.done of a pending caller.
IsDone(c, x) == reply[c][x].ret # "none"

GoTo(c, x, place) == pc' = [pc EXCEPT ![c][x] = place]

\* call1 up to its loop: the checks, a new xid, the request header.  One thread
\* of the application binds (the constructor of lock_client); it may try again
\* when bind has failed.
Call(c, op) ==
    /\ xid[c] <= MaxXid
    /\ (op = Bind) <=> (srv_nonce[c] = 0)
    /\ op = Bind => \A x \in Xids : pc[c][x] \in {"none", "returned"}
    /\ ~destroy_wait[c]
    /\ \E r \in 0 .. MaxXid :
           /\ IsXidRep(r, acked[c])
           /\ hdr' = [hdr EXCEPT ![c][xid[c]] =
                         [op |-> op, srv_nonce |-> srv_nonce[c], xid_rep |-> r]]
    /\ GoTo(c, xid[c], "send")
    /\ xid' = [xid EXCEPT ![c] = @ + 1]
    /\ UNCHANGED <<srv_nonce, acked, sends, reply, destroy_wait, canceler, serverVars, netVars, runs>>

\* The transmit part of the loop: get_refconn and ch->send.  Neither has a time
\* limit: connect may block under chan_m_, and connection::send waits until other
\* senders are done and its own PDU has drained, so this step may never come.
\* After the final deadline the loop ends without another wait.
Send(c, x) ==
    /\ pc[c][x] \in {"send", "lastsend"}
    /\ sends[c][x] < MaxSend
    /\ reqs' = reqs \cup {[clt |-> c, xid |-> x, n |-> sends[c][x] + 1]}
    /\ sends' = [sends EXCEPT ![c][x] = @ + 1]
    /\ GoTo(c, x, IF pc[c][x] = "send" THEN "wait" ELSE "exit")
    /\ UNCHANGED <<srv_nonce, xid, acked, hdr, reply, destroy_wait, canceler, serverVars, reps, runs>>

\* A step of call1 that only moves on.
OnlyGoTo(c, x, place) ==
    /\ GoTo(c, x, place)
    /\ UNCHANGED <<srv_nonce, xid, acked, hdr, sends, reply, destroy_wait, canceler,
                   serverVars, netVars, runs>>

\* The wait ends because got_pdu or cancel has set ca.done.
WaitDone(c, x) == pc[c][x] = "wait" /\ IsDone(c, x) /\ OnlyGoTo(c, x, "exit")

\* The calls that were, or are about to be, transmitted again.
Retried == {p \in Clients \X Xids :
               sends[p[1]][p[2]] > (IF pc[p[1]][p[2]] \in {"send", "lastsend"} THEN 0 ELSE 1)}

\* The bounds on transmissions allow another one of call x.
MayResend(c, x) ==
    /\ sends[c][x] < MaxSend
    /\ Cardinality(Retried \cup {<<c, x>>}) <= MaxRetries

\* The wait times out and the channel is dead: transmit again on a new one.
TimeoutRetry(c, x) ==
    /\ pc[c][x] = "wait" /\ ~IsDone(c, x)
    /\ MayResend(c, x)
    /\ OnlyGoTo(c, x, "send")

Bug_TimeoutFinal(c, x) ==
    /\ pc[c][x] = "wait" /\ ~IsDone(c, x)
    /\ MayResend(c, x)
    /\ OnlyGoTo(c, x, "send")

\* The wait times out at the final deadline; with a dead channel the request
\* is transmitted once more before the loop ends.
TimeoutFinal(c, x) ==
    /\ pc[c][x] = "wait" /\ ~IsDone(c, x)
    /\ \/ OnlyGoTo(c, x, "exit")
       \/ MayResend(c, x) /\ OnlyGoTo(c, x, "lastsend")

\* call1 returns; when bind's call has succeeded, bind goes on.
Finish(c, x) ==
    /\ reply' = [reply EXCEPT ![c][x] = IF IsDone(c, x) THEN @ ELSE [ret |-> "timeout_failure", val |-> 0]]
    /\ GoTo(c, x, IF hdr[c][x].op = Bind /\ reply[c][x].ret = "ok" THEN "bind" ELSE "returned")

Bug_Exit(c, x) ==
    /\ pc[c][x] = "exit"
    /\ Finish(c, x)
    /\ acked' = [acked EXCEPT ![c] = @ \cup {x}]
    /\ UNCHANGED <<srv_nonce, xid, hdr, sends, destroy_wait, canceler, serverVars, netVars, runs>>

\* The end of call1: leave calls_, update_xid_rep, signal a canceler, return.
Exit(c, x) ==
    /\ pc[c][x] = "exit"
    /\ Finish(c, x)
    /\ acked' = [acked EXCEPT ![c] = @ \cup {x}]
    /\ canceler' = [canceler EXCEPT ![c] = IF @ = "waiting" THEN "signalled" ELSE @]
    /\ UNCHANGED <<srv_nonce, xid, hdr, sends, destroy_wait, serverVars, netVars, runs>>

\* rpcc::bind after its call succeeded: bind_done_ and srv_nonce_.
SetBound(c, x) ==
    /\ pc[c][x] = "bind"
    /\ srv_nonce' = [srv_nonce EXCEPT ![c] = reply[c][x].val]
    /\ GoTo(c, x, "returned")
    /\ UNCHANGED <<xid, acked, hdr, sends, reply, destroy_wait, canceler, serverVars, netVars, runs>>

\* rpcc::got_pdu: acknowledge the xid, and complete the caller if it is still
\* there and not done.
got_pdu(m) ==
    /\ reps' = reps \ {m}
    /\ acked' = [acked EXCEPT ![m.clt] = @ \cup {m.xid}]
    /\ reply' = IF Pending(m.clt, m.xid) /\ ~IsDone(m.clt, m.xid)
                THEN [reply EXCEPT ![m.clt][m.xid] = [ret |-> m.ret, val |-> m.val]]
                ELSE reply
    /\ UNCHANGED <<srv_nonce, xid, hdr, pc, sends, destroy_wait, canceler, serverVars, reqs, runs>>

\* rpcc::cancel: every pending caller is made to fail, even one whose reply
\* has come but that has not woken up yet; then wait until calls_ is empty.
Cancel(c) ==
    /\ c \in Cancelling
    /\ canceler[c] = "none"
    /\ LET pending == {x \in Xids : Pending(c, x)} IN
         IF pending = {}
         THEN /\ canceler' = [canceler EXCEPT ![c] = "done"]
              /\ UNCHANGED <<reply, destroy_wait>>
         ELSE /\ canceler' = [canceler EXCEPT ![c] = "waiting"]
              /\ destroy_wait' = [destroy_wait EXCEPT ![c] = TRUE]
              /\ reply' = [reply EXCEPT ![c] =
                              [x \in Xids |-> IF x \in pending
                                              THEN [ret |-> "cancel_failure", val |-> reply[c][x].val]
                                              ELSE reply[c][x]]]
    /\ UNCHANGED <<srv_nonce, xid, acked, hdr, pc, sends, serverVars, netVars, runs>>

\* The wait on destroy_wait_c_ returns; cancel tests calls_.size() again.
CancelWake(c) ==
    /\ canceler[c] = "signalled"
    /\ canceler' = [canceler EXCEPT ![c] = IF \E x \in Xids : Pending(c, x) THEN "waiting" ELSE "done"]
    /\ UNCHANGED <<srv_nonce, xid, acked, hdr, pc, sends, reply, destroy_wait, serverVars, netVars, runs>>

-----------------------------------------------------------------------------
(* rpcs *)

\* A reply PDU leaves for the client; the body of a reply to bind is nonce_.
Bug_SendReply(c, x, ret) ==
    reps' = reps \cup {[clt |-> c, xid |-> x, ret |-> ret, val |-> 0]}

SendReply(c, x, ret) ==
    reps' = reps \cup {[clt |-> c, xid |-> x, ret |-> ret, val |-> nonce]}

\* A dispatch thread takes request m from the queue; its header is the one the
\* caller packed.
Receive(t, m) ==
    /\ thr[t].at = "idle"
    /\ m \in reqs
    /\ reqs' = reqs \ {m}

Bug_OldServer(m) == FALSE

\* The header names another instance of the server than this one.
OldServer(m) == hdr[m.clt][m.xid].srv_nonce \notin {0, nonce}

\* A request for an earlier instance of the server is refused.
DispatchOldServer(t, m) ==
    /\ Receive(t, m)
    /\ OldServer(m)
    /\ SendReply(m.clt, m.xid, "oldsrv_failure")
    /\ UNCHANGED <<clientVars, serverVars, runs>>

\* Trimming happens under all four outcomes of checkduplicate_and_update.
Trimmed(m) == Trim(window[m.clt], hdr[m.clt][m.xid].xid_rep)

Accept(t, m) == Receive(t, m) /\ ~OldServer(m)

Bug_DispatchNew(t, m) ==
    /\ Accept(t, m)
    /\ Trimmed(m)[m.xid] # "inprogress"
    /\ ~IsForgotten(Trimmed(m), m.xid)
    /\ window' = [window EXCEPT ![m.clt] = [Trimmed(m) EXCEPT ![m.xid] = "inprogress"]]
    /\ thr' = [thr EXCEPT ![t] = [at |-> "run", clt |-> m.clt, xid |-> m.xid, owned |-> FALSE]]
    /\ runs' = [runs EXCEPT ![m.clt][m.xid] = @ + 1]
    /\ UNCHANGED <<clientVars, nonce, reps>>

\* NEW: the request enters the window and the handler is started.
DispatchNew(t, m) ==
    /\ Accept(t, m)
    /\ Trimmed(m)[m.xid] = "absent"
    /\ ~IsForgotten(Trimmed(m), m.xid)
    /\ window' = [window EXCEPT ![m.clt] = [Trimmed(m) EXCEPT ![m.xid] = "inprogress"]]
    /\ thr' = [thr EXCEPT ![t] = [at |-> "run", clt |-> m.clt, xid |-> m.xid, owned |-> FALSE]]
    /\ runs' = [runs EXCEPT ![m.clt][m.xid] = @ + 1]
    /\ UNCHANGED <<clientVars, nonce, reps>>

\* INPROGRESS: another thread runs the handler and will reply.
DispatchInProgress(t, m) ==
    /\ Accept(t, m)
    /\ Trimmed(m)[m.xid] = "inprogress"
    /\ window' = [window EXCEPT ![m.clt] = Trimmed(m)]
    /\ UNCHANGED <<clientVars, nonce, thr, reps, runs>>

Bug_DispatchDone(t, m) ==
    /\ Accept(t, m)
    /\ Trimmed(m)[m.xid] # "absent"
    /\ window' = [window EXCEPT ![m.clt] = Trimmed(m)]
    /\ thr' = [thr EXCEPT ![t] = [at |-> "send", clt |-> m.clt, xid |-> m.xid, owned |-> TRUE]]
    /\ UNCHANGED <<clientVars, nonce, reps, runs>>

\* DONE: the saved reply is going to be sent again, after the unlock.
DispatchDone(t, m) ==
    /\ Accept(t, m)
    /\ Trimmed(m)[m.xid] = "present"
    /\ window' = [window EXCEPT ![m.clt] = Trimmed(m)]
    /\ thr' = [thr EXCEPT ![t] = [at |-> "send", clt |-> m.clt, xid |-> m.xid, owned |-> TRUE]]
    /\ UNCHANGED <<clientVars, nonce, reps, runs>>

\* FORGOTTEN: refused.
DispatchForgotten(t, m) ==
    /\ Accept(t, m)
    /\ Trimmed(m)[m.xid] = "absent"
    /\ IsForgotten(Trimmed(m), m.xid)
    /\ window' = [window EXCEPT ![m.clt] = Trimmed(m)]
    /\ SendReply(m.clt, m.xid, "atmostonce_failure")
    /\ UNCHANGED <<clientVars, nonce, thr, runs>>

\* The handler returns and add_reply saves the reply, if the request is still
\* in the window; if not, nobody will ever free the buffer.
HandlerReturn(t) ==
    /\ thr[t].at = "run"
    /\ LET c == thr[t].clt
           x == thr[t].xid
       IN  /\ window' = [window EXCEPT ![c] = Answered(@, x)]
           /\ thr' = [thr EXCEPT ![t].at = "send", ![t].owned = (window[c][x] # "absent")]
    /\ UNCHANGED <<clientVars, nonce, netVars, runs>>

\* The reply buffer that thread t is about to send has been freed: the entry of
\* the reply window that owned it has been trimmed.
Dangling(t) ==
    /\ thr[t].at = "send"
    /\ thr[t].owned
    /\ window[thr[t].clt][thr[t].xid] = "absent"

\* c->send(b1, sz1), at the end of NEW and in DONE.  A freed buffer may still
\* hold the reply, or bytes that no client takes for one of its replies.
ReplySend(t) ==
    /\ thr[t].at = "send"
    /\ \/ SendReply(thr[t].clt, thr[t].xid, "ok")
       \/ Dangling(t) /\ UNCHANGED reps
    /\ thr' = [thr EXCEPT ![t] = Idle]
    /\ UNCHANGED <<clientVars, nonce, window, reqs, runs>>

\* The server process dies and a new one starts with another nonce_ and empty
\* tables.  Its connections die with it, and the requests on them.
Restart ==
    /\ nonce < MaxNonce
    /\ nonce' = nonce + 1
    /\ window' = [c \in Clients |-> EmptyWindow]
    /\ thr' = [t \in Threads |-> Idle]
    /\ reqs' = {}
    /\ UNCHANGED <<clientVars, reps, runs>>

-----------------------------------------------------------------------------
AfterSend(c, x) == WaitDone(c, x) \/ TimeoutFinal(c, x) \/ Exit(c, x) \/ SetBound(c, x)
CallerStep(c, x) == Send(c, x) \/ AfterSend(c, x)

Dispatch(t, m) ==
    \/ DispatchOldServer(t, m)
    \/ DispatchNew(t, m)
    \/ DispatchInProgress(t, m)
    \/ DispatchDone(t, m)
    \/ DispatchForgotten(t, m)

Next ==
    \/ \E c \in Clients :
           \/ \E op \in Ops \cup {Bind} : Call(c, op)
           \/ \E x \in Xids : CallerStep(c, x) \/ TimeoutRetry(c, x)
           \/ Cancel(c)
           \/ CancelWake(c)
    \/ \E m \in reps : got_pdu(m)
    \/ \E t \in Threads :
           \/ \E m \in reqs : Dispatch(t, m)
           \/ HandlerReturn(t)
           \/ ReplySend(t)
    \/ Restart

Spec == Init /\ [][Next]_vars

\* The threads inside call1, bind and cancel are scheduled, and a pending timed
\* wait reaches its final deadline (one that pthread_cond_timedwait accepts:
\* DeadlineAccepted of MCRpcData).  Nothing is assumed of Send: a caller may
\* stay in it for ever.  The server owes nothing.
Fairness ==
    \A c \in Clients : WF_vars(CancelWake(c)) /\ \A x \in Xids : WF_vars(AfterSend(c, x))

FairSpec == Spec /\ Fairness

-----------------------------------------------------------------------------
(* Properties *)

\* Thread t is inside the handler of call x of client c.
Running(t, c, x) == thr[t].at = "run" /\ thr[t].clt = c /\ thr[t].xid = x

\* At most once: however often a call is retransmitted, reordered, trimmed from
\* the window or met by a restarted server, its handler runs at most once.
\* (bind itself may run once in every server instance.)
AtMostOnce ==
    \A c \in Clients, x \in Xids : hdr[c][x].op # Bind => runs[c][x] <= 1

\* Exactly once on success: when a call has the handler's result, its handler
\* was run and no dispatch thread is still inside it.
OkMeansExecuted ==
    \A c \in Clients, x \in Xids :
        (hdr[c][x].op # Bind /\ reply[c][x].ret = "ok") =>
            /\ runs[c][x] = 1
            /\ \A t \in Threads : ~Running(t, c, x)

\* The server keeps the reply of a call as long as the client may ask for it:
\* a call that was run by this instance and whose xid the client has not
\* acknowledged is still in the reply window.
NoReplyForgotten ==
    \A c \in Clients, x \in Xids :
        (/\ hdr[c][x].op # Bind
         /\ hdr[c][x].srv_nonce = nonce
         /\ runs[c][x] > 0
         /\ x \notin acked[c]) => window[c][x] # "absent"

\* A request that was never run is refused as FORGOTTEN ("duplicate of an old RPC
\* whose reply we've forgotten", rpc.h:255) only to a client that has given up,
\* without an answer, on that call or on an earlier one.
ForgottenOnlyAfterTimeout ==
    \A m \in reps :
        (/\ m.ret = "atmostonce_failure"
         /\ hdr[m.clt][m.xid].op # Bind
         /\ runs[m.clt][m.xid] = 0)
        => \E y \in Xids : y <= m.xid /\ reply[m.clt][y].ret \in {"timeout_failure", "cancel_failure"}

\* rpc.cc: "the caller can free the buffer when send() returns", so the buffer
\* of a reply stays allocated until the thread that sends it is done.
NoDanglingSend == \A t \in Threads : ~Dangling(t)

\* Call x never stays in ch->send or get_refconn for ever.
SendsEnd(c, x) == []<>(pc[c][x] \notin {"send", "lastsend"})

\* A call whose sends end returns, with a reply, a failure, a cancel or at the
\* final deadline, whatever the server, the network and the other callers do.
CallsReturn ==
    \A c \in Clients, x \in Xids :
        SendsEnd(c, x) => ((pc[c][x] # "none") ~> (pc[c][x] = "returned"))

\* If the sends of all callers end, cancel returns; and when it has, no caller is
\* left inside call1.
CancelReturns ==
    \A c \in Clients :
        /\ (\A x \in Xids : SendsEnd(c, x)) =>
               ((canceler[c] = "waiting") ~> (canceler[c] = "done"))
        /\ [](destroy_wait[c] /\ canceler[c] = "done" => \A x \in Xids : ~Pending(c, x))
=============================================================================
