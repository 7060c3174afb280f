------------------------------ MODULE RpcProofs ------------------------------
(***************************************************************************)
(* Proofs about Rpc for any sets of clients and dispatch threads and any   *)
(* bounds on calls, transmissions and server instances.                    *)
(***************************************************************************)
EXTENDS Rpc, TLAPS

USE XidAssumption, BoundsAssumption, OpsAssumption

-----------------------------------------------------------------------------
(* Type correctness *)

\* A caller stays in a place that call1 has.
LEMMA GoToType ==
  ASSUME TypeOK, NEW c \in Clients, NEW x \in Xids, NEW place \in Places, GoTo(c, x, place)
  PROVE pc' \in [Clients -> [Xids -> Places]]
BY DEF TypeOK, GoTo

\* Type correctness of the steps of the client.
LEMMA ClientStepType ==
  ASSUME TypeOK, NEW c \in Clients,
         \/ \E op \in Ops \cup {Bind} : Call(c, op)
         \/ \E x \in Xids : CallerStep(c, x) \/ TimeoutRetry(c, x)
         \/ Cancel(c)
         \/ CancelWake(c)
  PROVE TypeOK'
<1> USE DEF serverVars, netVars
<1>1. ASSUME NEW op \in Ops \cup {Bind}, Call(c, op) PROVE TypeOK'
  <2>1. xid[c] \in Xids
    BY <1>1 DEF Call, TypeOK, Xids
  <2>2. PICK r \in 0 .. MaxXid :
          hdr' = [hdr EXCEPT ![c][xid[c]] = [op |-> op, srv_nonce |-> srv_nonce[c], xid_rep |-> r]]
    BY <1>1 DEF Call
  <2>3. hdr' \in [Clients -> [Xids -> Headers]]
    BY <2>1, <2>2 DEF TypeOK, Headers
  <2>4. pc' \in [Clients -> [Xids -> Places]]
    BY <1>1, <2>1, GoToType DEF Call, Places, Outstanding
  <2>5. xid' \in [Clients -> 1 .. MaxXid + 1]
    BY <1>1 DEF Call, TypeOK
  <2> QED BY <1>1, <2>3, <2>4, <2>5 DEF Call, TypeOK
<1>2. ASSUME NEW x \in Xids, Send(c, x) PROVE TypeOK'
  <2>1. pc' \in [Clients -> [Xids -> Places]]
    BY <1>2, GoToType DEF Send, Places, Outstanding
  <2>2. sends' \in [Clients -> [Xids -> 0 .. MaxSend]]
    BY <1>2 DEF Send, TypeOK
  <2>3. reqs' \subseteq Requests
    BY <1>2 DEF Send, TypeOK, Requests
  <2> QED BY <1>2, <2>1, <2>2, <2>3 DEF Send, TypeOK
<1>3. ASSUME NEW x \in Xids, NEW place \in Places, OnlyGoTo(c, x, place) PROVE TypeOK'
  <2>1. pc' \in [Clients -> [Xids -> Places]]
    BY <1>3, GoToType DEF OnlyGoTo
  <2> QED BY <1>3, <2>1 DEF OnlyGoTo, TypeOK
<1>4. ASSUME NEW x \in Xids, WaitDone(c, x) \/ TimeoutRetry(c, x) \/ TimeoutFinal(c, x) PROVE TypeOK'
  BY <1>3, <1>4 DEF WaitDone, TimeoutRetry, TimeoutFinal, Places, Outstanding
<1>5. ASSUME NEW x \in Xids, Exit(c, x) PROVE TypeOK'
  <2>1. pc' \in [Clients -> [Xids -> Places]]
    BY <1>5, GoToType DEF Exit, Finish, Places
  <2>2. reply' \in [Clients -> [Xids -> Outcomes]]
    <3>1. [ret |-> "timeout_failure", val |-> 0] \in Outcomes
      BY DEF Outcomes, Rets
    <3> QED BY <1>5, <3>1 DEF Exit, Finish, TypeOK
  <2>3. acked' \in [Clients -> SUBSET Xids]
    BY <1>5 DEF Exit, TypeOK
  <2>4. canceler' \in [Clients -> {"none", "waiting", "signalled", "done"}]
    BY <1>5 DEF Exit, TypeOK
  <2> QED BY <1>5, <2>1, <2>2, <2>3, <2>4 DEF Exit, TypeOK
<1>6. ASSUME NEW x \in Xids, SetBound(c, x) PROVE TypeOK'
  <2>1. pc' \in [Clients -> [Xids -> Places]]
    BY <1>6, GoToType DEF SetBound, Places
  <2>2. reply[c][x].val \in Nonces \cup {0}
    BY DEF TypeOK, Outcomes
  <2>3. srv_nonce' \in [Clients -> Nonces \cup {0}]
    BY <1>6, <2>2 DEF SetBound, TypeOK
  <2> QED BY <1>6, <2>1, <2>3 DEF SetBound, TypeOK
<1>7. ASSUME Cancel(c) PROVE TypeOK'
  <2>1. \A x \in Xids : [ret |-> "cancel_failure", val |-> reply[c][x].val] \in Outcomes
    BY DEF TypeOK, Outcomes, Rets
  <2>2. reply' \in [Clients -> [Xids -> Outcomes]]
    <3> DEFINE cancelled == [x \in Xids |-> IF x \in {y \in Xids : Pending(c, y)}
                                             THEN [ret |-> "cancel_failure", val |-> reply[c][x].val]
                                             ELSE reply[c][x]]
    <3>1. cancelled \in [Xids -> Outcomes]
      BY <2>1 DEF TypeOK
    <3>2. reply' = reply \/ reply' = [reply EXCEPT ![c] = cancelled]
      BY <1>7 DEF Cancel
    <3> HIDE DEF cancelled
    <3> QED BY <3>1, <3>2 DEF TypeOK
  <2>3. /\ canceler' \in [Clients -> {"none", "waiting", "signalled", "done"}]
        /\ destroy_wait' \in [Clients -> BOOLEAN]
    BY <1>7 DEF Cancel, TypeOK
  <2> QED BY <1>7, <2>2, <2>3 DEF Cancel, TypeOK
<1>8. ASSUME CancelWake(c) PROVE TypeOK'
  BY <1>8 DEF CancelWake, TypeOK
<1> QED BY <1>1, <1>2, <1>4, <1>5, <1>6, <1>7, <1>8 DEF CallerStep, AfterSend

\* Type correctness of rpcc::got_pdu.
LEMMA GotPduType ==
  ASSUME TypeOK, NEW m \in reps, got_pdu(m)
  PROVE TypeOK'
<1>1. m \in Replies
  BY DEF TypeOK
<1>2. [ret |-> m.ret, val |-> m.val] \in Outcomes /\ m.clt \in Clients /\ m.xid \in Xids
  BY <1>1 DEF Replies, Outcomes, Rets
<1>3. reply' \in [Clients -> [Xids -> Outcomes]]
  BY <1>2 DEF got_pdu, TypeOK
<1>4. acked' \in [Clients -> SUBSET Xids]
  BY <1>2 DEF got_pdu, TypeOK
<1> QED BY <1>3, <1>4 DEF got_pdu, TypeOK, serverVars

\* Trimming a window, marking an xid and answering it give a window.
LEMMA TrimType ==
  ASSUME NEW w \in ReplyWindows, NEW r \in Int
  PROVE  Trim(w, r) \in ReplyWindows
BY DEF Trim, ReplyWindows

\* Saving a reply in a window gives a window.
LEMMA AnsweredType ==
  ASSUME NEW w \in ReplyWindows, NEW x \in Xids
  PROVE  Answered(w, x) \in ReplyWindows
BY DEF Answered, ReplyWindows

\* What the type invariant says about a request in flight.
LEMMA RequestType ==
  ASSUME TypeOK, NEW m \in reqs
  PROVE /\ m.clt \in Clients /\ m.xid \in Xids
        /\ hdr[m.clt][m.xid] \in Headers
        /\ hdr[m.clt][m.xid].xid_rep \in 0 .. MaxXid
        /\ window[m.clt] \in ReplyWindows
        /\ Trimmed(m) \in ReplyWindows
<1>1. m.clt \in Clients /\ m.xid \in Xids
  BY DEF TypeOK, Requests
<1>2. hdr[m.clt][m.xid] \in Headers /\ window[m.clt] \in ReplyWindows
  BY <1>1 DEF TypeOK
<1>3. hdr[m.clt][m.xid].xid_rep \in 0 .. MaxXid
  BY <1>2 DEF Headers
<1> QED BY <1>1, <1>2, <1>3, TrimType DEF Trimmed

\* Type correctness of the steps of the server.
LEMMA ServerStepType ==
  ASSUME TypeOK,
         \/ \E t \in Threads :
               \/ \E m \in reqs : Dispatch(t, m)
               \/ HandlerReturn(t)
               \/ ReplySend(t)
         \/ Restart
  PROVE TypeOK'
<1> USE DEF clientVars, netVars
<1>1. ASSUME NEW c \in Clients, NEW x \in Xids, SendReply(c, x, "ok") \/
             SendReply(c, x, "oldsrv_failure") \/ SendReply(c, x, "atmostonce_failure")
      PROVE  reps' \subseteq Replies
  BY <1>1 DEF SendReply, TypeOK, Replies
<1>2. ASSUME NEW t \in Threads, NEW m \in reqs, Dispatch(t, m) PROVE TypeOK'
  <2>1. /\ m.clt \in Clients /\ m.xid \in Xids
        /\ Trimmed(m) \in ReplyWindows
        /\ reqs' \subseteq Requests
    BY <1>2, RequestType DEF Dispatch, DispatchOldServer, DispatchNew, DispatchInProgress,
                             DispatchDone, DispatchForgotten, Accept, Receive, TypeOK
  <2>2. [window EXCEPT ![m.clt] = Trimmed(m)] \in [Clients -> ReplyWindows]
    BY <2>1 DEF TypeOK
  <2>3. CASE DispatchOldServer(t, m)
    BY <1>1, <2>1, <2>3 DEF DispatchOldServer, TypeOK, serverVars
  <2>4. CASE DispatchNew(t, m)
    <3>1. [Trimmed(m) EXCEPT ![m.xid] = "inprogress"] \in ReplyWindows
      BY <2>1 DEF ReplyWindows
    <3>2. window' \in [Clients -> ReplyWindows]
      BY <2>1, <2>4, <3>1 DEF DispatchNew, TypeOK
    <3>3. thr' \in [Threads -> Dispatchers \cup {Idle}]
      BY <2>1, <2>4 DEF DispatchNew, TypeOK, Dispatchers
    <3>4. runs' \in [Clients -> [Xids -> Nat]]
      BY <2>1, <2>4 DEF DispatchNew, TypeOK
    <3> QED BY <2>1, <2>4, <3>2, <3>3, <3>4 DEF DispatchNew, TypeOK
  <2>5. CASE DispatchInProgress(t, m)
    BY <2>1, <2>2, <2>5 DEF DispatchInProgress, TypeOK
  <2>6. CASE DispatchDone(t, m)
    <3>1. thr' \in [Threads -> Dispatchers \cup {Idle}]
      BY <2>1, <2>6 DEF DispatchDone, TypeOK, Dispatchers
    <3> QED BY <2>1, <2>2, <2>6, <3>1 DEF DispatchDone, TypeOK
  <2>7. CASE DispatchForgotten(t, m)
    BY <1>1, <2>1, <2>2, <2>7 DEF DispatchForgotten, TypeOK
  <2> QED BY <1>2, <2>3, <2>4, <2>5, <2>6, <2>7 DEF Dispatch
<1>3. ASSUME NEW t \in Threads, HandlerReturn(t) PROVE TypeOK'
  <2>1. thr[t] \in Dispatchers
    BY <1>3 DEF HandlerReturn, TypeOK, Idle
  <2>2. thr[t].clt \in Clients /\ thr[t].xid \in Xids
    BY <2>1 DEF Dispatchers
  <2>3. window' \in [Clients -> ReplyWindows]
    BY <1>3, <2>2, AnsweredType DEF HandlerReturn, TypeOK
  <2>4. thr' \in [Threads -> Dispatchers \cup {Idle}]
    BY <1>3, <2>1 DEF HandlerReturn, TypeOK, Dispatchers
  <2> QED BY <1>3, <2>3, <2>4 DEF HandlerReturn, TypeOK
<1>4. ASSUME NEW t \in Threads, ReplySend(t) PROVE TypeOK'
  <2>1. thr[t] \in Dispatchers
    BY <1>4 DEF ReplySend, TypeOK, Idle
  <2>2. thr[t].clt \in Clients /\ thr[t].xid \in Xids
    BY <2>1 DEF Dispatchers
  <2> QED BY <1>1, <1>4, <2>2 DEF ReplySend, TypeOK
<1>5. ASSUME Restart PROVE TypeOK'
  BY <1>5 DEF Restart, TypeOK, Nonces, EmptyWindow, ReplyWindows
<1> QED BY <1>2, <1>3, <1>4, <1>5

\* The initial state has the types.
LEMMA TypeCorrectInit == ASSUME Init PROVE TypeOK
BY DEF Init, TypeOK, Xids, Nonces, Headers, NoHeader, Places, Outcomes, NoOutcome, Rets,
       EmptyWindow, ReplyWindows

\* Every step keeps the types.
LEMMA StepKeepsTypeOK == ASSUME TypeOK, [Next]_vars PROVE TypeOK'
<1>1. CASE UNCHANGED vars
  BY <1>1 DEF vars, clientVars, serverVars, netVars, TypeOK
<1>2. CASE Next
  BY <1>2, ClientStepType, GotPduType, ServerStepType DEF Next
<1> QED BY <1>1, <1>2

\* The state has its type in every reachable state.
THEOREM TypeCorrect == Spec => []TypeOK
<1>1. Init => TypeOK
  BY TypeCorrectInit
<1>2. TypeOK /\ [Next]_vars => TypeOK'
  BY StepKeepsTypeOK
<1> QED BY <1>1, <1>2, PTL DEF Spec

-----------------------------------------------------------------------------
(* The inductive invariant behind at-most-once *)

\* The client has given out the xid.
Used(c, x) == pc[c][x] # "none"

\* Xids are given out in order; a request carries an xid_rep below its own xid
\* that covers only acknowledged xids; only a bind goes out unbound; no header
\* names a server instance that does not exist yet.
HeaderInv ==
    \A c \in Clients, x \in Xids :
        /\ Used(c, x) <=> x < xid[c]
        /\ Used(c, x) => /\ hdr[c][x].xid_rep < x
                         /\ \A y \in 1 .. hdr[c][x].xid_rep : y \in acked[c]
        /\ hdr[c][x].op # Bind => hdr[c][x].srv_nonce # 0
        /\ hdr[c][x].srv_nonce <= nonce

AckInv == \A c \in Clients, x \in Xids : x \in acked[c] => Used(c, x)

\* Every nonce anywhere is that of an instance started so far.
NonceInv ==
    /\ \A c \in Clients : srv_nonce[c] <= nonce
    /\ \A c \in Clients, x \in Xids : reply[c][x].val <= nonce
    /\ \A m \in reps : m.val <= nonce

\* PDUs and dispatch threads are about calls that were made.
MsgInv ==
    /\ \A m \in reqs : Used(m.clt, m.xid)
    /\ \A m \in reps : Used(m.clt, m.xid)
    /\ \A t \in Threads : thr[t].at # "idle" => Used(thr[t].clt, thr[t].xid)

\* Window w remembers xid x: x is in it, or w is not empty and starts above x.
SeenIn(w, x) == w[x] # "absent" \/ IsForgotten(w, x)

\* The server remembers every request it has run in this instance.
RunInv ==
    \A c \in Clients, x \in Xids :
        /\ ~Used(c, x) => runs[c][x] = 0
        /\ runs[c][x] = 0 => window[c][x] = "absent"
        /\ hdr[c][x].op # Bind =>
              /\ runs[c][x] <= 1
              /\ (runs[c][x] > 0 /\ hdr[c][x].srv_nonce = nonce) => SeenIn(window[c], x)

IInv ==
    /\ TypeOK
    /\ HeaderInv
    /\ AckInv
    /\ NonceInv
    /\ MsgInv
    /\ RunInv
    /\ NoReplyForgotten

-----------------------------------------------------------------------------
(* Facts about windows *)

\* Trimming below a request's own xid does not make the server forget it.
LEMMA SeenBySelf ==
  ASSUME NEW w \in ReplyWindows, NEW x \in Xids, NEW r \in 0 .. MaxXid, r < x, SeenIn(w, x)
  PROVE  SeenIn(Trim(w, r), x)
BY DEF SeenIn, IsForgotten, Trim, ReplyWindows, Xids

\* As long as something stays in the window, trimming makes no xid look new.
LEMMA SeenAfterTrim ==
  ASSUME NEW w \in ReplyWindows, NEW r \in 0 .. MaxXid, NEW z \in Xids, SeenIn(w, z),
         \E y \in Xids : Trim(w, r)[y] # "absent"
  PROVE  SeenIn(Trim(w, r), z)
BY DEF SeenIn, IsForgotten, Trim, ReplyWindows, Xids

\* Nor does the insertion of a new request, which is not below the front.
LEMMA SeenAfterNew ==
  ASSUME NEW w \in ReplyWindows, NEW x \in Xids, NEW r \in 0 .. MaxXid, r < x,
         Trim(w, r)[x] = "absent", ~IsForgotten(Trim(w, r), x),
         NEW z \in Xids, SeenIn(w, z)
  PROVE  SeenIn([Trim(w, r) EXCEPT ![x] = "inprogress"], z)
<1> DEFINE v == Trim(w, r)
           u == [v EXCEPT ![x] = "inprogress"]
<1>0. /\ v \in ReplyWindows
      /\ \A y \in Xids : v[y] = IF y < r THEN "absent" ELSE w[y]
  BY TrimType DEF Trim
<1>1. \A y \in Xids : u[y] = IF y = x THEN "inprogress" ELSE v[y]
  BY <1>0 DEF ReplyWindows
<1>2. v[x] = "absent" /\ ~IsForgotten(v, x)
  OBVIOUS
<1> SUFFICES SeenIn(u, z)
  OBVIOUS
<1> HIDE DEF v, u
<1>3. CASE \E y \in Xids : v[y] # "absent"
  <2>1. PICK y \in Xids : v[y] # "absent" /\ y <= x
    BY <1>2, <1>3 DEF IsForgotten, Xids
  <2>2. CASE v[z] # "absent"
    BY <1>1, <2>2 DEF SeenIn
  <2>3. CASE v[z] = "absent"
    <3>1. \A k \in Xids : v[k] # "absent" => k > z
      BY <1>0, <2>3 DEF SeenIn, IsForgotten, Xids
    <3>2. x > z
      BY <2>1, <3>1 DEF Xids
    <3> QED BY <1>1, <3>1, <3>2 DEF SeenIn, IsForgotten
  <2> QED BY <2>2, <2>3
<1>4. CASE \A y \in Xids : v[y] = "absent"
  <2>1. x > z
    BY <1>0, <1>4 DEF SeenIn, IsForgotten, Xids
  <2> QED BY <1>1, <1>4, <2>1 DEF SeenIn, IsForgotten
<1> QED BY <1>3, <1>4

-----------------------------------------------------------------------------
(* The steps of the client preserve the invariant *)

\* A new call takes a fresh xid, so nothing in the system knows it yet.
LEMMA CallKeepsInv ==
  ASSUME IInv, TypeOK', NEW c \in Clients, NEW op \in Ops \cup {Bind}, Call(c, op)
  PROVE  IInv'
<1> USE DEF serverVars, netVars
<1>1. xid[c] \in Xids
  BY DEF Call, IInv, TypeOK, Xids
<1>2. PICK r \in 0 .. MaxXid :
        /\ IsXidRep(r, acked[c])
        /\ hdr' = [hdr EXCEPT ![c][xid[c]] = [op |-> op, srv_nonce |-> srv_nonce[c], xid_rep |-> r]]
  BY DEF Call
<1>3. /\ ~Used(c, xid[c])
      /\ runs[c][xid[c]] = 0
      /\ window[c][xid[c]] = "absent"
  BY <1>1 DEF IInv, HeaderInv, RunInv, TypeOK
<1>4. r < xid[c]
  <2>1. xid[c] \notin acked[c]
    BY <1>1, <1>3 DEF IInv, AckInv
  <2> QED BY <1>1, <1>2, <2>1 DEF IsXidRep, Xids
<1>5. \A d \in Clients, x \in Xids :
        IF d = c /\ x = xid[c]
        THEN /\ hdr'[d][x] = [op |-> op, srv_nonce |-> srv_nonce[c], xid_rep |-> r]
             /\ pc'[d][x] = "send"
        ELSE /\ hdr'[d][x] = hdr[d][x]
             /\ pc'[d][x] = pc[d][x]
  BY <1>1, <1>2 DEF Call, GoTo, IInv, TypeOK
<1>6. \A d \in Clients : xid'[d] = IF d = c THEN xid[c] + 1 ELSE xid[d]
  BY DEF Call, IInv, TypeOK
<1>7. \A d \in Clients, x \in Xids : Used(d, x)' <=> (Used(d, x) \/ (d = c /\ x = xid[c]))
  BY <1>5 DEF Used
<1>8. HeaderInv'
  <2> SUFFICES ASSUME NEW d \in Clients, NEW x \in Xids
               PROVE /\ Used(d, x)' <=> x < xid'[d]
                     /\ Used(d, x)' => /\ hdr'[d][x].xid_rep < x
                                       /\ \A y \in 1 .. hdr'[d][x].xid_rep : y \in acked'[d]
                     /\ hdr'[d][x].op # Bind => hdr'[d][x].srv_nonce # 0
                     /\ hdr'[d][x].srv_nonce <= nonce'
    BY DEF HeaderInv
  <2>0. acked' = acked /\ nonce' = nonce
    BY DEF Call
  <2>1. CASE d = c /\ x = xid[c]
    <3>1. hdr'[d][x].op = op /\ hdr'[d][x].srv_nonce = srv_nonce[c] /\ hdr'[d][x].xid_rep = r
      BY <1>5, <2>1
    <3>2. op # Bind => srv_nonce[c] # 0
      BY DEF Call
    <3>3. srv_nonce[c] <= nonce
      BY DEF IInv, NonceInv
    <3>4. \A y \in 1 .. r : y \in acked[c]
      BY <1>2 DEF IsXidRep
    <3>5. Used(d, x)' /\ x < xid'[d]
      BY <1>1, <1>6, <1>7, <2>1 DEF Xids
    <3> QED BY <1>4, <2>0, <2>1, <3>1, <3>2, <3>3, <3>4, <3>5
  <2>2. CASE ~(d = c /\ x = xid[c])
    <3>1. Used(d, x)' <=> Used(d, x)
      BY <1>7, <2>2
    <3>2. x < xid'[d] <=> x < xid[d]
      <4>1. xid[d] \in Int /\ xid[c] \in Int /\ x \in Int
        BY DEF Xids, IInv, TypeOK
      <4>2. CASE d = c
        BY <1>6, <2>2, <4>1, <4>2
      <4>3. CASE d # c
        BY <1>6, <4>3
      <4> QED BY <4>2, <4>3
    <3> QED BY <1>5, <2>0, <2>2, <3>1, <3>2 DEF IInv, HeaderInv
  <2> QED BY <2>1, <2>2
<1>9. AckInv'
  BY <1>7 DEF Call, IInv, AckInv
<1>10. NonceInv'
  BY DEF Call, IInv, NonceInv
<1>11. MsgInv'
  <2>1. \A m \in reqs : m.clt \in Clients /\ m.xid \in Xids
    BY DEF IInv, TypeOK, Requests
  <2>2. \A m \in reps : m.clt \in Clients /\ m.xid \in Xids
    BY DEF IInv, TypeOK, Replies
  <2>3. \A t \in Threads : thr[t].at # "idle" => thr[t].clt \in Clients /\ thr[t].xid \in Xids
    BY DEF IInv, TypeOK, Dispatchers, Idle
  <2> QED BY <1>7, <2>1, <2>2, <2>3 DEF Call, IInv, MsgInv
<1>12. RunInv'
  BY <1>3, <1>5, <1>7 DEF Call, IInv, RunInv
<1>13. NoReplyForgotten'
  BY <1>3, <1>5 DEF Call, IInv, NoReplyForgotten
<1> QED BY <1>8, <1>9, <1>10, <1>11, <1>12, <1>13 DEF IInv

\* The other steps of the client leave requests, windows and runs alone; they
\* acknowledge and transmit only calls that were made.
LEMMA ClientFrame ==
  ASSUME IInv, TypeOK', UNCHANGED <<hdr, xid, nonce, window, runs, thr>>,
         \A c \in Clients, x \in Xids : Used(c, x)' <=> Used(c, x),
         \A c \in Clients, x \in Xids : x \in acked[c] => x \in acked'[c],
         \A c \in Clients, x \in Xids : x \in acked'[c] => x \in acked[c] \/ Used(c, x),
         \A c \in Clients : srv_nonce'[c] <= nonce,
         \A c \in Clients, x \in Xids : reply'[c][x].val <= nonce,
         \A m \in reqs' : m \in reqs \/ Used(m.clt, m.xid),
         reps' \subseteq reps
  PROVE  IInv'
<1>1. HeaderInv'
  <2>1. \A c \in Clients, x \in Xids : \A y \in 1 .. hdr[c][x].xid_rep : y \in Xids
    <3>1. SUFFICES ASSUME NEW c \in Clients, NEW x \in Xids, NEW y \in 1 .. hdr[c][x].xid_rep
                   PROVE  y \in Xids
      OBVIOUS
    <3>2. hdr[c][x] \in Headers
      BY DEF IInv, TypeOK
    <3>3. hdr[c][x].xid_rep \in 0 .. MaxXid
      BY <3>2 DEF Headers
    <3> QED BY <3>3, XidAssumption DEF Xids
  <2> QED BY <2>1 DEF IInv, HeaderInv
<1>2. AckInv'
  BY DEF IInv, AckInv
<1>3. NonceInv'
  BY DEF IInv, NonceInv
<1>4. MsgInv'
  <2>1. \A m \in reqs' : m.clt \in Clients /\ m.xid \in Xids
    BY DEF TypeOK, Requests
  <2>2. \A m \in reps : m.clt \in Clients /\ m.xid \in Xids
    BY DEF IInv, TypeOK, Replies
  <2>3. \A t \in Threads : thr[t].at # "idle" => thr[t].clt \in Clients /\ thr[t].xid \in Xids
    BY DEF IInv, TypeOK, Dispatchers, Idle
  <2> QED BY <2>1, <2>2, <2>3 DEF IInv, MsgInv
<1>5. RunInv'
  BY DEF IInv, RunInv
<1>6. NoReplyForgotten'
  BY DEF IInv, NoReplyForgotten
<1> QED BY <1>1, <1>2, <1>3, <1>4, <1>5, <1>6 DEF IInv

\* A caller that moves from one place of call1 to another is still in use.
LEMMA GoToUsed ==
  ASSUME TypeOK, NEW c \in Clients, NEW x \in Xids, NEW place, place # "none",
         Used(c, x), GoTo(c, x, place)
  PROVE  \A d \in Clients, y \in Xids : Used(d, y)' <=> Used(d, y)
BY DEF TypeOK, GoTo, Used

\* The steps of call1, bind and cancel keep the invariant.
LEMMA ClientStepKeepsInv ==
  ASSUME IInv, TypeOK', NEW c \in Clients,
         \/ \E x \in Xids : CallerStep(c, x) \/ TimeoutRetry(c, x)
         \/ Cancel(c)
         \/ CancelWake(c)
  PROVE  IInv'
<1> USE DEF serverVars, netVars
<1>0. /\ TypeOK
      /\ \A d \in Clients : srv_nonce[d] <= nonce
      /\ \A d \in Clients, y \in Xids : reply[d][y].val <= nonce
      /\ 0 <= nonce
  BY DEF IInv, NonceInv, TypeOK, Nonces
<1>1. ASSUME NEW x \in Xids, Send(c, x) PROVE IInv'
  <2>1. Used(c, x)
    BY <1>1 DEF Send, Used
  <2>2. \A d \in Clients, y \in Xids : Used(d, y)' <=> Used(d, y)
    BY <1>0, <1>1, <2>1, GoToUsed DEF Send
  <2>3. \A m \in reqs' : m \in reqs \/ Used(m.clt, m.xid)
    BY <1>1, <2>1 DEF Send
  <2> QED BY <1>0, <1>1, <2>2, <2>3, ClientFrame DEF Send
<1>2. ASSUME NEW x \in Xids, NEW place, place # "none", Used(c, x), OnlyGoTo(c, x, place) PROVE IInv'
  <2>1. \A d \in Clients, y \in Xids : Used(d, y)' <=> Used(d, y)
    BY <1>0, <1>2, GoToUsed DEF OnlyGoTo
  <2> QED BY <1>0, <1>2, <2>1, ClientFrame DEF OnlyGoTo
<1>3. ASSUME NEW x \in Xids, WaitDone(c, x) \/ TimeoutRetry(c, x) \/ TimeoutFinal(c, x) PROVE IInv'
  BY <1>2, <1>3 DEF WaitDone, TimeoutRetry, TimeoutFinal, Used
<1>4. ASSUME NEW x \in Xids, Exit(c, x) PROVE IInv'
  <2>1. Used(c, x)
    BY <1>4 DEF Exit, Used
  <2>2. \A d \in Clients, y \in Xids : Used(d, y)' <=> Used(d, y)
    BY <1>0, <1>4, <2>1, GoToUsed DEF Exit, Finish
  <2>3. /\ \A d \in Clients, y \in Xids : y \in acked[d] => y \in acked'[d]
        /\ \A d \in Clients, y \in Xids : y \in acked'[d] => y \in acked[d] \/ Used(d, y)
    BY <1>0, <1>4, <2>1 DEF Exit, TypeOK
  <2>4. \A d \in Clients, y \in Xids : reply'[d][y].val <= nonce
    <3>1. \A d \in Clients, y \in Xids : reply'[d][y] = reply[d][y] \/ reply'[d][y].val = 0
      BY <1>0, <1>4 DEF Exit, Finish, TypeOK
    <3> QED BY <1>0, <3>1
  <2> QED BY <1>0, <1>4, <2>2, <2>3, <2>4, ClientFrame DEF Exit
<1>5. ASSUME NEW x \in Xids, SetBound(c, x) PROVE IInv'
  <2>1. Used(c, x)
    BY <1>5 DEF SetBound, Used
  <2>2. \A d \in Clients, y \in Xids : Used(d, y)' <=> Used(d, y)
    BY <1>0, <1>5, <2>1, GoToUsed DEF SetBound
  <2>3. \A d \in Clients : srv_nonce'[d] <= nonce
    BY <1>0, <1>5 DEF SetBound, TypeOK
  <2> QED BY <1>0, <1>5, <2>2, <2>3, ClientFrame DEF SetBound
<1>6. ASSUME Cancel(c) PROVE IInv'
  <2>1. \A d \in Clients, y \in Xids : reply'[d][y].val = reply[d][y].val
    <3>1. CASE UNCHANGED reply
      BY <3>1
    <3>2. CASE ~UNCHANGED reply
      <4>1. reply' = [reply EXCEPT ![c] =
                        [x \in Xids |-> IF x \in {y \in Xids : Pending(c, y)}
                                        THEN [ret |-> "cancel_failure", val |-> reply[c][x].val]
                                        ELSE reply[c][x]]]
        BY <1>6, <3>2 DEF Cancel
      <4> QED BY <1>0, <4>1 DEF TypeOK
    <3> QED BY <3>1, <3>2
  <2>2. \A d \in Clients, y \in Xids : reply'[d][y].val <= nonce
    BY <1>0, <2>1
  <2> QED BY <1>0, <1>6, <2>2, ClientFrame DEF Cancel, Used
<1>7. ASSUME CancelWake(c) PROVE IInv'
  BY <1>0, <1>7, ClientFrame DEF CancelWake, Used
<1> QED BY <1>1, <1>3, <1>4, <1>5, <1>6, <1>7 DEF CallerStep, AfterSend

\* rpcc::got_pdu keeps the invariant: an acknowledged call has been sent.
LEMMA GotPduKeepsInv ==
  ASSUME IInv, TypeOK', NEW m \in reps, got_pdu(m)
  PROVE  IInv'
<1> USE DEF serverVars
<1>1. m.clt \in Clients /\ m.xid \in Xids
  BY DEF IInv, TypeOK, Replies
<1>2. Used(m.clt, m.xid) /\ m.val <= nonce
  BY DEF IInv, MsgInv, NonceInv
<1>3. /\ \A d \in Clients, y \in Xids : y \in acked[d] => y \in acked'[d]
      /\ \A d \in Clients, y \in Xids : y \in acked'[d] => y \in acked[d] \/ Used(d, y)
  BY <1>1, <1>2 DEF got_pdu, IInv, TypeOK
<1>4. \A d \in Clients, y \in Xids : reply'[d][y].val <= nonce
  <2>1. \A d \in Clients, y \in Xids :
          reply'[d][y] = reply[d][y] \/ reply'[d][y] = [ret |-> m.ret, val |-> m.val]
    BY <1>1 DEF got_pdu, IInv, TypeOK
  <2>2. \A d \in Clients, y \in Xids : reply[d][y].val <= nonce
    BY DEF IInv, NonceInv
  <2> QED BY <1>2, <2>1, <2>2
<1>5. \A d \in Clients : srv_nonce[d] <= nonce
  BY DEF IInv, NonceInv
<1> QED BY <1>3, <1>4, <1>5, ClientFrame DEF got_pdu, Used

-----------------------------------------------------------------------------
(* The steps of the server preserve the invariant *)

\* Steps of one server instance: they only answer and serve calls that exist.
LEMMA ServerFrame ==
  ASSUME IInv, TypeOK', UNCHANGED <<hdr, pc, xid, acked, srv_nonce, reply, nonce>>,
         reqs' \subseteq reqs,
         \A m \in reps' : m \in reps \/ (Used(m.clt, m.xid) /\ m.val <= nonce),
         \A t \in Threads : thr'[t].at # "idle" => Used(thr'[t].clt, thr'[t].xid)
  PROVE  HeaderInv' /\ AckInv' /\ NonceInv' /\ MsgInv'
<1>1. HeaderInv' /\ AckInv'
  BY DEF IInv, HeaderInv, AckInv, Used
<1>2. NonceInv'
  BY DEF IInv, NonceInv
<1>3. MsgInv'
  BY DEF IInv, MsgInv, Used
<1> QED BY <1>1, <1>2, <1>3

\* What the invariant says about a request that reaches checkduplicate_and_update.
LEMMA RequestFacts ==
  ASSUME IInv, NEW m \in reqs
  PROVE /\ m.clt \in Clients /\ m.xid \in Xids
        /\ window[m.clt] \in ReplyWindows
        /\ Trimmed(m) = Trim(window[m.clt], hdr[m.clt][m.xid].xid_rep)
        /\ Used(m.clt, m.xid)
        /\ hdr[m.clt][m.xid].xid_rep \in 0 .. MaxXid
        /\ hdr[m.clt][m.xid].xid_rep < m.xid
        /\ \A y \in Xids : y < hdr[m.clt][m.xid].xid_rep => y \in acked[m.clt]
<1>1. /\ m.clt \in Clients /\ m.xid \in Xids /\ window[m.clt] \in ReplyWindows
      /\ hdr[m.clt][m.xid].xid_rep \in 0 .. MaxXid
  BY RequestType DEF IInv
<1>2. Used(m.clt, m.xid)
  BY DEF IInv, MsgInv
<1>3. /\ hdr[m.clt][m.xid].xid_rep < m.xid
      /\ \A y \in 1 .. hdr[m.clt][m.xid].xid_rep : y \in acked[m.clt]
  BY <1>1, <1>2 DEF IInv, HeaderInv
<1> QED BY <1>1, <1>2, <1>3 DEF Trimmed, Xids

\* A duplicate or a refused request trims the window and leaves something in it.
LEMMA TrimKeepsInv ==
  ASSUME IInv, NEW m \in reqs, UNCHANGED <<hdr, pc, acked, nonce, runs>>,
         window' = [window EXCEPT ![m.clt] = Trimmed(m)],
         \E y \in Xids : Trimmed(m)[y] # "absent"
  PROVE  RunInv' /\ NoReplyForgotten'
<1> DEFINE c == m.clt
           r == hdr[m.clt][m.xid].xid_rep
<1>0. /\ c \in Clients /\ r \in 0 .. MaxXid /\ window[c] \in ReplyWindows
      /\ Trimmed(m) = Trim(window[c], r)
      /\ \A y \in Xids : y < r => y \in acked[c]
  BY RequestFacts
<1> HIDE DEF c, r
<1>1. \A d \in Clients : window'[d] = IF d = c THEN Trim(window[c], r) ELSE window[d]
  BY <1>0 DEF IInv, TypeOK, c
<1>2. \A y \in Xids : Trim(window[c], r)[y] = IF y < r THEN "absent" ELSE window[c][y]
  BY DEF Trim
<1>3. \A z \in Xids : SeenIn(window[c], z) => SeenIn(Trim(window[c], r), z)
  BY <1>0, SeenAfterTrim
<1>4. \A d \in Clients, z \in Xids : SeenIn(window[d], z) => SeenIn(window'[d], z)
  BY <1>1, <1>3
<1>5. \A d \in Clients, z \in Xids : window[d][z] = "absent" => window'[d][z] = "absent"
  BY <1>1, <1>2
<1>6. RunInv'
  BY <1>4, <1>5 DEF IInv, RunInv, Used
<1>7. NoReplyForgotten'
  BY <1>0, <1>1, <1>2 DEF IInv, NoReplyForgotten
<1> QED BY <1>6, <1>7

\* A request that is NEW has not been run before by this instance.
LEMMA NewWasNotRun ==
  ASSUME IInv, NEW t \in Threads, NEW m \in reqs, DispatchNew(t, m), hdr[m.clt][m.xid].op # Bind
  PROVE  runs[m.clt][m.xid] = 0
<1>1. m.clt \in Clients /\ m.xid \in Xids
  BY RequestFacts
<1>2. hdr[m.clt][m.xid].srv_nonce = nonce
  BY <1>1 DEF DispatchNew, Accept, OldServer, IInv, HeaderInv
<1>3. ~SeenIn(Trimmed(m), m.xid)
  BY DEF DispatchNew, SeenIn
<1>4. ~SeenIn(window[m.clt], m.xid)
  BY <1>3, RequestFacts, SeenBySelf
<1> QED BY <1>1, <1>2, <1>4 DEF IInv, RunInv, TypeOK

\* Starting a handler keeps the invariant: a request that was run before would
\* be in the window or forgotten.
LEMMA DispatchNewKeepsInv ==
  ASSUME IInv, NEW t \in Threads, NEW m \in reqs, DispatchNew(t, m)
  PROVE  RunInv' /\ NoReplyForgotten'
<1> DEFINE c == m.clt
           x == m.xid
           r == hdr[m.clt][m.xid].xid_rep
           v == Trim(window[m.clt], r)
<1>0. /\ c \in Clients /\ x \in Xids /\ r \in 0 .. MaxXid /\ r < x /\ window[c] \in ReplyWindows
      /\ Trimmed(m) = v /\ Used(c, x)
      /\ \A y \in Xids : y < r => y \in acked[c]
  BY RequestFacts
<1>1. hdr[c][x].op # Bind => runs[c][x] = 0
  BY NewWasNotRun
<1>2. /\ UNCHANGED <<hdr, pc, acked, nonce>>
      /\ window' = [window EXCEPT ![c] = [v EXCEPT ![x] = "inprogress"]]
      /\ runs' = [runs EXCEPT ![c][x] = @ + 1]
      /\ v[x] = "absent" /\ ~IsForgotten(v, x)
  BY <1>0 DEF DispatchNew, clientVars
<1>3. \A z \in Xids : SeenIn(window[c], z) => SeenIn([v EXCEPT ![x] = "inprogress"], z)
  BY <1>0, <1>2, SeenAfterNew
<1>4. v \in ReplyWindows /\ \A y \in Xids : v[y] = IF y < r THEN "absent" ELSE window[c][y]
  BY <1>0, TrimType DEF Trim
<1> HIDE DEF c, x, r, v
<1>5. \A d \in Clients : window'[d] = IF d = c THEN [v EXCEPT ![x] = "inprogress"] ELSE window[d]
  BY <1>0, <1>2 DEF IInv, TypeOK
<1>6. \A d \in Clients, z \in Xids :
        IF d = c /\ z = x THEN window'[d][z] = "inprogress" /\ runs'[d][z] = runs[d][z] + 1
        ELSE /\ runs'[d][z] = runs[d][z]
             /\ window'[d][z] = IF d = c THEN v[z] ELSE window[d][z]
  BY <1>0, <1>2, <1>4, <1>5 DEF IInv, TypeOK, ReplyWindows
<1>7. \A d \in Clients, z \in Xids : SeenIn(window[d], z) => SeenIn(window'[d], z)
  BY <1>3, <1>5
<1>8. RunInv'
  <2> SUFFICES ASSUME NEW d \in Clients, NEW z \in Xids
               PROVE /\ ~Used(d, z)' => runs'[d][z] = 0
                     /\ runs'[d][z] = 0 => window'[d][z] = "absent"
                     /\ hdr'[d][z].op # Bind =>
                           /\ runs'[d][z] <= 1
                           /\ (runs'[d][z] > 0 /\ hdr'[d][z].srv_nonce = nonce') => SeenIn(window'[d], z)
    BY DEF RunInv
  <2>0. runs[d][z] \in Nat
    BY DEF IInv, TypeOK
  <2>1. CASE d = c /\ z = x
    <3>1. window'[d][z] = "inprogress" /\ runs'[d][z] = runs[d][z] + 1
      BY <1>6, <2>1
    <3>2. SeenIn(window'[d], z)
      BY <3>1 DEF SeenIn
    <3> QED BY <1>0, <1>1, <1>2, <2>0, <2>1, <3>1, <3>2 DEF Used
  <2>2. CASE ~(d = c /\ z = x)
    <3>1. runs'[d][z] = runs[d][z] /\ (window[d][z] = "absent" => window'[d][z] = "absent")
      BY <1>4, <1>6, <2>2
    <3> QED BY <1>2, <1>7, <3>1 DEF IInv, RunInv, Used
  <2> QED BY <2>1, <2>2
<1>9. NoReplyForgotten'
  BY <1>0, <1>2, <1>4, <1>6 DEF IInv, NoReplyForgotten
<1> QED BY <1>8, <1>9

\* The five outcomes of dispatch keep the invariant.
LEMMA DispatchKeepsInv ==
  ASSUME IInv, TypeOK', NEW t \in Threads, NEW m \in reqs, Dispatch(t, m)
  PROVE  IInv'
<1> USE DEF clientVars
<1>0. /\ m.clt \in Clients /\ m.xid \in Xids /\ Used(m.clt, m.xid) /\ nonce <= nonce
      /\ \A u \in Threads : thr[u].at # "idle" => Used(thr[u].clt, thr[u].xid)
      /\ DOMAIN thr = Threads
  BY RequestFacts DEF IInv, MsgInv, TypeOK, Nonces
<1>1. ASSUME NEW ret, SendReply(m.clt, m.xid, ret)
      PROVE  \A p \in reps' : p \in reps \/ (Used(p.clt, p.xid) /\ p.val <= nonce)
  BY <1>0, <1>1 DEF SendReply
<1>2. CASE DispatchOldServer(t, m)
  <2>1. HeaderInv' /\ AckInv' /\ NonceInv' /\ MsgInv'
    BY <1>0, <1>1, <1>2, ServerFrame DEF DispatchOldServer, Receive, serverVars
  <2>2. RunInv' /\ NoReplyForgotten'
    BY <1>2 DEF DispatchOldServer, serverVars, IInv, RunInv, NoReplyForgotten, Used
  <2> QED BY <2>1, <2>2 DEF IInv
<1>3. CASE DispatchNew(t, m)
  <2>1. \A u \in Threads : thr'[u].at # "idle" => Used(thr'[u].clt, thr'[u].xid)
    BY <1>0, <1>3 DEF DispatchNew
  <2>2. HeaderInv' /\ AckInv' /\ NonceInv' /\ MsgInv'
    BY <1>3, <2>1, ServerFrame DEF DispatchNew, Accept, Receive
  <2> QED BY <1>3, <2>2, DispatchNewKeepsInv DEF IInv
<1>4. CASE DispatchInProgress(t, m)
  <2>1. HeaderInv' /\ AckInv' /\ NonceInv' /\ MsgInv'
    BY <1>0, <1>4, ServerFrame DEF DispatchInProgress, Accept, Receive
  <2>2. RunInv' /\ NoReplyForgotten'
    BY <1>0, <1>4, TrimKeepsInv DEF DispatchInProgress
  <2> QED BY <2>1, <2>2 DEF IInv
<1>5. CASE DispatchDone(t, m)
  <2>1. \A u \in Threads : thr'[u].at # "idle" => Used(thr'[u].clt, thr'[u].xid)
    BY <1>0, <1>5 DEF DispatchDone
  <2>2. HeaderInv' /\ AckInv' /\ NonceInv' /\ MsgInv'
    BY <1>5, <2>1, ServerFrame DEF DispatchDone, Accept, Receive
  <2>3. RunInv' /\ NoReplyForgotten'
    BY <1>0, <1>5, TrimKeepsInv DEF DispatchDone
  <2> QED BY <2>2, <2>3 DEF IInv
<1>6. CASE DispatchForgotten(t, m)
  <2>1. HeaderInv' /\ AckInv' /\ NonceInv' /\ MsgInv'
    BY <1>0, <1>1, <1>6, ServerFrame DEF DispatchForgotten, Accept, Receive
  <2>2. RunInv' /\ NoReplyForgotten'
    BY <1>6, TrimKeepsInv DEF DispatchForgotten, IsForgotten
  <2> QED BY <2>1, <2>2 DEF IInv
<1> QED BY <1>2, <1>3, <1>4, <1>5, <1>6 DEF Dispatch

\* Saving a reply changes no xid's presence in the window.
LEMMA HandlerReturnKeepsInv ==
  ASSUME IInv, TypeOK', NEW t \in Threads, HandlerReturn(t)
  PROVE  IInv'
<1> USE DEF clientVars, netVars
<1>0. thr[t] \in Dispatchers /\ thr[t].at = "run"
  BY DEF HandlerReturn, IInv, TypeOK, Idle
<1>1. thr[t].clt \in Clients /\ thr[t].xid \in Xids /\ Used(thr[t].clt, thr[t].xid)
  BY <1>0 DEF Dispatchers, IInv, MsgInv
<1>2. \A u \in Threads : thr'[u].at # "idle" => Used(thr'[u].clt, thr'[u].xid)
  BY <1>0, <1>1 DEF HandlerReturn, IInv, MsgInv, TypeOK, Dispatchers
<1>3. HeaderInv' /\ AckInv' /\ NonceInv' /\ MsgInv'
  BY <1>2, ServerFrame DEF HandlerReturn
<1>4. \A d \in Clients, z \in Xids : window'[d][z] = "absent" <=> window[d][z] = "absent"
  BY <1>1 DEF HandlerReturn, Answered, IInv, TypeOK, ReplyWindows
<1>5. \A d \in Clients, z \in Xids : SeenIn(window[d], z) => SeenIn(window'[d], z)
  BY <1>4 DEF SeenIn, IsForgotten
<1>6. RunInv'
  BY <1>4, <1>5 DEF HandlerReturn, IInv, RunInv, Used
<1>7. NoReplyForgotten'
  BY <1>4 DEF HandlerReturn, IInv, NoReplyForgotten
<1> QED BY <1>3, <1>6, <1>7 DEF IInv

\* Sending a reply keeps the invariant.
LEMMA ReplySendKeepsInv ==
  ASSUME IInv, TypeOK', NEW t \in Threads, ReplySend(t)
  PROVE  IInv'
<1> USE DEF clientVars
<1>1. Used(thr[t].clt, thr[t].xid) /\ nonce <= nonce
  BY DEF ReplySend, IInv, MsgInv, TypeOK, Nonces
<1>2. \A p \in reps' : p \in reps \/ (Used(p.clt, p.xid) /\ p.val <= nonce)
  BY <1>1 DEF ReplySend, SendReply
<1>3. \A u \in Threads : thr'[u].at # "idle" => Used(thr'[u].clt, thr'[u].xid)
  BY DEF ReplySend, IInv, MsgInv, TypeOK, Idle
<1>4. HeaderInv' /\ AckInv' /\ NonceInv' /\ MsgInv'
  BY <1>2, <1>3, ServerFrame DEF ReplySend
<1>5. RunInv' /\ NoReplyForgotten'
  BY DEF ReplySend, IInv, RunInv, NoReplyForgotten, Used
<1> QED BY <1>4, <1>5 DEF IInv

\* A new instance has an empty window, and no call is bound to it.
LEMMA RestartKeepsInv ==
  ASSUME IInv, TypeOK', Restart
  PROVE  IInv'
<1> USE DEF clientVars
<1>1. nonce' = nonce + 1 /\ nonce \in Int
  BY DEF Restart, IInv, TypeOK, Nonces
<1>2. \A c \in Clients, x \in Xids : hdr[c][x].srv_nonce <= nonce' /\ hdr[c][x].srv_nonce # nonce'
  <2>1. \A c \in Clients, x \in Xids : hdr[c][x].srv_nonce \in Int
    BY DEF IInv, TypeOK, Headers, Nonces
  <2>2. \A c \in Clients, x \in Xids : hdr[c][x].srv_nonce <= nonce
    BY DEF IInv, HeaderInv
  <2>3. \A k \in Int : k <= nonce => k <= nonce' /\ k # nonce'
    BY <1>1
  <2> QED BY <2>1, <2>2, <2>3
<1>3. HeaderInv'
  <2>1. UNCHANGED <<hdr, pc, xid, acked>>
    BY DEF Restart
  <2> QED BY <1>2, <2>1 DEF IInv, HeaderInv, Used
<1>4. AckInv'
  BY DEF Restart, IInv, AckInv, Used
<1>5. NonceInv'
  <2>1. \A k \in Int : k <= nonce => k <= nonce'
    BY <1>1
  <2>2. /\ \A c \in Clients : srv_nonce[c] \in Int
        /\ \A c \in Clients, x \in Xids : reply[c][x].val \in Int
        /\ \A m \in reps : m.val \in Int
    BY DEF IInv, TypeOK, Outcomes, Replies, Nonces
  <2> QED BY <2>1, <2>2 DEF Restart, IInv, NonceInv
<1>6. MsgInv'
  BY DEF Restart, IInv, MsgInv, Used, Idle
<1>7. \A c \in Clients, x \in Xids : window'[c][x] = "absent"
  BY DEF Restart, EmptyWindow
<1>8. RunInv'
  BY <1>2, <1>7 DEF Restart, IInv, RunInv, Used
<1>9. NoReplyForgotten'
  BY <1>2 DEF Restart, IInv, NoReplyForgotten
<1> QED BY <1>3, <1>4, <1>5, <1>6, <1>8, <1>9 DEF IInv

-----------------------------------------------------------------------------
\* The inductive invariant holds initially.
LEMMA InitIInv == ASSUME Init PROVE IInv
<1>1. TypeOK
  BY TypeCorrectInit
<1>2. HeaderInv
  BY DEF Init, HeaderInv, Used, NoHeader, Xids
<1>3. AckInv /\ NonceInv /\ MsgInv
  BY DEF Init, AckInv, NonceInv, MsgInv, NoOutcome, Idle
<1>4. RunInv /\ NoReplyForgotten
  BY DEF Init, RunInv, NoReplyForgotten, EmptyWindow
<1> QED BY <1>1, <1>2, <1>3, <1>4 DEF IInv

\* Every step keeps it.
LEMMA StepKeepsIInv == ASSUME IInv, [Next]_vars PROVE IInv'
<1>0. TypeOK'
  BY StepKeepsTypeOK DEF IInv
<1>1. CASE UNCHANGED vars
  BY <1>0, <1>1 DEF vars, clientVars, serverVars, netVars, IInv, HeaderInv, AckInv, NonceInv,
                    MsgInv, RunInv, NoReplyForgotten, Used
<1>2. CASE Next
  BY <1>0, <1>2, CallKeepsInv, ClientStepKeepsInv, GotPduKeepsInv, DispatchKeepsInv,
     HandlerReturnKeepsInv, ReplySendKeepsInv, RestartKeepsInv DEF Next
<1> QED BY <1>1, <1>2

\* It holds in every reachable state.
LEMMA InductiveInvariant == Spec => []IInv
<1>1. Init => IInv
  BY InitIInv
<1>2. IInv /\ [Next]_vars => IInv'
  BY StepKeepsIInv
<1> QED BY <1>1, <1>2, PTL DEF Spec

\* At most once: the handler of a call runs at most once, for any number of
\* clients, threads, calls, retransmissions and server restarts.
THEOREM AtMostOnceHolds == Spec => []AtMostOnce
<1>1. IInv => AtMostOnce
  BY DEF IInv, RunInv, AtMostOnce
<1> QED BY <1>1, InductiveInvariant, PTL

\* The reply of a call that was run is kept until the client acknowledges it.
THEOREM NoReplyForgottenHolds == Spec => []NoReplyForgotten
<1>1. IInv => NoReplyForgotten
  BY DEF IInv
<1> QED BY <1>1, InductiveInvariant, PTL
=============================================================================
