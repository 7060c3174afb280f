--------------------------- MODULE RpcAnswerProofs ---------------------------
(***************************************************************************)
(* What the answer to a call means, proved for any clients, threads and    *)
(* bounds on top of the invariant of RpcProofs: a call that returns the    *)
(* handler's result was run exactly once and is not still running, and a   *)
(* call that was never run is refused as forgotten only after the client   *)
(* has given up on a call.                                                 *)
(***************************************************************************)
EXTENDS RpcProofs

USE XidAssumption, BoundsAssumption, OpsAssumption

-----------------------------------------------------------------------------
(* Exactly once on success *)

\* The handler of the call has run, once, and no thread is inside it.
Settled(c, x) == runs[c][x] = 1 /\ \A t \in Threads : ~Running(t, c, x)

\* Thread t is about to send the reply to call x of client c.
Sending(t, c, x) == thr[t].at = "send" /\ thr[t].clt = c /\ thr[t].xid = x

\* A handler's result exists in the window, in a thread, on the wire or at the
\* caller only when the handler has run once; one thread at most is inside it.
AnswerInv ==
    \A c \in Clients, x \in Xids :
        /\ ~Used(c, x) => reply[c][x].ret = "none"
        /\ hdr[c][x].op # Bind =>
              /\ \A t \in Threads : Running(t, c, x) => runs[c][x] = 1
              /\ \A t, u \in Threads : Running(t, c, x) /\ Running(u, c, x) => t = u
              /\ window[c][x] = "present" => Settled(c, x)
              /\ \A t \in Threads : Sending(t, c, x) => Settled(c, x)
              /\ \A m \in reps : m.clt = c /\ m.xid = x /\ m.ret = "ok" => Settled(c, x)
              /\ reply[c][x].ret = "ok" => Settled(c, x)

-----------------------------------------------------------------------------
(* Why a call is refused as forgotten *)

\* The client gave up on the call.
GaveUp(c, x) == reply[c][x].ret \in {"timeout_failure", "cancel_failure"}

\* Bind b of client c made the client's srv_nonce_: later calls are no binds.
BoundBy(c, b) ==
    /\ hdr[c][b].op = Bind
    /\ reply[c][b].ret = "ok" /\ reply[c][b].val = srv_nonce[c]
    /\ \A y \in Xids : Used(c, y) /\ y > b => hdr[c][y].op # Bind

\* Until a bind has succeeded a client only binds, one call at a time; from then
\* on every call names the instance that answered that bind.
BindInv ==
    \A c \in Clients :
        /\ srv_nonce[c] = 0 =>
              \A y \in Xids : Used(c, y) => /\ hdr[c][y].op = Bind
                                            /\ pc[c][y] = "returned" \/ y + 1 = xid[c]
        /\ srv_nonce[c] # 0 =>
              /\ \E b \in Xids : Used(c, b) /\ BoundBy(c, b)
              /\ \A y \in Xids : Used(c, y) /\ hdr[c][y].op = Bind => pc[c][y] = "returned"
        /\ \A y \in Xids : Used(c, y) /\ hdr[c][y].op # Bind =>
              /\ hdr[c][y].srv_nonce = srv_nonce[c]
              /\ \A b \in Xids : Used(c, b) /\ hdr[c][b].op = Bind => b < y

\* Where a caller is tells whether its call is done; an answered call has an outcome.
OutcomeInv ==
    \A c \in Clients, x \in Xids :
        /\ pc[c][x] = "bind" => hdr[c][x].op = Bind /\ reply[c][x].ret = "ok"
        /\ pc[c][x] = "returned" => reply[c][x].ret # "none"
        /\ reply[c][x].ret = "ok" => reply[c][x].val # 0
        /\ x \in acked[c] => reply[c][x].ret # "none"

\* This instance of the server has run, or is running, call x of client c.
Served(c, x) ==
    \/ \E t \in Threads : thr[t].at # "idle" /\ thr[t].clt = c /\ thr[t].xid = x
    \/ \E m \in reps : m.clt = c /\ m.xid = x /\ m.ret = "ok" /\ m.val = nonce
    \/ reply[c][x].ret = "ok" /\ reply[c][x].val = nonce
    \/ hdr[c][x].srv_nonce = nonce /\ runs[c][x] > 0

\* The window has been trimmed up to r: the client has acknowledged everything
\* up to r, and what was served from r on is still there.
TrimmedTo(c, r) ==
    /\ \A y \in 1 .. r : y \in acked[c]
    /\ \A y \in Xids : y >= r /\ Served(c, y) => window[c][y] # "absent"

TrimInv == \A c \in Clients : \E r \in 0 .. MaxXid : TrimmedTo(c, r)

\* Why a caller was, or will be, given one of the two refusals.
RefusalInv ==
    \A c \in Clients, x \in Xids : hdr[c][x].op # Bind =>
        /\ (\/ \E m \in reps : m.clt = c /\ m.xid = x /\ m.ret = "oldsrv_failure"
            \/ reply[c][x].ret = "oldsrv_failure") => hdr[c][x].srv_nonce < nonce
        /\ (/\ \/ \E m \in reps : m.clt = c /\ m.xid = x /\ m.ret = "atmostonce_failure"
               \/ reply[c][x].ret = "atmostonce_failure"
            /\ runs[c][x] = 0) => \E y \in Xids : y <= x /\ GaveUp(c, y)

AInv == IInv /\ AnswerInv /\ BindInv /\ OutcomeInv /\ TrimInv /\ RefusalInv

-----------------------------------------------------------------------------
(* What a step of the client may do *)

\* Every step of call1, cancel and got_pdu but bind's last one: a call moves on
\* or returns with an outcome, an outcome comes from a PDU or from giving up, and
\* only calls with an outcome are acknowledged.
ClientEffect ==
    /\ UNCHANGED <<hdr, xid, srv_nonce, nonce, window, runs, thr>>
    /\ reps' \subseteq reps
    /\ \A d \in Clients, y \in Xids :
        /\ \/ pc'[d][y] = pc[d][y]
           \/ Pending(d, y) /\ Pending(d, y)'
           \/ /\ Pending(d, y) /\ pc'[d][y] = "bind"
              /\ hdr[d][y].op = Bind /\ reply'[d][y].ret = "ok"
           \/ Pending(d, y) /\ pc'[d][y] = "returned" /\ reply'[d][y].ret # "none"
        /\ y \in acked[d] => y \in acked'[d]
        /\ y \in acked'[d] => y \in acked[d] \/ reply'[d][y].ret # "none"
        /\ \/ reply'[d][y] = reply[d][y]
           \/ Pending(d, y) /\ GaveUp(d, y)'
           \/ /\ Pending(d, y) /\ reply[d][y].ret = "none"
              /\ \E m \in reps : /\ m.clt = d /\ m.xid = y
                                 /\ reply'[d][y].ret = m.ret /\ reply'[d][y].val = m.val

\* The steps of call1 and cancel have that effect.
LEMMA ClientStepEffect ==
  ASSUME AInv, TypeOK', NEW c \in Clients,
         \/ \E x \in Xids : CallerStep(c, x) \/ TimeoutRetry(c, x)
         \/ Cancel(c)
         \/ CancelWake(c),
         \A x \in Xids : ~SetBound(c, x)
  PROVE  ClientEffect
<1> USE DEF serverVars, netVars
<1>0. TypeOK
  BY DEF AInv, IInv
<1>1. ASSUME NEW x \in Xids, NEW place \in Outstanding, Pending(c, x), GoTo(c, x, place)
      PROVE  \A d \in Clients, y \in Xids : pc'[d][y] = pc[d][y] \/ (Pending(d, y) /\ Pending(d, y)')
  BY <1>0, <1>1 DEF GoTo, TypeOK, Pending
<1>2. ASSUME NEW x \in Xids, Send(c, x) PROVE ClientEffect
  <2>1. \A d \in Clients, y \in Xids : pc'[d][y] = pc[d][y] \/ (Pending(d, y) /\ Pending(d, y)')
    BY <1>1, <1>2 DEF Send, Pending, Outstanding
  <2> QED BY <1>2, <2>1 DEF Send, ClientEffect
<1>3. ASSUME NEW x \in Xids, NEW place \in Outstanding, Pending(c, x), OnlyGoTo(c, x, place)
      PROVE  ClientEffect
  <2>1. \A d \in Clients, y \in Xids : pc'[d][y] = pc[d][y] \/ (Pending(d, y) /\ Pending(d, y)')
    BY <1>1, <1>3 DEF OnlyGoTo
  <2> QED BY <1>3, <2>1 DEF OnlyGoTo, ClientEffect
<1>4. ASSUME NEW x \in Xids, WaitDone(c, x) \/ TimeoutRetry(c, x) \/ TimeoutFinal(c, x) PROVE ClientEffect
  BY <1>3, <1>4 DEF WaitDone, TimeoutRetry, TimeoutFinal, Pending, Outstanding
<1>5. ASSUME NEW x \in Xids, Exit(c, x) PROVE ClientEffect
  <2>1. Pending(c, x)
    BY <1>5 DEF Exit, Pending, Outstanding
  <2>2. \A d \in Clients, y \in Xids :
          reply'[d][y] = IF d = c /\ y = x /\ ~IsDone(c, x)
                         THEN [ret |-> "timeout_failure", val |-> 0] ELSE reply[d][y]
    BY <1>0, <1>5 DEF Exit, Finish, TypeOK
  <2>3. reply'[c][x].ret # "none"
    BY <2>2 DEF IsDone
  <2>4. \A d \in Clients, y \in Xids :
          pc'[d][y] = IF d = c /\ y = x
                      THEN (IF hdr[c][x].op = Bind /\ reply[c][x].ret = "ok" THEN "bind" ELSE "returned")
                      ELSE pc[d][y]
    BY <1>0, <1>5 DEF Exit, Finish, GoTo, TypeOK
  <2>5. reply[c][x].ret = "ok" => reply'[c][x].ret = "ok"
    BY <2>2 DEF IsDone
  <2>6. \A d \in Clients, y \in Xids :
          /\ y \in acked[d] => y \in acked'[d]
          /\ y \in acked'[d] => y \in acked[d] \/ (d = c /\ y = x)
    BY <1>0, <1>5 DEF Exit, TypeOK
  <2>7. \A d \in Clients, y \in Xids : reply'[d][y] = reply[d][y] \/ (Pending(d, y) /\ GaveUp(d, y)')
    BY <2>1, <2>2 DEF GaveUp
  <2> QED BY <1>5, <2>1, <2>3, <2>4, <2>5, <2>6, <2>7 DEF Exit, ClientEffect
<1>6. ASSUME Cancel(c) PROVE ClientEffect
  <2>1. \A d \in Clients, y \in Xids : reply'[d][y] = reply[d][y] \/ (Pending(d, y) /\ GaveUp(d, y)')
    <3>1. CASE UNCHANGED reply
      BY <3>1
    <3>2. CASE ~UNCHANGED reply
      <4>1. reply' = [reply EXCEPT ![c] =
                        [x \in Xids |-> IF x \in {y \in Xids : Pending(c, y)}
                                        THEN [ret |-> "cancel_failure", val |-> reply[c][x].val]
                                        ELSE reply[c][x]]]
        BY <1>6, <3>2 DEF Cancel
      <4> QED BY <1>0, <4>1 DEF TypeOK, GaveUp
    <3> QED BY <3>1, <3>2
  <2> QED BY <1>6, <2>1 DEF Cancel, ClientEffect
<1>7. ASSUME CancelWake(c) PROVE ClientEffect
  BY <1>7 DEF CancelWake, ClientEffect
<1> QED BY <1>2, <1>4, <1>5, <1>6, <1>7 DEF CallerStep, AfterSend

\* So has rpcc::got_pdu: a caller that is gone has its outcome.
LEMMA GotPduEffect ==
  ASSUME AInv, TypeOK', NEW m \in reps, got_pdu(m)
  PROVE  ClientEffect
<1> USE DEF serverVars
<1>0. TypeOK /\ OutcomeInv
  BY DEF AInv, IInv
<1>1. m.clt \in Clients /\ m.xid \in Xids /\ Used(m.clt, m.xid) /\ m.ret # "none"
  BY DEF AInv, IInv, TypeOK, MsgInv, Replies
<1>2. \A d \in Clients, y \in Xids :
        reply'[d][y] = IF d = m.clt /\ y = m.xid /\ Pending(d, y) /\ ~IsDone(d, y)
                       THEN [ret |-> m.ret, val |-> m.val] ELSE reply[d][y]
  BY <1>0, <1>1 DEF got_pdu, TypeOK
<1>3. reply'[m.clt][m.xid].ret # "none"
  <2>1. CASE Pending(m.clt, m.xid)
    BY <1>1, <1>2, <2>1 DEF IsDone
  <2>2. CASE ~Pending(m.clt, m.xid)
    <3>1. pc[m.clt][m.xid] \in {"bind", "returned"}
      BY <1>0, <1>1, <2>2 DEF TypeOK, Pending, Places, Used
    <3> QED BY <1>0, <1>1, <1>2, <2>2, <3>1 DEF OutcomeInv
  <2> QED BY <2>1, <2>2
<1>4. \A d \in Clients, y \in Xids :
        /\ y \in acked[d] => y \in acked'[d]
        /\ y \in acked'[d] => y \in acked[d] \/ (d = m.clt /\ y = m.xid)
  BY <1>0, <1>1 DEF got_pdu, TypeOK
<1> QED BY <1>2, <1>3, <1>4 DEF got_pdu, ClientEffect, IsDone

\* An outcome given up on stays so.
LEMMA GaveUpStays ==
  ASSUME ClientEffect
  PROVE  \A d \in Clients, y \in Xids : GaveUp(d, y) => GaveUp(d, y)'
BY DEF ClientEffect, GaveUp

\* A call made stays made.
LEMMA UsedStays ==
  ASSUME TypeOK, ClientEffect
  PROVE  \A d \in Clients, y \in Xids : Used(d, y)' <=> Used(d, y)
BY DEF ClientEffect, Used, Pending, Outstanding

-----------------------------------------------------------------------------
(* The steps of the client preserve the invariant *)

\* Every step with that effect keeps the invariant.
LEMMA ClientEffectKeepsInv ==
  ASSUME AInv, IInv', ClientEffect
  PROVE  AInv'
<1>0. /\ UNCHANGED <<hdr, xid, srv_nonce, nonce, window, runs, thr>>
      /\ reps' \subseteq reps
  BY DEF ClientEffect
<1>1. TypeOK /\ \A d \in Clients, y \in Xids : Used(d, y)' <=> Used(d, y)
  BY UsedStays DEF AInv, IInv
<1>2. AnswerInv'
  <2>1. \A d \in Clients, y \in Xids : Settled(d, y)' <=> Settled(d, y)
    BY <1>0 DEF Settled, Running
  <2>2. \A d \in Clients, y \in Xids :
          reply'[d][y].ret = "ok" =>
              \/ reply[d][y].ret = "ok"
              \/ \E m \in reps : m.clt = d /\ m.xid = y /\ m.ret = "ok"
    BY DEF ClientEffect, GaveUp
  <2>3. \A d \in Clients, y \in Xids : ~Used(d, y) => reply'[d][y] = reply[d][y]
    BY DEF ClientEffect, Used, Pending, Outstanding
  <2>4. AnswerInv
    BY DEF AInv
  <2> SUFFICES ASSUME NEW d \in Clients, NEW y \in Xids
               PROVE /\ ~Used(d, y)' => reply'[d][y].ret = "none"
                     /\ hdr'[d][y].op # Bind =>
                          /\ \A t \in Threads : Running(t, d, y)' => runs'[d][y] = 1
                          /\ \A t, u \in Threads : Running(t, d, y)' /\ Running(u, d, y)' => t = u
                          /\ window'[d][y] = "present" => Settled(d, y)'
                          /\ \A t \in Threads : Sending(t, d, y)' => Settled(d, y)'
                          /\ \A m \in reps' : m.clt = d /\ m.xid = y /\ m.ret = "ok" => Settled(d, y)'
                          /\ reply'[d][y].ret = "ok" => Settled(d, y)'
    BY DEF AnswerInv
  <2>5. ~Used(d, y)' => reply'[d][y].ret = "none"
    BY <1>1, <2>3, <2>4 DEF AnswerInv
  <2>6. \A t \in Threads : (Running(t, d, y)' <=> Running(t, d, y)) /\ (Sending(t, d, y)' <=> Sending(t, d, y))
    BY <1>0 DEF Running, Sending
  <2> QED BY <1>0, <2>1, <2>2, <2>4, <2>5, <2>6 DEF AnswerInv
<1>3. BindInv'
  <2> SUFFICES ASSUME NEW c \in Clients
               PROVE /\ srv_nonce'[c] = 0 =>
                          \A y \in Xids : Used(c, y)' => /\ hdr'[c][y].op = Bind
                                                         /\ pc'[c][y] = "returned" \/ y + 1 = xid'[c]
                     /\ srv_nonce'[c] # 0 =>
                          /\ \E b \in Xids : Used(c, b)' /\ BoundBy(c, b)'
                          /\ \A y \in Xids : Used(c, y)' /\ hdr'[c][y].op = Bind => pc'[c][y] = "returned"
                     /\ \A y \in Xids : Used(c, y)' /\ hdr'[c][y].op # Bind =>
                          /\ hdr'[c][y].srv_nonce = srv_nonce'[c]
                          /\ \A b \in Xids : Used(c, b)' /\ hdr'[c][b].op = Bind => b < y
    BY DEF BindInv
  <2>1. BindInv
    BY DEF AInv
  <2>2. \A y \in Xids : pc[c][y] = "returned" => pc'[c][y] = "returned" /\ reply'[c][y] = reply[c][y]
    BY DEF ClientEffect, Pending, Outstanding
  <2>3. srv_nonce'[c] # 0 => \E b \in Xids : Used(c, b)' /\ BoundBy(c, b)'
    BY <1>0, <1>1, <2>1, <2>2 DEF BindInv, BoundBy
  <2> QED BY <1>0, <1>1, <2>1, <2>2, <2>3 DEF BindInv
<1>4. OutcomeInv'
  <2>1. OutcomeInv
    BY DEF AInv
  <2>2. \A m \in reps : m.val # 0 /\ m.ret # "none"
    <3>1. \A m \in reps : m.val \in Nonces /\ m.ret # "none"
      BY <1>1 DEF TypeOK, Replies
    <3> QED BY <3>1 DEF Nonces
  <2> SUFFICES ASSUME NEW d \in Clients, NEW y \in Xids
               PROVE /\ pc'[d][y] = "bind" => hdr'[d][y].op = Bind /\ reply'[d][y].ret = "ok"
                     /\ pc'[d][y] = "returned" => reply'[d][y].ret # "none"
                     /\ reply'[d][y].ret = "ok" => reply'[d][y].val # 0
                     /\ y \in acked'[d] => reply'[d][y].ret # "none"
    BY DEF OutcomeInv
  <2>3. reply[d][y].ret # "none" => reply'[d][y].ret # "none"
    BY DEF ClientEffect, GaveUp
  <2>4. pc'[d][y] \in {"bind", "returned"} /\ pc'[d][y] = pc[d][y] => reply'[d][y] = reply[d][y]
    BY DEF ClientEffect, Pending, Outstanding
  <2>5. reply'[d][y].ret = "ok" => reply'[d][y].val # 0
    BY <2>1, <2>2 DEF ClientEffect, GaveUp, OutcomeInv
  <2>6. pc'[d][y] = "bind" => hdr'[d][y].op = Bind /\ reply'[d][y].ret = "ok"
    BY <1>0, <2>1, <2>4 DEF ClientEffect, OutcomeInv, Pending, Outstanding
  <2>7. pc'[d][y] = "returned" => reply'[d][y].ret # "none"
    BY <2>1, <2>4 DEF ClientEffect, OutcomeInv, Pending, Outstanding
  <2>8. y \in acked'[d] => reply'[d][y].ret # "none"
    BY <2>1, <2>3 DEF ClientEffect, OutcomeInv
  <2> QED BY <2>5, <2>6, <2>7, <2>8
<1>5. TrimInv'
  <2>1. \A d \in Clients, y \in Xids : Served(d, y)' => Served(d, y)
    <3> SUFFICES ASSUME NEW d \in Clients, NEW y \in Xids, Served(d, y)' PROVE Served(d, y)
      OBVIOUS
    <3>1. \/ reply'[d][y] = reply[d][y]
          \/ GaveUp(d, y)'
          \/ \E m \in reps : m.clt = d /\ m.xid = y /\ reply'[d][y].ret = m.ret /\ reply'[d][y].val = m.val
      BY DEF ClientEffect
    <3>2. GaveUp(d, y)' => reply'[d][y].ret # "ok"
      BY DEF GaveUp
    <3> QED BY <1>0, <3>1, <3>2 DEF Served
  <2>2. \A d \in Clients, r \in 0 .. MaxXid : TrimmedTo(d, r) => TrimmedTo(d, r)'
    <3>1. \A r \in 0 .. MaxXid : \A y \in 1 .. r : y \in Xids
      BY DEF Xids
    <3>2. \A d \in Clients, y \in Xids : y \in acked[d] => y \in acked'[d]
      BY DEF ClientEffect
    <3> QED BY <1>0, <2>1, <3>1, <3>2 DEF TrimmedTo
  <2> QED BY <2>2 DEF AInv, TrimInv
<1>6. RefusalInv'
  <2>1. \A d \in Clients, y \in Xids : GaveUp(d, y) => GaveUp(d, y)'
    BY GaveUpStays
  <2>2. \A d \in Clients, y \in Xids, ret \in {"oldsrv_failure", "atmostonce_failure"} :
          reply'[d][y].ret = ret =>
              \/ reply[d][y].ret = ret
              \/ \E m \in reps : m.clt = d /\ m.xid = y /\ m.ret = ret
    BY DEF ClientEffect, GaveUp
  <2> QED BY <1>0, <2>1, <2>2 DEF AInv, RefusalInv
<1> QED BY <1>2, <1>3, <1>4, <1>5, <1>6 DEF AInv

\* The last step of bind keeps the invariant: this bind is the client's last call,
\* and the client had no other instance before.
LEMMA SetBoundKeepsInv ==
  ASSUME AInv, IInv', NEW c \in Clients, NEW x \in Xids, SetBound(c, x)
  PROVE  AInv'
<1> USE DEF serverVars, netVars
<1>0. /\ UNCHANGED <<hdr, xid, acked, reply, nonce, window, runs, thr, reps>>
      /\ TypeOK /\ BindInv /\ OutcomeInv /\ pc[c][x] = "bind"
  BY DEF SetBound, AInv, IInv
<1>1. /\ \A d \in Clients, y \in Xids : pc'[d][y] = IF d = c /\ y = x THEN "returned" ELSE pc[d][y]
      /\ \A d \in Clients : srv_nonce'[d] = IF d = c THEN reply[c][x].val ELSE srv_nonce[d]
  BY <1>0 DEF SetBound, GoTo, TypeOK
<1>2. \A d \in Clients, y \in Xids : Used(d, y)' <=> Used(d, y)
  BY <1>0, <1>1 DEF Used
<1>3. hdr[c][x].op = Bind /\ reply[c][x].ret = "ok" /\ reply[c][x].val # 0 /\ Used(c, x)
  BY <1>0 DEF OutcomeInv, Used
<1>4. AnswerInv' /\ TrimInv' /\ RefusalInv'
  <2>1. AnswerInv'
    BY <1>0, <1>2 DEF AInv, AnswerInv, Settled, Running, Sending
  <2>2. TrimInv'
    BY <1>0 DEF AInv, TrimInv, TrimmedTo, Served
  <2>3. RefusalInv'
    BY <1>0 DEF AInv, RefusalInv, GaveUp
  <2> QED BY <2>1, <2>2, <2>3
<1>5. OutcomeInv'
  BY <1>0, <1>1, <1>3 DEF OutcomeInv
<1>6. BindInv'
  <2>1. srv_nonce[c] = 0
    BY <1>0, <1>3 DEF BindInv
  <2>2. \A y \in Xids : Used(c, y) => hdr[c][y].op = Bind /\ (pc[c][y] = "returned" \/ y + 1 = xid[c])
    BY <1>0, <2>1 DEF BindInv
  <2>3. x + 1 = xid[c] /\ xid[c] \in Int /\ x \in Int
    BY <1>0, <1>3, <2>2 DEF TypeOK, Xids
  <2>4. \A y \in Xids : Used(c, y) => pc'[c][y] = "returned" /\ ~(y > x)
    <3>1. \A y \in Xids : Used(c, y) => y < xid[c]
      BY DEF AInv, IInv, HeaderInv
    <3> QED BY <1>0, <1>1, <2>2, <2>3, <3>1 DEF Xids
  <2>5. BoundBy(c, x)'
    BY <1>0, <1>1, <1>2, <1>3, <2>4 DEF BoundBy
  <2> SUFFICES ASSUME NEW d \in Clients
               PROVE /\ srv_nonce'[d] = 0 =>
                          \A y \in Xids : Used(d, y)' => /\ hdr'[d][y].op = Bind
                                                         /\ pc'[d][y] = "returned" \/ y + 1 = xid'[d]
                     /\ srv_nonce'[d] # 0 =>
                          /\ \E b \in Xids : Used(d, b)' /\ BoundBy(d, b)'
                          /\ \A y \in Xids : Used(d, y)' /\ hdr'[d][y].op = Bind => pc'[d][y] = "returned"
                     /\ \A y \in Xids : Used(d, y)' /\ hdr'[d][y].op # Bind =>
                          /\ hdr'[d][y].srv_nonce = srv_nonce'[d]
                          /\ \A b \in Xids : Used(d, b)' /\ hdr'[d][b].op = Bind => b < y
    BY DEF BindInv
  <2>6. CASE d = c
    BY <1>0, <1>1, <1>2, <1>3, <2>2, <2>4, <2>5, <2>6
  <2>7. CASE d # c
    <3>1. \A b \in Xids : BoundBy(d, b) => BoundBy(d, b)'
      BY <1>0, <1>1, <1>2, <2>7 DEF BoundBy
    <3> QED BY <1>0, <1>1, <1>2, <2>7, <3>1 DEF BindInv
  <2> QED BY <2>6, <2>7
<1> QED BY <1>4, <1>5, <1>6 DEF AInv

\* Nothing in the system knows an xid that has not been given out.
LEMMA UnusedUnknown ==
  ASSUME AInv, NEW c \in Clients, NEW x \in Xids, ~Used(c, x)
  PROVE  /\ \A t \in Threads : ~Running(t, c, x) /\ ~Sending(t, c, x)
         /\ \A m \in reps : ~(m.clt = c /\ m.xid = x)
         /\ reply[c][x].ret = "none" /\ runs[c][x] = 0 /\ window[c][x] = "absent" /\ x \notin acked[c]
         /\ pc[c][x] = "none"
<1>1. MsgInv /\ RunInv /\ AnswerInv /\ AckInv
  BY DEF AInv, IInv
<1>2. \A t \in Threads : ~Running(t, c, x) /\ ~Sending(t, c, x)
  BY <1>1 DEF MsgInv, Running, Sending
<1>3. \A m \in reps : ~(m.clt = c /\ m.xid = x)
  BY <1>1 DEF MsgInv
<1> QED BY <1>1, <1>2, <1>3 DEF RunInv, AnswerInv, AckInv, Used

\* A new call keeps the invariant.
LEMMA NewCallKeepsInv ==
  ASSUME AInv, IInv', NEW c \in Clients, NEW op \in Ops \cup {Bind}, Call(c, op)
  PROVE  AInv'
<1> USE DEF serverVars, netVars
<1> DEFINE X == xid[c]
<1>0. /\ UNCHANGED <<srv_nonce, acked, reply, nonce, window, runs, thr, reps>>
      /\ TypeOK /\ BindInv /\ OutcomeInv /\ AnswerInv /\ TrimInv /\ RefusalInv /\ HeaderInv
      /\ (op = Bind) <=> (srv_nonce[c] = 0)
      /\ op = Bind => \A y \in Xids : pc[c][y] \in {"none", "returned"}
  BY DEF Call, AInv, IInv
<1>1. X \in Xids /\ X \in Int /\ ~Used(c, X)
  BY <1>0 DEF Call, TypeOK, HeaderInv, Xids
<1>2. \A d \in Clients, y \in Xids :
        /\ pc'[d][y] = IF d = c /\ y = X THEN "send" ELSE pc[d][y]
        /\ ~(d = c /\ y = X) => hdr'[d][y] = hdr[d][y]
  BY <1>0, <1>1 DEF Call, GoTo, TypeOK
<1>3. hdr'[c][X].op = op /\ hdr'[c][X].srv_nonce = srv_nonce[c]
  <2>1. PICK r \in 0 .. MaxXid :
          hdr' = [hdr EXCEPT ![c][X] = [op |-> op, srv_nonce |-> srv_nonce[c], xid_rep |-> r]]
    BY DEF Call
  <2> QED BY <1>0, <1>1, <2>1 DEF TypeOK
<1>4. \A d \in Clients : xid'[d] = IF d = c THEN X + 1 ELSE xid[d]
  BY <1>0 DEF Call, TypeOK
<1> HIDE DEF X
<1>5. \A d \in Clients, y \in Xids : Used(d, y)' <=> (Used(d, y) \/ (d = c /\ y = X))
  BY <1>2 DEF Used
<1>6. /\ \A t \in Threads : ~Running(t, c, X) /\ ~Sending(t, c, X)
      /\ \A m \in reps : ~(m.clt = c /\ m.xid = X)
      /\ reply[c][X].ret = "none" /\ runs[c][X] = 0 /\ window[c][X] = "absent"
  BY <1>1, UnusedUnknown
<1>7. \A t \in Threads, d \in Clients, y \in Xids :
        /\ Running(t, d, y)' <=> Running(t, d, y)
        /\ Sending(t, d, y)' <=> Sending(t, d, y)
        /\ Settled(d, y)' <=> Settled(d, y)
  BY <1>0 DEF Running, Sending, Settled
<1>8. AnswerInv'
  <2> SUFFICES ASSUME NEW d \in Clients, NEW y \in Xids
               PROVE /\ ~Used(d, y)' => reply'[d][y].ret = "none"
                     /\ hdr'[d][y].op # Bind =>
                          /\ \A t \in Threads : Running(t, d, y)' => runs'[d][y] = 1
                          /\ \A t, u \in Threads : Running(t, d, y)' /\ Running(u, d, y)' => t = u
                          /\ window'[d][y] = "present" => Settled(d, y)'
                          /\ \A t \in Threads : Sending(t, d, y)' => Settled(d, y)'
                          /\ \A m \in reps' : m.clt = d /\ m.xid = y /\ m.ret = "ok" => Settled(d, y)'
                          /\ reply'[d][y].ret = "ok" => Settled(d, y)'
    BY DEF AnswerInv
  <2>1. CASE d = c /\ y = X
    BY <1>0, <1>5, <1>6, <1>7, <2>1
  <2>2. CASE ~(d = c /\ y = X)
    <3>1. hdr'[d][y] = hdr[d][y] /\ (Used(d, y)' <=> Used(d, y))
      BY <1>2, <1>5, <2>2
    <3>2. Settled(d, y)' <=> Settled(d, y)
      BY <1>0 DEF Settled, Running
    <3> QED BY <1>0, <1>7, <3>1, <3>2 DEF AnswerInv
  <2> QED BY <2>1, <2>2
<1>9. BindInv'
  <2> SUFFICES ASSUME NEW d \in Clients
               PROVE /\ srv_nonce'[d] = 0 =>
                          \A y \in Xids : Used(d, y)' => /\ hdr'[d][y].op = Bind
                                                         /\ pc'[d][y] = "returned" \/ y + 1 = xid'[d]
                     /\ srv_nonce'[d] # 0 =>
                          /\ \E b \in Xids : Used(d, b)' /\ BoundBy(d, b)'
                          /\ \A y \in Xids : Used(d, y)' /\ hdr'[d][y].op = Bind => pc'[d][y] = "returned"
                     /\ \A y \in Xids : Used(d, y)' /\ hdr'[d][y].op # Bind =>
                          /\ hdr'[d][y].srv_nonce = srv_nonce'[d]
                          /\ \A b \in Xids : Used(d, b)' /\ hdr'[d][b].op = Bind => b < y
    BY DEF BindInv
  <2>1. CASE d # c
    <3>1. \A b \in Xids : BoundBy(d, b) => BoundBy(d, b)'
      BY <1>0, <1>2, <1>5, <2>1 DEF BoundBy
    <3> QED BY <1>0, <1>2, <1>4, <1>5, <2>1, <3>1 DEF BindInv
  <2>2. CASE d = c /\ srv_nonce[c] = 0
    <3>1. \A y \in Xids : Used(c, y) => hdr[c][y].op = Bind
      BY <1>0, <2>2 DEF BindInv
    <3>2. \A y \in Xids : Used(c, y)' => hdr'[c][y].op = Bind
      BY <1>0, <1>2, <1>3, <1>5, <2>2, <3>1
    <3>3. \A y \in Xids : Used(c, y)' => pc'[c][y] = "returned" \/ y + 1 = xid'[c]
      BY <1>0, <1>2, <1>4, <1>5, <2>2 DEF Used
    <3> QED BY <1>0, <2>2, <3>2, <3>3
  <2>3. CASE d = c /\ srv_nonce[c] # 0
    <3>1. \A b \in Xids : Used(c, b) /\ BoundBy(c, b) => BoundBy(c, b)'
      BY <1>0, <1>1, <1>2, <1>3, <1>5, <2>3 DEF BoundBy
    <3>2. \A y \in Xids : Used(c, y)' /\ hdr'[c][y].op = Bind =>
             Used(c, y) /\ hdr[c][y].op = Bind /\ pc'[c][y] = "returned" /\ y < X
      <4>1. \A y \in Xids : Used(c, y) => y < X
        BY <1>0 DEF HeaderInv, X
      <4> QED BY <1>0, <1>1, <1>2, <1>3, <1>5, <2>3, <4>1 DEF BindInv
    <3>3. \E b \in Xids : Used(c, b)' /\ BoundBy(c, b)'
      BY <1>0, <1>5, <2>3, <3>1 DEF BindInv
    <3>4. \A y \in Xids : Used(c, y)' /\ hdr'[c][y].op # Bind =>
            /\ hdr'[c][y].srv_nonce = srv_nonce[c]
            /\ \A b \in Xids : Used(c, b)' /\ hdr'[c][b].op = Bind => b < y
      BY <1>0, <1>1, <1>2, <1>3, <1>5, <3>2 DEF BindInv
    <3> QED BY <1>0, <2>3, <3>2, <3>3, <3>4
  <2> QED BY <2>1, <2>2, <2>3
<1>10. OutcomeInv'
  <2> SUFFICES ASSUME NEW d \in Clients, NEW y \in Xids
               PROVE /\ pc'[d][y] = "bind" => hdr'[d][y].op = Bind /\ reply'[d][y].ret = "ok"
                     /\ pc'[d][y] = "returned" => reply'[d][y].ret # "none"
                     /\ reply'[d][y].ret = "ok" => reply'[d][y].val # 0
                     /\ y \in acked'[d] => reply'[d][y].ret # "none"
    BY DEF OutcomeInv
  <2>1. pc'[d][y] \in {"bind", "returned"} => pc'[d][y] = pc[d][y] /\ hdr'[d][y] = hdr[d][y]
    BY <1>2
  <2> QED BY <1>0, <2>1 DEF OutcomeInv
<1>11. TrimInv'
  <2>1. \A d \in Clients, y \in Xids : Served(d, y)' => Served(d, y)
    BY <1>0, <1>2, <1>6 DEF Served
  <2>2. \A d \in Clients, r \in 0 .. MaxXid : TrimmedTo(d, r) => TrimmedTo(d, r)'
    BY <1>0, <2>1 DEF TrimmedTo
  <2> QED BY <1>0, <2>2 DEF TrimInv
<1>12. RefusalInv'
  BY <1>0, <1>2, <1>6 DEF RefusalInv, GaveUp
<1> QED BY <1>8, <1>9, <1>10, <1>11, <1>12 DEF AInv

-----------------------------------------------------------------------------
(* The steps of the server preserve the invariant *)

\* The server changes nothing that these parts are about.
LEMMA ServerKeepsClientInv ==
  ASSUME AInv, UNCHANGED clientVars
  PROVE  BindInv' /\ OutcomeInv'
BY DEF AInv, clientVars, BindInv, BoundBy, OutcomeInv, Used

\* When the server only trims a window, adds PDUs that are no results and leaves
\* the handlers alone, results still mean what they meant.
LEMMA AnswerFrame ==
  ASSUME AInv, UNCHANGED clientVars, UNCHANGED <<thr, runs>>,
         \A c \in Clients, x \in Xids : window'[c][x] = "present" => window[c][x] = "present",
         \A m \in reps' : m \in reps \/ m.ret # "ok"
  PROVE  AnswerInv'
<1>1. \A c \in Clients, x \in Xids : Settled(c, x)' <=> Settled(c, x)
  BY DEF Settled, Running
<1>2. \A t \in Threads, c \in Clients, x \in Xids :
        /\ Running(t, c, x)' <=> Running(t, c, x)
        /\ Sending(t, c, x)' <=> Sending(t, c, x)
        /\ Used(c, x)' <=> Used(c, x)
  BY DEF Running, Sending, Used, clientVars
<1> QED BY <1>1, <1>2 DEF AInv, AnswerInv, clientVars, Used

\* The windows are trimmed for client c to r at most, which c has acknowledged, and
\* whatever the instance serves afterwards it has served before or is in the window.
LEMMA TrimFrame ==
  ASSUME AInv, UNCHANGED acked, NEW c \in Clients, NEW r \in 0 .. MaxXid,
         \A y \in 1 .. r : y \in acked[c],
         \A d \in Clients, y \in Xids :
             window'[d][y] = "absent" => window[d][y] = "absent" \/ (d = c /\ y < r),
         \A d \in Clients, y \in Xids : Served(d, y)' => Served(d, y) \/ window'[d][y] # "absent"
  PROVE  TrimInv'
<1> SUFFICES ASSUME NEW d \in Clients PROVE \E s \in 0 .. MaxXid : TrimmedTo(d, s)'
  BY DEF TrimInv
<1>1. PICK s \in 0 .. MaxXid : TrimmedTo(d, s)
  BY DEF AInv, TrimInv
<1>2. CASE d # c \/ r <= s
  <2>1. TrimmedTo(d, s)'
    BY <1>1, <1>2 DEF TrimmedTo, Xids
  <2> QED BY <2>1
<1>3. CASE d = c /\ r > s
  <2>1. TrimmedTo(d, r)'
    BY <1>1, <1>3 DEF TrimmedTo, Xids
  <2> QED BY <2>1
<1> QED BY <1>2, <1>3

\* Refusals keep their reasons while no refusal is added and runs only grow.
LEMMA RefusalFrame ==
  ASSUME AInv, UNCHANGED <<hdr, reply>>, nonce <= nonce', nonce' \in Int,
         \A c \in Clients, x \in Xids : runs'[c][x] = 0 => runs[c][x] = 0,
         \A m \in reps' : m \in reps \/ m.ret = "ok"
  PROVE  RefusalInv'
<1>1. \A c \in Clients, x \in Xids : hdr[c][x].srv_nonce < nonce => hdr[c][x].srv_nonce < nonce'
  <2>1. \A c \in Clients, x \in Xids : hdr[c][x] \in Headers
    BY DEF AInv, IInv, TypeOK
  <2>2. \A c \in Clients, x \in Xids : hdr[c][x].srv_nonce \in Nonces \cup {0}
    BY <2>1 DEF Headers
  <2>3. nonce \in Int
    BY DEF AInv, IInv, TypeOK, Nonces
  <2> QED BY <2>2, <2>3 DEF Nonces
<1> QED BY <1>1 DEF AInv, RefusalInv, GaveUp

\* What a request that was not refused as old tells.
LEMMA AcceptFacts ==
  ASSUME AInv, NEW t \in Threads, NEW m \in reqs, Accept(t, m)
  PROVE  /\ m.clt \in Clients /\ m.xid \in Xids /\ thr[t].at = "idle"
         /\ \A d \in Clients, y \in Xids : ~Running(t, d, y) /\ ~Sending(t, d, y)
         /\ hdr[m.clt][m.xid].xid_rep \in 0 .. MaxXid
         /\ \A y \in 1 .. hdr[m.clt][m.xid].xid_rep : y \in acked[m.clt]
         /\ \A y \in Xids : Trimmed(m)[y] = IF y < hdr[m.clt][m.xid].xid_rep THEN "absent" ELSE window[m.clt][y]
         /\ hdr[m.clt][m.xid].op # Bind => hdr[m.clt][m.xid].srv_nonce = nonce
         /\ DOMAIN window = Clients /\ DOMAIN thr = Threads
<1>1. IInv
  BY DEF AInv
<1>2. /\ m.clt \in Clients /\ m.xid \in Xids /\ Used(m.clt, m.xid)
      /\ hdr[m.clt][m.xid].xid_rep \in 0 .. MaxXid
      /\ Trimmed(m) = Trim(window[m.clt], hdr[m.clt][m.xid].xid_rep)
  BY <1>1, RequestFacts
<1>3. \A y \in 1 .. hdr[m.clt][m.xid].xid_rep : y \in acked[m.clt]
  BY <1>1, <1>2 DEF IInv, HeaderInv
<1>4. hdr[m.clt][m.xid].op # Bind => hdr[m.clt][m.xid].srv_nonce = nonce
  BY <1>1, <1>2 DEF Accept, OldServer, IInv, HeaderInv
<1>5. thr[t].at = "idle" /\ \A d \in Clients, y \in Xids : ~Running(t, d, y) /\ ~Sending(t, d, y)
  BY DEF Accept, Receive, Running, Sending
<1> QED BY <1>1, <1>2, <1>3, <1>4, <1>5 DEF Trim, IInv, TypeOK

\* A request for an earlier instance is refused for that reason.
LEMMA OldServerKeepsInv ==
  ASSUME AInv, IInv', NEW t \in Threads, NEW m \in reqs, DispatchOldServer(t, m)
  PROVE  AInv'
<1> USE DEF serverVars
<1>0. /\ UNCHANGED clientVars /\ UNCHANGED <<nonce, window, thr, runs>>
      /\ reps' = reps \cup {[clt |-> m.clt, xid |-> m.xid, ret |-> "oldsrv_failure", val |-> nonce]}
  BY DEF DispatchOldServer, SendReply
<1>1. BindInv' /\ OutcomeInv'
  BY <1>0, ServerKeepsClientInv
<1>2. AnswerInv'
  BY <1>0, AnswerFrame
<1>3. TrimInv'
  <2>1. \A d \in Clients, y \in Xids : Served(d, y)' => Served(d, y)
    BY <1>0 DEF Served, clientVars
  <2> QED BY <1>0, <2>1 DEF AInv, TrimInv, TrimmedTo, clientVars
<1>4. RefusalInv'
  <2>1. m.clt \in Clients /\ m.xid \in Xids
    BY RequestFacts DEF AInv
  <2>2. hdr[m.clt][m.xid].srv_nonce < nonce
    <3>1. hdr[m.clt][m.xid].srv_nonce <= nonce /\ hdr[m.clt][m.xid] \in Headers /\ nonce \in Int
      BY <2>1 DEF AInv, IInv, HeaderInv, TypeOK, Nonces
    <3>2. hdr[m.clt][m.xid].srv_nonce \in Int
      BY <3>1 DEF Headers, Nonces
    <3> QED BY <3>1, <3>2 DEF DispatchOldServer, OldServer
  <2> QED BY <1>0, <2>2 DEF AInv, RefusalInv, GaveUp, clientVars
<1> QED BY <1>1, <1>2, <1>3, <1>4 DEF AInv

\* A handler is started for a call whose result exists nowhere.
LEMMA StartKeepsInv ==
  ASSUME AInv, IInv', NEW t \in Threads, NEW m \in reqs, DispatchNew(t, m)
  PROVE  AInv'
<1> DEFINE c == m.clt
           x == m.xid
           r == hdr[m.clt][m.xid].xid_rep
<1>0. /\ UNCHANGED clientVars /\ UNCHANGED <<nonce, reps>>
      /\ window' = [window EXCEPT ![c] = [Trimmed(m) EXCEPT ![x] = "inprogress"]]
      /\ thr' = [thr EXCEPT ![t] = [at |-> "run", clt |-> c, xid |-> x, owned |-> FALSE]]
      /\ runs' = [runs EXCEPT ![c][x] = @ + 1]
      /\ AnswerInv /\ TypeOK
  BY DEF DispatchNew, AInv, IInv
<1>1. /\ c \in Clients /\ x \in Xids /\ r \in 0 .. MaxXid
      /\ \A y \in 1 .. r : y \in acked[c]
      /\ \A y \in Xids : Trimmed(m)[y] = IF y < r THEN "absent" ELSE window[c][y]
      /\ DOMAIN window = Clients /\ DOMAIN thr = Threads
      /\ \A d \in Clients, y \in Xids : ~Running(t, d, y) /\ ~Sending(t, d, y)
      /\ Trimmed(m) \in ReplyWindows
  BY AcceptFacts, RequestType DEF DispatchNew, AInv, IInv
<1>2. hdr[c][x].op # Bind => runs[c][x] = 0
  BY NewWasNotRun DEF AInv
<1> HIDE DEF c, x, r
<1>3. \A d \in Clients, y \in Xids :
        window'[d][y] = IF d = c /\ y = x THEN "inprogress"
                        ELSE IF d = c /\ y < r THEN "absent" ELSE window[d][y]
  BY <1>0, <1>1 DEF ReplyWindows
<1>4. \A d \in Clients, y \in Xids : runs'[d][y] = IF d = c /\ y = x THEN runs[d][y] + 1 ELSE runs[d][y]
  BY <1>0, <1>1 DEF TypeOK
<1>5. \A u \in Threads, d \in Clients, y \in Xids :
        /\ Running(u, d, y)' <=> (Running(u, d, y) \/ (u = t /\ d = c /\ y = x))
        /\ Sending(u, d, y)' => Sending(u, d, y)
  BY <1>0, <1>1 DEF Running, Sending
<1>6. BindInv' /\ OutcomeInv'
  BY <1>0, ServerKeepsClientInv
<1>7. AnswerInv'
  <2> SUFFICES ASSUME NEW d \in Clients, NEW y \in Xids
               PROVE /\ ~Used(d, y)' => reply'[d][y].ret = "none"
                     /\ hdr'[d][y].op # Bind =>
                          /\ \A u \in Threads : Running(u, d, y)' => runs'[d][y] = 1
                          /\ \A u, v \in Threads : Running(u, d, y)' /\ Running(v, d, y)' => u = v
                          /\ window'[d][y] = "present" => Settled(d, y)'
                          /\ \A u \in Threads : Sending(u, d, y)' => Settled(d, y)'
                          /\ \A p \in reps' : p.clt = d /\ p.xid = y /\ p.ret = "ok" => Settled(d, y)'
                          /\ reply'[d][y].ret = "ok" => Settled(d, y)'
    BY DEF AnswerInv
  <2>0. UNCHANGED <<hdr, pc, reply, reps>>
    BY <1>0 DEF clientVars
  <2>1. ~Used(d, y)' => reply'[d][y].ret = "none"
    BY <1>0, <2>0 DEF AnswerInv, Used
  <2>2. CASE d = c /\ y = x /\ hdr[d][y].op # Bind
    <3>1. runs[d][y] = 0 /\ ~Settled(d, y)
      BY <1>2, <2>2 DEF Settled
    <3>2. /\ \A u \in Threads : ~Running(u, d, y) /\ ~Sending(u, d, y)
          /\ \A p \in reps : ~(p.clt = d /\ p.xid = y /\ p.ret = "ok")
          /\ reply[d][y].ret # "ok"
      BY <1>0, <2>2, <3>1 DEF AnswerInv
    <3> QED BY <1>3, <1>4, <1>5, <2>0, <2>1, <2>2, <3>1, <3>2
  <2>3. CASE ~(d = c /\ y = x) /\ hdr[d][y].op # Bind
    <3>1. Settled(d, y)' <=> Settled(d, y)
      BY <1>4, <1>5, <2>3 DEF Settled
    <3>2. window'[d][y] = "present" => window[d][y] = "present"
      BY <1>3, <2>3
    <3>3. \A u \in Threads : Running(u, d, y)' <=> Running(u, d, y)
      BY <1>5, <2>3
    <3> QED BY <1>0, <1>4, <1>5, <2>0, <2>1, <2>3, <3>1, <3>2, <3>3 DEF AnswerInv
  <2> QED BY <2>0, <2>1, <2>2, <2>3
<1>8. TrimInv'
  <2>1. \A d \in Clients, y \in Xids : Served(d, y)' => Served(d, y) \/ (d = c /\ y = x)
    <3>1. \A u \in Threads : u # t => thr'[u] = thr[u]
      BY <1>0, <1>1
    <3>2. thr'[t].clt = c /\ thr'[t].xid = x
      BY <1>0, <1>1
    <3> QED BY <1>0, <1>4, <3>1, <3>2 DEF Served, clientVars
  <2>2. \A d \in Clients, y \in Xids : Served(d, y)' => Served(d, y) \/ window'[d][y] # "absent"
    BY <1>3, <2>1
  <2> QED BY <1>0, <1>1, <1>3, <2>2, TrimFrame DEF clientVars
<1>9. RefusalInv'
  <2>1. nonce <= nonce' /\ nonce' \in Int
    BY <1>0 DEF TypeOK, Nonces
  <2>2. \A d \in Clients, y \in Xids : runs'[d][y] = 0 => runs[d][y] = 0
    <3>1. \A d \in Clients, y \in Xids : runs[d][y] \in Nat
      BY <1>0 DEF TypeOK
    <3> QED BY <1>4, <3>1
  <2> QED BY <1>0, <2>1, <2>2, RefusalFrame DEF clientVars
<1> QED BY <1>6, <1>7, <1>8, <1>9 DEF AInv

\* A duplicate that finds its call in the window, in progress or done, is not
\* refused; it trims the window.
LEMMA DuplicateKeepsInv ==
  ASSUME AInv, IInv', NEW t \in Threads, NEW m \in reqs, DispatchInProgress(t, m) \/ DispatchDone(t, m)
  PROVE  AInv'
<1> DEFINE c == m.clt
           x == m.xid
           r == hdr[m.clt][m.xid].xid_rep
<1>0. /\ UNCHANGED clientVars /\ UNCHANGED <<nonce, reps, runs>>
      /\ window' = [window EXCEPT ![c] = Trimmed(m)]
      /\ \/ UNCHANGED thr
         \/ /\ Trimmed(m)[x] = "present"
            /\ thr' = [thr EXCEPT ![t] = [at |-> "send", clt |-> c, xid |-> x, owned |-> TRUE]]
      /\ Trimmed(m)[x] # "absent"
      /\ AnswerInv /\ TypeOK
  BY DEF DispatchInProgress, DispatchDone, AInv, IInv
<1>1. /\ c \in Clients /\ x \in Xids /\ r \in 0 .. MaxXid
      /\ \A y \in 1 .. r : y \in acked[c]
      /\ \A y \in Xids : Trimmed(m)[y] = IF y < r THEN "absent" ELSE window[c][y]
      /\ DOMAIN window = Clients /\ DOMAIN thr = Threads
      /\ \A d \in Clients, y \in Xids : ~Running(t, d, y) /\ ~Sending(t, d, y)
  BY AcceptFacts DEF DispatchInProgress, DispatchDone
<1> HIDE DEF c, x, r
<1>2. \A d \in Clients, y \in Xids :
        window'[d][y] = IF d = c /\ y < r THEN "absent" ELSE window[d][y]
  BY <1>0, <1>1
<1>3. \A u \in Threads, d \in Clients, y \in Xids :
        /\ Running(u, d, y)' <=> Running(u, d, y)
        /\ Sending(u, d, y)' => Sending(u, d, y) \/ window[d][y] = "present"
  <2>1. CASE UNCHANGED thr
    BY <2>1 DEF Running, Sending
  <2>2. CASE ~UNCHANGED thr
    <3>1. window[c][x] = "present"
      BY <1>0, <1>1, <2>2
    <3> QED BY <1>0, <1>1, <2>2, <3>1 DEF Running, Sending
  <2> QED BY <2>1, <2>2
<1>4. BindInv' /\ OutcomeInv'
  BY <1>0, ServerKeepsClientInv
<1>5. AnswerInv'
  <2>1. \A d \in Clients, y \in Xids : Settled(d, y)' <=> Settled(d, y)
    BY <1>0, <1>3 DEF Settled
  <2>2. UNCHANGED <<hdr, pc, reply, reps>>
    BY <1>0 DEF clientVars
  <2>3. \A d \in Clients, y \in Xids : window'[d][y] = "present" => window[d][y] = "present"
    BY <1>2
  <2> QED BY <1>0, <1>3, <2>1, <2>2, <2>3 DEF AnswerInv, Used
<1>6. TrimInv'
  <2>1. \A d \in Clients, y \in Xids : Served(d, y)' => Served(d, y) \/ (d = c /\ y = x)
    <3>1. \A u \in Threads : thr'[u] = thr[u] \/ (thr'[u].clt = c /\ thr'[u].xid = x)
      BY <1>0, <1>1
    <3> QED BY <1>0, <3>1 DEF Served, clientVars
  <2>2. \A d \in Clients, y \in Xids : Served(d, y)' => Served(d, y) \/ window'[d][y] # "absent"
    BY <1>0, <1>1, <2>1
  <2> QED BY <1>0, <1>1, <1>2, <2>2, TrimFrame DEF clientVars
<1>7. RefusalInv'
  <2>1. nonce <= nonce' /\ nonce' \in Int
    BY <1>0 DEF TypeOK, Nonces
  <2> QED BY <1>0, <2>1, RefusalFrame DEF clientVars
<1> QED BY <1>4, <1>5, <1>6, <1>7 DEF AInv

\* When the client has acknowledged the calls up to r and this instance served none
\* from r to x, a call bound to it that was never run, then the client has given up
\* on x or on an earlier call.
LEMMA UnservedMeansGaveUp ==
  ASSUME AInv, NEW c \in Clients, NEW x \in Xids, NEW r \in 0 .. MaxXid,
         Used(c, x), hdr[c][x].op # Bind, hdr[c][x].srv_nonce = nonce, runs[c][x] = 0,
         \A y \in 1 .. r : y \in acked[c], \A y \in Xids : r <= y /\ y <= x => ~Served(c, y)
  PROVE  \E y \in Xids : y <= x /\ GaveUp(c, y)
<1>0. TypeOK /\ BindInv /\ OutcomeInv /\ AnswerInv /\ RefusalInv /\ AckInv /\ HeaderInv
  BY DEF AInv, IInv
<1>1. srv_nonce[c] = nonce /\ nonce # 0
  <2>1. nonce # 0
    BY <1>0 DEF TypeOK, Nonces
  <2> QED BY <1>0, <2>1 DEF BindInv
<1>2. PICK b \in Xids : Used(c, b) /\ BoundBy(c, b)
  BY <1>0, <1>1 DEF BindInv
<1>3. b < x /\ Served(c, b)
  BY <1>0, <1>1, <1>2 DEF BindInv, BoundBy, Served
<1>4. b < r
  BY <1>3 DEF Xids
<1>5. PICK z \in Xids : z \in acked[c] /\ b < z /\ z <= x /\ ~Served(c, z)
  <2>1. CASE r >= x
    <3>1. x \in acked[c]
      BY <2>1 DEF Xids
    <3>2. ~Served(c, x)
      <4>1. \A t \in Threads : ~Running(t, c, x) /\ ~Sending(t, c, x)
        BY <1>0 DEF AnswerInv, Settled
      <4>2. ~(\E t \in Threads : thr[t].at # "idle" /\ thr[t].clt = c /\ thr[t].xid = x)
        BY <1>0, <4>1 DEF TypeOK, Running, Sending, Dispatchers, Idle
      <4>3. /\ \A m \in reps : ~(m.clt = c /\ m.xid = x /\ m.ret = "ok")
            /\ reply[c][x].ret # "ok"
        BY <1>0 DEF AnswerInv, Settled
      <4> QED BY <4>2, <4>3 DEF Served
    <3> QED BY <1>3, <3>1, <3>2 DEF Xids
  <2>2. CASE r < x
    <3>1. r \in Xids
      BY <1>4 DEF Xids
    <3>2. r \in acked[c] /\ ~Served(c, r)
      BY <2>2, <3>1 DEF Xids
    <3> QED BY <1>4, <2>2, <3>1, <3>2 DEF Xids
  <2> QED BY <2>1, <2>2 DEF Xids
<1>6. Used(c, z) /\ hdr[c][z].op # Bind
  BY <1>0, <1>2, <1>5 DEF AckInv, BoundBy
<1>7. hdr[c][z].srv_nonce = nonce /\ runs[c][z] = 0
  BY <1>0, <1>1, <1>5, <1>6 DEF BindInv, Served, TypeOK
<1>8. reply[c][z].ret # "none" /\ reply[c][z].ret # "ok" /\ reply[c][z].ret # "oldsrv_failure"
  BY <1>0, <1>5, <1>6, <1>7 DEF OutcomeInv, AnswerInv, Settled, RefusalInv, TypeOK, Nonces
<1>9. CASE reply[c][z].ret = "atmostonce_failure"
  <2>1. PICK y \in Xids : y <= z /\ GaveUp(c, y)
    BY <1>0, <1>6, <1>7, <1>9 DEF RefusalInv
  <2> QED BY <1>5, <2>1 DEF Xids
<1>10. CASE GaveUp(c, z)
  BY <1>5, <1>10
<1> QED
  <2>1. reply[c][z].ret \in Rets
    BY <1>0 DEF TypeOK, Outcomes
  <2> QED BY <1>8, <1>9, <1>10, <2>1 DEF GaveUp, Rets

\* A request refused as forgotten keeps the invariant.
LEMMA ForgottenKeepsInv ==
  ASSUME AInv, IInv', NEW t \in Threads, NEW m \in reqs, DispatchForgotten(t, m)
  PROVE  AInv'
<1> DEFINE c == m.clt
           x == m.xid
           r == hdr[m.clt][m.xid].xid_rep
<1>0. /\ UNCHANGED clientVars /\ UNCHANGED <<nonce, thr, runs>>
      /\ window' = [window EXCEPT ![c] = Trimmed(m)]
      /\ reps' = reps \cup {[clt |-> c, xid |-> x, ret |-> "atmostonce_failure", val |-> nonce]}
      /\ \A y \in Xids : y <= x => Trimmed(m)[y] = "absent"
      /\ AnswerInv /\ TypeOK
  <2>1. \A y \in Xids : y <= x => Trimmed(m)[y] = "absent"
    <3>1. x \in Xids /\ \A y \in Xids : Trimmed(m)[y] # "absent" => y > x
      BY RequestFacts DEF DispatchForgotten, IsForgotten, AInv
    <3> QED BY <3>1 DEF Xids
  <2> QED BY <2>1 DEF DispatchForgotten, SendReply, AInv, IInv
<1>1. /\ c \in Clients /\ x \in Xids /\ r \in 0 .. MaxXid
      /\ \A y \in 1 .. r : y \in acked[c]
      /\ \A y \in Xids : Trimmed(m)[y] = IF y < r THEN "absent" ELSE window[c][y]
      /\ DOMAIN window = Clients
      /\ hdr[c][x].op # Bind => hdr[c][x].srv_nonce = nonce
      /\ Used(c, x)
  BY AcceptFacts, RequestFacts DEF DispatchForgotten, AInv
<1> HIDE DEF c, x, r
<1>2. \A d \in Clients, y \in Xids :
        window'[d][y] = IF d = c /\ y < r THEN "absent" ELSE window[d][y]
  BY <1>0, <1>1
<1>3. BindInv' /\ OutcomeInv'
  BY <1>0, ServerKeepsClientInv
<1>4. AnswerInv'
  BY <1>0, <1>2, AnswerFrame
<1>5. TrimInv'
  <2>1. \A d \in Clients, y \in Xids : Served(d, y)' => Served(d, y)
    BY <1>0 DEF Served, clientVars
  <2> QED BY <1>0, <1>1, <1>2, <2>1, TrimFrame DEF clientVars
<1>6. RefusalInv'
  <2>1. hdr[c][x].op # Bind /\ runs[c][x] = 0 => \E y \in Xids : y <= x /\ GaveUp(c, y)
    <3> SUFFICES ASSUME hdr[c][x].op # Bind, runs[c][x] = 0 PROVE \E y \in Xids : y <= x /\ GaveUp(c, y)
      OBVIOUS
    <3>1. PICK s \in 0 .. MaxXid : TrimmedTo(c, s)
      BY <1>1 DEF AInv, TrimInv
    <3>2. PICK q \in 0 .. MaxXid : q = IF r > s THEN r ELSE s
      BY <1>1
    <3>3. \A y \in 1 .. q : y \in acked[c]
      BY <1>1, <3>1, <3>2 DEF TrimmedTo
    <3>4. \A y \in Xids : q <= y /\ y <= x => ~Served(c, y)
      <4> SUFFICES ASSUME NEW y \in Xids, q <= y, y <= x PROVE ~Served(c, y)
        OBVIOUS
      <4>1. ~(y < r) /\ y >= s
        BY <3>2 DEF Xids
      <4> QED BY <1>0, <1>1, <3>1, <4>1 DEF TrimmedTo
    <3> QED BY <1>1, <3>3, <3>4, UnservedMeansGaveUp
  <2> QED BY <1>0, <2>1 DEF AInv, RefusalInv, GaveUp, clientVars
<1> QED BY <1>3, <1>4, <1>5, <1>6 DEF AInv

\* The thread that leaves a handler was the only one inside it.
LEMMA HandlerEndKeepsInv ==
  ASSUME AInv, IInv', NEW t \in Threads, HandlerReturn(t)
  PROVE  AInv'
<1>1. thr[t] \in Dispatchers
  BY DEF HandlerReturn, AInv, IInv, TypeOK, Idle
<1>2. PICK c \in Clients, x \in Xids : c = thr[t].clt /\ x = thr[t].xid
  BY <1>1 DEF Dispatchers
<1>3. /\ UNCHANGED clientVars /\ UNCHANGED <<nonce, reps, runs>>
      /\ window' = [window EXCEPT ![c] = Answered(@, x)]
      /\ thr' = [thr EXCEPT ![t].at = "send", ![t].owned = (window[c][x] # "absent")]
      /\ thr[t].at = "run" /\ AnswerInv /\ TypeOK
  BY <1>2 DEF HandlerReturn, netVars, AInv, IInv
<1>4. /\ \A u \in Threads : u # t => thr'[u] = thr[u]
      /\ thr'[t].at = "send" /\ thr'[t].clt = c /\ thr'[t].xid = x
  BY <1>3, <1>1, <1>2 DEF TypeOK, Dispatchers
<1>5. Running(t, c, x)
  BY <1>3, <1>2 DEF Running
<1>6. \A d \in Clients, y \in Xids :
        /\ window'[d][y] = "absent" <=> window[d][y] = "absent"
        /\ window'[d][y] = "present" => window[d][y] = "present" \/ (d = c /\ y = x)
  BY <1>3, <1>1 DEF Answered, TypeOK, ReplyWindows
<1>7. \A u \in Threads, d \in Clients, y \in Xids :
        /\ Running(u, d, y)' <=> Running(u, d, y) /\ u # t
        /\ Sending(u, d, y)' => Sending(u, d, y) \/ (d = c /\ y = x)
  BY <1>3, <1>4 DEF Running, Sending
<1>8. BindInv' /\ OutcomeInv'
  BY <1>3, ServerKeepsClientInv
<1>9. AnswerInv'
  <2>0. UNCHANGED <<hdr, pc, reply, reps, runs>>
    BY <1>3 DEF clientVars
  <2>1. \A d \in Clients, y \in Xids : Settled(d, y) => Settled(d, y)'
    BY <1>7, <2>0 DEF Settled
  <2>2. hdr[c][x].op # Bind => Settled(c, x)'
    <3>1. hdr[c][x].op # Bind => runs[c][x] = 1 /\ \A u \in Threads : Running(u, c, x) => u = t
      BY <1>3, <1>1, <1>5 DEF AnswerInv
    <3> QED BY <1>1, <1>7, <2>0, <3>1 DEF Settled
  <2> SUFFICES ASSUME NEW d \in Clients, NEW y \in Xids
               PROVE /\ ~Used(d, y)' => reply'[d][y].ret = "none"
                     /\ hdr'[d][y].op # Bind =>
                          /\ \A u \in Threads : Running(u, d, y)' => runs'[d][y] = 1
                          /\ \A u, v \in Threads : Running(u, d, y)' /\ Running(v, d, y)' => u = v
                          /\ window'[d][y] = "present" => Settled(d, y)'
                          /\ \A u \in Threads : Sending(u, d, y)' => Settled(d, y)'
                          /\ \A p \in reps' : p.clt = d /\ p.xid = y /\ p.ret = "ok" => Settled(d, y)'
                          /\ reply'[d][y].ret = "ok" => Settled(d, y)'
    BY DEF AnswerInv
  <2>3. ~Used(d, y)' => reply'[d][y].ret = "none"
    BY <1>3, <2>0 DEF AnswerInv, Used
  <2>4. CASE hdr[d][y].op # Bind
    <3>1. /\ \A u \in Threads : Running(u, d, y) => runs[d][y] = 1
          /\ \A u, v \in Threads : Running(u, d, y) /\ Running(v, d, y) => u = v
          /\ window[d][y] = "present" => Settled(d, y)
          /\ \A u \in Threads : Sending(u, d, y) => Settled(d, y)
          /\ \A p \in reps : p.clt = d /\ p.xid = y /\ p.ret = "ok" => Settled(d, y)
          /\ reply[d][y].ret = "ok" => Settled(d, y)
      BY <1>3, <2>4 DEF AnswerInv
    <3>2. d = c /\ y = x => Settled(d, y)'
      BY <2>2, <2>4
    <3> QED BY <1>6, <1>7, <2>0, <2>1, <2>3, <3>1, <3>2
  <2> QED BY <2>0, <2>3, <2>4
<1>10. TrimInv'
  <2>1. \A d \in Clients, y \in Xids : Served(d, y)' => Served(d, y)
    <3>1. \A u \in Threads : thr'[u].at # "idle" =>
             thr[u].at # "idle" /\ thr'[u].clt = thr[u].clt /\ thr'[u].xid = thr[u].xid
      BY <1>3, <1>4, <1>2
    <3> QED BY <1>3, <3>1 DEF Served, clientVars
  <2> QED BY <1>3, <1>6, <2>1 DEF AInv, TrimInv, TrimmedTo, clientVars
<1>11. RefusalInv'
  <2>1. nonce <= nonce' /\ nonce' \in Int
    BY <1>3 DEF TypeOK, Nonces
  <2> QED BY <1>3, <2>1, RefusalFrame DEF clientVars
<1> QED BY <1>8, <1>9, <1>10, <1>11 DEF AInv

\* The reply that leaves is that of a handler that has returned.
LEMMA ReplyKeepsInv ==
  ASSUME AInv, IInv', NEW t \in Threads, ReplySend(t)
  PROVE  AInv'
<1> DEFINE c == thr[t].clt
           x == thr[t].xid
           p == [clt |-> c, xid |-> x, ret |-> "ok", val |-> nonce]
<1>0. /\ UNCHANGED clientVars /\ UNCHANGED <<nonce, window, runs>>
      /\ reps' = reps \/ reps' = reps \cup {p}
      /\ thr' = [thr EXCEPT ![t] = Idle]
      /\ thr[t].at = "send" /\ AnswerInv /\ TypeOK
  BY DEF ReplySend, SendReply, AInv, IInv
<1>1. c \in Clients /\ x \in Xids
  <2>1. thr[t] \in Dispatchers
    BY <1>0 DEF TypeOK, Idle
  <2> QED BY <2>1 DEF Dispatchers
<1>2. Sending(t, c, x)
  BY <1>0 DEF Sending
<1>3. \A m \in reps' : m \in reps \/ (m.clt = c /\ m.xid = x /\ m.ret = "ok" /\ m.val = nonce)
  BY <1>0
<1> HIDE DEF c, x, p
<1>4. \A u \in Threads : thr'[u] = IF u = t THEN Idle ELSE thr[u]
  BY <1>0 DEF TypeOK
<1>5. \A u \in Threads, d \in Clients, y \in Xids :
        /\ Running(u, d, y)' <=> Running(u, d, y)
        /\ Sending(u, d, y)' => Sending(u, d, y)
  BY <1>0, <1>4 DEF Running, Sending, Idle
<1>6. BindInv' /\ OutcomeInv'
  BY <1>0, ServerKeepsClientInv
<1>7. AnswerInv'
  <2>0. UNCHANGED <<hdr, pc, reply, window, runs>>
    BY <1>0 DEF clientVars
  <2>1. \A d \in Clients, y \in Xids : Settled(d, y) <=> Settled(d, y)'
    BY <1>5, <2>0 DEF Settled
  <2>2. hdr[c][x].op # Bind => Settled(c, x)
    BY <1>0, <1>1, <1>2 DEF AnswerInv
  <2> SUFFICES ASSUME NEW d \in Clients, NEW y \in Xids
               PROVE /\ ~Used(d, y)' => reply'[d][y].ret = "none"
                     /\ hdr'[d][y].op # Bind =>
                          /\ \A u \in Threads : Running(u, d, y)' => runs'[d][y] = 1
                          /\ \A u, v \in Threads : Running(u, d, y)' /\ Running(v, d, y)' => u = v
                          /\ window'[d][y] = "present" => Settled(d, y)'
                          /\ \A u \in Threads : Sending(u, d, y)' => Settled(d, y)'
                          /\ \A m \in reps' : m.clt = d /\ m.xid = y /\ m.ret = "ok" => Settled(d, y)'
                          /\ reply'[d][y].ret = "ok" => Settled(d, y)'
    BY DEF AnswerInv
  <2> QED BY <1>0, <1>3, <1>5, <2>0, <2>1, <2>2 DEF AnswerInv, Used
<1>8. TrimInv'
  <2>1. \A d \in Clients, y \in Xids : Served(d, y)' => Served(d, y)
    <3>1. \A u \in Threads : thr'[u].at # "idle" => thr'[u] = thr[u]
      BY <1>4 DEF Idle
    <3>2. Served(c, x)
      BY <1>0 DEF Served, c, x
    <3>3. ASSUME NEW d \in Clients, NEW y \in Xids, Served(d, y)' PROVE Served(d, y)
      <4>1. CASE \E m \in reps' : m.clt = d /\ m.xid = y /\ m.ret = "ok" /\ m.val = nonce
        BY <1>3, <3>2, <4>1 DEF Served
      <4>2. CASE ~(\E m \in reps' : m.clt = d /\ m.xid = y /\ m.ret = "ok" /\ m.val = nonce)
        BY <1>0, <3>1, <3>3, <4>2 DEF Served, clientVars
      <4> QED BY <4>1, <4>2
    <3> QED BY <3>3
  <2> QED BY <1>0, <2>1 DEF AInv, TrimInv, TrimmedTo, clientVars
<1>9. RefusalInv'
  <2>1. nonce <= nonce' /\ nonce' \in Int
    BY <1>0 DEF TypeOK, Nonces
  <2> QED BY <1>0, <1>3, <2>1, RefusalFrame DEF clientVars
<1> QED BY <1>6, <1>7, <1>8, <1>9 DEF AInv

\* A new instance has served nobody yet.
LEMMA NewInstanceKeepsInv ==
  ASSUME AInv, IInv', Restart
  PROVE  AInv'
<1>0. /\ UNCHANGED clientVars /\ UNCHANGED <<reps, runs>>
      /\ nonce' = nonce + 1
      /\ \A t \in Threads : thr'[t].at = "idle"
      /\ \A c \in Clients, x \in Xids : window'[c][x] = "absent"
      /\ AnswerInv /\ TypeOK /\ HeaderInv /\ NonceInv
  BY DEF Restart, AInv, IInv, EmptyWindow, Idle
<1>1. nonce \in Int /\ nonce <= nonce' /\ nonce' \in Int
  BY <1>0 DEF TypeOK, Nonces
<1>2. BindInv' /\ OutcomeInv'
  BY <1>0, ServerKeepsClientInv
<1>3. AnswerInv'
  <2>0. UNCHANGED <<hdr, pc, reply, reps, runs>>
    BY <1>0 DEF clientVars
  <2>1. \A t \in Threads, d \in Clients, y \in Xids : ~Running(t, d, y)' /\ ~Sending(t, d, y)'
    BY <1>0 DEF Running, Sending
  <2>2. \A d \in Clients, y \in Xids : Settled(d, y) => Settled(d, y)'
    BY <2>0, <2>1 DEF Settled
  <2> QED BY <1>0, <2>0, <2>1, <2>2 DEF AnswerInv, Used
<1>4. TrimInv'
  <2>1. \A k \in Int : k <= nonce => k # nonce'
    BY <1>0, <1>1
  <2>2. /\ \A m \in reps : m.val # nonce'
        /\ \A d \in Clients, y \in Xids : reply[d][y].val # nonce' /\ hdr[d][y].srv_nonce # nonce'
    <3>1. /\ \A m \in reps : m.val \in Int
          /\ \A d \in Clients, y \in Xids : reply[d][y].val \in Int /\ hdr[d][y].srv_nonce \in Int
      BY <1>0 DEF TypeOK, Replies, Outcomes, Headers, Nonces
    <3> QED BY <1>0, <2>1, <3>1 DEF NonceInv, HeaderInv
  <2>3. \A d \in Clients, y \in Xids : ~Served(d, y)'
    BY <1>0, <2>2 DEF Served, clientVars
  <2>4. \A d \in Clients : TrimmedTo(d, 0)'
    BY <2>3 DEF TrimmedTo
  <2> QED BY <2>4 DEF TrimInv
<1>5. RefusalInv'
  BY <1>0, <1>1, RefusalFrame DEF clientVars
<1> QED BY <1>2, <1>3, <1>4, <1>5 DEF AInv

-----------------------------------------------------------------------------
\* The inductive invariant of the answers holds initially.
LEMMA InitAInv == ASSUME Init PROVE AInv
<1>1. IInv
  BY InitIInv
<1>2. \A c \in Clients, x \in Xids : ~Used(c, x) /\ reply[c][x].ret = "none" /\ runs[c][x] = 0
  BY DEF Init, Used, NoOutcome
<1>3. AnswerInv /\ RefusalInv
  BY <1>2 DEF Init, AnswerInv, RefusalInv, NoHeader
<1>4. BindInv /\ OutcomeInv
  BY <1>2 DEF Init, BindInv, OutcomeInv, Used
<1>5. TrimInv
  <2>1. \A c \in Clients, x \in Xids : ~Served(c, x)
    BY <1>2 DEF Init, Served, Idle
  <2>2. \A c \in Clients : TrimmedTo(c, 0)
    BY <2>1 DEF TrimmedTo
  <2> QED BY <2>2 DEF TrimInv
<1> QED BY <1>1, <1>3, <1>4, <1>5 DEF AInv

\* Every step keeps it.
LEMMA StepKeepsAInv == ASSUME AInv, [Next]_vars PROVE AInv'
<1>0. IInv' /\ TypeOK'
  BY StepKeepsIInv DEF AInv, IInv
<1>1. CASE UNCHANGED vars
  <2>1. UNCHANGED <<srv_nonce, xid, acked, hdr, pc, sends, reply, nonce, window, thr, reps, runs>>
    BY <1>1 DEF vars, clientVars, serverVars, netVars
  <2>2. AnswerInv'
    BY <2>1 DEF AInv, AnswerInv, Settled, Running, Sending, Used
  <2>3. BindInv' /\ OutcomeInv'
    BY <2>1 DEF AInv, BindInv, BoundBy, OutcomeInv, Used
  <2>4. TrimInv'
    BY <2>1 DEF AInv, TrimInv, TrimmedTo, Served
  <2>5. RefusalInv'
    BY <2>1 DEF AInv, RefusalInv, GaveUp
  <2> QED BY <1>0, <2>2, <2>3, <2>4, <2>5 DEF AInv
<1>2. ASSUME NEW c \in Clients,
             \/ \E x \in Xids : CallerStep(c, x) \/ TimeoutRetry(c, x)
             \/ Cancel(c)
             \/ CancelWake(c)
      PROVE  AInv'
  <2>1. CASE \E x \in Xids : SetBound(c, x)
    BY <1>0, <2>1, SetBoundKeepsInv
  <2>2. CASE \A x \in Xids : ~SetBound(c, x)
    BY <1>0, <1>2, <2>2, ClientStepEffect, ClientEffectKeepsInv
  <2> QED BY <2>1, <2>2
<1>3. ASSUME NEW m \in reps, got_pdu(m) PROVE AInv'
  BY <1>0, <1>3, GotPduEffect, ClientEffectKeepsInv
<1>4. ASSUME NEW t \in Threads, NEW m \in reqs, Dispatch(t, m) PROVE AInv'
  BY <1>0, <1>4, OldServerKeepsInv, StartKeepsInv, DuplicateKeepsInv, ForgottenKeepsInv DEF Dispatch
<1>5. CASE Next
  BY <1>0, <1>2, <1>3, <1>4, <1>5, NewCallKeepsInv, HandlerEndKeepsInv, ReplyKeepsInv,
     NewInstanceKeepsInv DEF Next
<1> QED BY <1>1, <1>5

\* It holds in every reachable state.
LEMMA AnswersInductive == Spec => []AInv
<1>1. Init => AInv
  BY InitAInv
<1>2. AInv /\ [Next]_vars => AInv'
  BY StepKeepsAInv
<1> QED BY <1>1, <1>2, PTL DEF Spec

\* Exactly once on success: a call that returns the handler's result was run
\* exactly once, however it was retransmitted, reordered or met by restarts, and
\* no dispatch thread is still inside its handler.
THEOREM OkMeansExecutedHolds == Spec => []OkMeansExecuted
<1>1. AInv => OkMeansExecuted
  BY DEF AInv, AnswerInv, OkMeansExecuted, Settled
<1> QED BY <1>1, AnswersInductive, PTL

\* A call that was never run is refused as FORGOTTEN only to a client that has
\* given up on that call or on an earlier one.
THEOREM ForgottenOnlyAfterTimeoutHolds == Spec => []ForgottenOnlyAfterTimeout
<1>1. AInv => ForgottenOnlyAfterTimeout
  <2> SUFFICES ASSUME AInv, NEW m \in reps, m.ret = "atmostonce_failure",
                      hdr[m.clt][m.xid].op # Bind, runs[m.clt][m.xid] = 0
               PROVE  \E y \in Xids : y <= m.xid /\ GaveUp(m.clt, y)
    BY DEF ForgottenOnlyAfterTimeout, GaveUp
  <2>1. m.clt \in Clients /\ m.xid \in Xids
    BY DEF AInv, IInv, TypeOK, Replies
  <2> QED BY <2>1 DEF AInv, RefusalInv
<1> QED BY <1>1, AnswersInductive, PTL
=============================================================================
