---------------------------- MODULE Connection ----------------------------
(***************************************************************************)
(* The server side of the transport of rpc/connection.cc over the poll     *)
(* manager of rpc/pollmgr.cc.  Actors:                                     *)
(*   - Owner, the thread that runs tcpsconn: it accepts connections,       *)
(*     garbage collects dead ones and, in the destructor, closes them all; *)
(*   - Worker, the threads of the dispatch pool: each takes a delivered    *)
(*     PDU, sends one reply on its connection and drops the reference;     *)
(*   - the poll thread (loop), which runs PollMgr::wait_loop and calls     *)
(*     read_cb and write_cb;                                               *)
(*   - the peers and the kernel (io), which fill and drain the sockets.    *)
(* A step is one critical section of connection::m_, connection::ref_m_ or *)
(* PollMgr::m_, or one system call of the poll thread.  Bytes are counted, *)
(* not represented.  A failed assertion ends the process (aborted), and so *)
(* does the use of an object that is gone, since anything may follow.      *)
(***************************************************************************)
EXTENDS Integers, Sequences, FiniteSets, FiniteSetsExt

CONSTANTS Conn,      \* connection objects
          Worker,    \* threads of the dispatch pool
          Owner,     \* the thread of tcpsconn
          NULL,
          HdrSz,     \* bytes of the length word of a PDU
          PduSz,     \* bytes of a request PDU, the length word included
          RepSizes,  \* the sizes in bytes of reply PDUs
          SockBuf,   \* bytes a socket's send buffer holds
          QueueMax,  \* jobs the dispatch pool queues before it refuses one
          MaxPdu,    \* requests the peers send in all (bound)
          Lossy      \* whether RPC_LOSSY makes send shut its socket down

ASSUME ConnectionAssumption ==
  /\ HdrSz \in Nat \ {0} /\ PduSz \in Nat /\ HdrSz < PduSz
  /\ RepSizes \subseteq Nat \ {0} /\ SockBuf \in Nat \ {0}
  /\ QueueMax \in Nat /\ MaxPdu \in Nat /\ Lossy \in BOOLEAN
  /\ Owner \notin Worker /\ IsFiniteSet(Conn) /\ IsFiniteSet(Worker) /\ NULL \notin Conn

VARIABLES conn,    \* the connection objects
          io,      \* their sockets
          pm,      \* the poll manager: fd sets, callbacks, pipe
          loop,    \* the poll thread; loop.cut is a history variable: whether a
                   \* spurious wakeup has ended a block_remove_fd in this round
          thr,     \* the other threads: where they are, on which connection
          conns,   \* tcpsconn::conns_, by file descriptor
          jobs,    \* the queue of the dispatch pool
          aborted  \* "" or what ended the process

vars == <<conn, io, pm, loop, thr, conns, jobs, aborted>>

Thread == Worker \cup {Owner}
Fd == 1 .. Cardinality(Conn)

----------------------------------------------------------------------------
(* State *)

NoPdu == [sz |-> 0, solong |-> 0]

\* A connection object that has not been created yet, or is deleted.
NoConn(st) == [st |-> st, fd |-> 0, dead |-> FALSE, refno |-> 0, waiters |-> 0,
               buf |-> FALSE, wpdu |-> NoPdu, rpdu |-> NoPdu]

NewConn(fd) == [NoConn("open") EXCEPT !.fd = fd, !.refno = 1]

NewSock == [inq |-> 0, sent |-> 0, got |-> 0, room |-> SockBuf, eof |-> FALSE, down |-> FALSE]

Open == {c \in Conn : conn[c].st = "open"}

Init ==
  /\ conn = [c \in Conn |-> NoConn("none")]
  /\ io = [c \in Conn |-> NewSock]
  /\ pm = [rfds |-> {}, wfds |-> {}, callbacks |-> [f \in Fd |-> NULL],
           pending_change |-> FALSE, pipe |-> 0]
  /\ loop = [pc |-> "top", r |-> {}, w |-> {}, cur |-> NULL, cut |-> FALSE]
  /\ thr = [t \in Thread |-> [pc |-> IF t = Owner THEN "accept" ELSE "idle", c |-> NULL]]
  /\ conns = [f \in Fd |-> NULL]
  /\ jobs = <<>>
  /\ aborted = ""

Running == aborted = ""

\* The failure of an assertion, or undefined behaviour: nothing runs any more.
Abort(why) ==
  /\ aborted' = why
  /\ UNCHANGED <<conn, io, pm, loop, thr, conns, jobs>>

----------------------------------------------------------------------------
(* The poll manager.  Each operator is a critical section of PollMgr::m_.   *)

\* A byte is written to the pipe to wake select.
watch_fd(p, fd, rd, wr) ==
  [p EXCEPT !.rfds = IF rd THEN @ \cup {fd} ELSE @,
            !.wfds = IF wr THEN @ \cup {fd} ELSE @,
            !.pipe = @ + 1]

add_callback(p, fd, c, rd, wr) == [watch_fd(p, fd, rd, wr) EXCEPT !.callbacks[fd] = c]

\* Mutant: the callback goes although read interest is left.
Bug_DelWrite(p, fd) == [p EXCEPT !.wfds = @ \ {fd}, !.callbacks[fd] = NULL]

\* del_callback(fd, CB_WRONLY): no byte is written to the pipe.
DelWrite(p, fd) ==
  [p EXCEPT !.wfds = @ \ {fd},
            !.callbacks[fd] = IF fd \in p.rfds THEN @ ELSE NULL]

\* Mutant: select is not woken.
Bug_Unwatch(p, fd) == [p EXCEPT !.rfds = @ \ {fd}, !.wfds = @ \ {fd}]

\* unwatch_fd(fd, CB_RDWR)
Unwatch(p, fd) == [p EXCEPT !.rfds = @ \ {fd}, !.wfds = @ \ {fd}, !.pipe = @ + 1]

\* Mutant: only write interest is removed.
Bug_DelBoth(p, fd) == [p EXCEPT !.wfds = @ \ {fd}, !.callbacks[fd] = NULL, !.pipe = @ + 1]

\* del_callback(fd, CB_RDWR)
DelBoth(p, fd) == [Unwatch(p, fd) EXCEPT !.callbacks[fd] = NULL]

\* block_remove_fd up to the wait for changedone_c_
BlockRemove(p, fd) == [Unwatch(p, fd) EXCEPT !.pending_change = TRUE]

Removing == {"send_removing", "close_removing"}
Removed == [send_removing |-> "send_removed", close_removing |-> "close_removed"]

\* The top of wait_loop: tell the threads in block_remove_fd that no callback
\* of an earlier round is active.
LoopTop ==
  /\ loop.pc = "top"
  /\ loop' = [loop EXCEPT !.pc = "copy", !.cut = FALSE]
  /\ pm' = [pm EXCEPT !.pending_change = FALSE]
  /\ thr' = IF pm.pending_change
            THEN [t \in Thread |-> IF thr[t].pc \in Removing
                                   THEN [thr[t] EXCEPT !.pc = Removed[@]]
                                   ELSE thr[t]]
            ELSE thr
  /\ UNCHANGED <<conn, io, conns, jobs, aborted>>

\* The wait of block_remove_fd is not in a loop: a spurious wakeup ends it, with
\* the round of the poll thread still under way.
SpuriousRemoved(t) ==
  /\ thr[t].pc \in Removing
  /\ thr' = [thr EXCEPT ![t].pc = Removed[@]]
  /\ loop' = [loop EXCEPT !.cut = TRUE]
  /\ UNCHANGED <<conn, io, pm, conns, jobs, aborted>>

\* wait_ready copies the fd sets and calls select.
CopyFds ==
  /\ loop.pc = "copy"
  /\ loop' = [loop EXCEPT !.pc = "select", !.r = pm.rfds, !.w = pm.wfds]
  /\ UNCHANGED <<conn, io, pm, thr, conns, jobs, aborted>>

OnFd(fd) == {c \in Open : conn[c].fd = fd}
\* There is something to read: bytes, or the end of the stream.
Input(c) == io[c].inq > 0 \/ io[c].eof \/ io[c].down
Readable(fd) == \E c \in OnFd(fd) : Input(c)
Writable(fd) == \E c \in OnFd(fd) : io[c].room > 0 \/ io[c].eof \/ io[c].down
ReadyToRead == {fd \in loop.r : Readable(fd)}
ReadyToWrite == {fd \in loop.w : Writable(fd)}
Ready == ReadyToRead \cup ReadyToWrite

\* select returns and at most one byte of the pipe is read.
Select ==
  /\ loop.pc = "select"
  /\ pm.pipe > 0 \/ Ready # {}
  /\ pm' = [pm EXCEPT !.pipe = IF @ > 0 THEN @ - 1 ELSE 0]
  /\ loop' = [loop EXCEPT !.pc = IF Ready = {} THEN "top" ELSE "reads",
                          !.r = ReadyToRead, !.w = ReadyToWrite]
  /\ UNCHANGED <<conn, io, thr, conns, jobs, aborted>>

\* A descriptor closed before select looks at it makes the call fail, which
\* wait_ready does not survive; a select that already sleeps does not notice.
SelectClosed ==
  /\ loop.pc = "select"
  /\ \E fd \in loop.r \cup loop.w : OnFd(fd) = {}
  /\ Abort("select")

\* The two loops over the ready descriptors: callbacks_[fd] is read without m_.
NextRead ==
  /\ loop.pc = "reads"
  /\ IF loop.r = {}
     THEN loop' = [loop EXCEPT !.cur = NULL, !.pc = "writes"]
     ELSE LET fd == Min(loop.r) IN
          loop' = [loop EXCEPT !.r = @ \ {fd}, !.cur = pm.callbacks[fd],
                               !.pc = IF pm.callbacks[fd] = NULL THEN "reads" ELSE "read_cb"]
  /\ UNCHANGED <<conn, io, pm, thr, conns, jobs, aborted>>

NextWrite ==
  /\ loop.pc = "writes"
  /\ IF loop.w = {}
     THEN loop' = [loop EXCEPT !.pc = "top"]
     ELSE LET fd == Min(loop.w) IN
          loop' = [loop EXCEPT !.w = @ \ {fd}, !.cur = pm.callbacks[fd],
                               !.pc = IF pm.callbacks[fd] = NULL THEN "writes" ELSE "write_cb"]
  /\ UNCHANGED <<conn, io, pm, thr, conns, jobs, aborted>>

\* The callback of an object that was deleted meanwhile, or whose entry in
\* callbacks_, which the loops read twice, was cleared in between.
CallbackGone ==
  /\ loop.pc \in {"read_cb", "write_cb"}
  /\ loop.cur \in Open => pm.callbacks[conn[loop.cur].fd] = NULL
  /\ Abort("callback")

----------------------------------------------------------------------------
(* connection::send, by worker t *)

\* What write can return for a PDU of which rest bytes are left; -1 is an error
\* other than EAGAIN, 0 stands for EAGAIN.
WriteResults(s, rest) ==
  CASE rest = 0 -> {0}
    [] rest > 0 /\ s.down -> {-1}
    [] OTHER -> {Min({s.room, rest})} \cup (IF s.eof THEN {-1} ELSE {})

Goto(t, pc) == thr' = [thr EXCEPT ![t].pc = pc]

\* Mutant: the last waiter is not woken.
Bug_WakeWaiters(t, c) ==
  thr' = [u \in Thread |->
            IF u = t THEN [thr[t] EXCEPT !.pc = "sent"]
            ELSE IF thr[u].c = c /\ thr[u].pc = "send_wait" /\ conn[c].waiters > 1
            THEN [thr[u] EXCEPT !.pc = "send_woken"] ELSE thr[u]]

\* The end of send by t: wpdu_ is free again and the waiters are woken.
Waiting(c) == {t \in Worker : thr[t].c = c /\ thr[t].pc = "send_wait"}
WakeWaiters(t, c) ==
  thr' = [u \in Thread |->
            IF u = t THEN [thr[t] EXCEPT !.pc = "sent"]
            ELSE IF u \in Waiting(c) /\ conn[c].waiters > 0
            THEN [thr[u] EXCEPT !.pc = "send_woken"] ELSE thr[u]]
Finish(c) == conn' = [conn EXCEPT ![c].buf = FALSE, ![c].wpdu = NoPdu]

AtSend(t) == thr[t].pc \in {"send", "send_woken"}
\* waiters_-- after the loop on send_wait_; a thread that never waited adds and
\* subtracts one in the same critical section.
Unwait(t, c) == conn[c].waiters - IF thr[t].pc = "send_woken" THEN 1 ELSE 0

SendDead(t, c) ==
  /\ AtSend(t) /\ conn[c].dead
  /\ conn' = [conn EXCEPT ![c].waiters = Unwait(t, c)]
  /\ Goto(t, "sent")
  /\ UNCHANGED <<io, pm>>

SendBlocked(t, c) ==
  /\ AtSend(t) /\ ~conn[c].dead /\ conn[c].buf
  /\ conn' = [conn EXCEPT ![c].waiters = Unwait(t, c) + 1]
  /\ Goto(t, "send_wait")
  /\ UNCHANGED <<io, pm>>

\* The first writepdu takes the whole PDU.
SendWhole(t, c) ==
  /\ \E sz \in RepSizes :
       /\ sz \in WriteResults(io[c], sz)
       /\ io' = [io EXCEPT ![c].room = @ - sz]
  /\ conn' = [conn EXCEPT ![c].waiters = Unwait(t, c)]
  /\ thr' = [u \in Thread |->
               IF u = t THEN [thr[t] EXCEPT !.pc = "sent"]
               ELSE IF u \in Waiting(c) /\ Unwait(t, c) > 0
               THEN [thr[u] EXCEPT !.pc = "send_woken"] ELSE thr[u]]
  /\ UNCHANGED pm

\* It takes a part (or nothing, EAGAIN): the poll thread is to write the rest.
SendPart(t, c) ==
  /\ \E sz \in RepSizes : \E n \in WriteResults(io[c], sz) :
       /\ n \in 0 .. sz - 1
       /\ io' = [io EXCEPT ![c].room = @ - n]
       /\ conn' = [conn EXCEPT ![c].waiters = Unwait(t, c), ![c].buf = TRUE,
                               ![c].wpdu = [sz |-> sz, solong |-> n]]
  /\ pm' = add_callback(pm, conn[c].fd, c, FALSE, TRUE)
  /\ Goto(t, "send_complete")

\* It fails, or the lossy test has shut the socket down first.
SendFails(t, c) ==
  /\ \E loss \in {FALSE, Lossy} :
       /\ io' = [io EXCEPT ![c].down = @ \/ loss]
       /\ \E sz \in RepSizes : -1 \in WriteResults(io'[c], sz)
  /\ conn' = [conn EXCEPT ![c].waiters = Unwait(t, c), ![c].buf = TRUE,
                          ![c].wpdu = [sz |-> 0, solong |-> -1], ![c].dead = TRUE]
  /\ Goto(t, "send_remove")
  /\ UNCHANGED pm

\* Mutant: a sender does not wait until wpdu_ is free.
Bug_SendFirst(t, c) ==
  /\ AtSend(t) /\ ~conn[c].dead
  /\ SendWhole(t, c) \/ SendPart(t, c) \/ SendFails(t, c)

SendFirst(t, c) ==
  /\ AtSend(t) /\ ~conn[c].dead /\ ~conn[c].buf
  /\ SendWhole(t, c) \/ SendPart(t, c) \/ SendFails(t, c)

\* Mutant: block_remove_fd does not wait for the poll thread.
Bug_RemoveFd(t, c) ==
  /\ thr[t].pc \in {"send_remove", "close_remove"}
  /\ pm' = BlockRemove(pm, conn[c].fd)
  /\ Goto(t, IF t = Owner THEN "close_removed" ELSE "send_removed")
  /\ UNCHANGED <<conn, io>>

\* block_remove_fd by a send that failed and by closeconn
RemoveFd(t, c) ==
  /\ thr[t].pc \in {"send_remove", "close_remove"}
  /\ pm' = BlockRemove(pm, conn[c].fd)
  /\ Goto(t, IF t = Owner THEN "close_removing" ELSE "send_removing")
  /\ UNCHANGED <<conn, io>>

\* ... and after the wait
ForgetFd(t, c) ==
  /\ thr[t].pc \in {"send_removed", "close_removed"}
  /\ pm' = [pm EXCEPT !.callbacks[conn[c].fd] = NULL]
  /\ Goto(t, IF t = Owner THEN "closed" ELSE "send_failed")
  /\ UNCHANGED <<conn, io>>

SendFailed(t, c) ==
  /\ thr[t].pc = "send_failed"
  /\ Finish(c) /\ WakeWaiters(t, c)
  /\ UNCHANGED <<io, pm>>

StillSending(c) == /\ ~conn[c].dead
                   /\ conn[c].wpdu.solong \in 0 .. conn[c].wpdu.sz - 1

\* Woken by a signal of send_complete_
SendComplete(t, c) ==
  /\ thr[t].pc = "send_signalled"
  /\ IF StillSending(c)
     THEN Goto(t, "send_complete") /\ UNCHANGED conn
     ELSE Finish(c) /\ WakeWaiters(t, c)
  /\ UNCHANGED <<io, pm>>

Send(t) ==
  /\ thr[t].c \in Open
  /\ LET c == thr[t].c IN
       \/ SendDead(t, c) \/ SendBlocked(t, c) \/ SendFirst(t, c)
       \/ RemoveFd(t, c) \/ ForgetFd(t, c) \/ SendFailed(t, c) \/ SendComplete(t, c)
  /\ UNCHANGED <<loop, conns, jobs, aborted>>

----------------------------------------------------------------------------
(* The callbacks, by the poll thread *)

\* pthread_cond_signal(&send_complete_): wpdu_ has one owner, so at most one waits.
SignalComplete(c) ==
  thr' = [t \in Thread |-> IF thr[t].c = c /\ thr[t].pc = "send_complete"
                           THEN [thr[t] EXCEPT !.pc = "send_signalled"] ELSE thr[t]]

WriteCb ==
  /\ loop.pc = "write_cb" /\ loop.cur \in Open
  /\ LET c == loop.cur
         s == conn[c]
     IN
     /\ ~s.dead
     /\ \/ /\ s.wpdu.sz = 0
           /\ pm' = DelWrite(pm, s.fd)
           /\ loop' = [loop EXCEPT !.cur = NULL, !.pc = "writes"]
           /\ UNCHANGED <<conn, io, thr>>
        \/ /\ s.wpdu.sz > 0
           /\ \E n \in WriteResults(io[c], s.wpdu.sz - s.wpdu.solong) :
                \/ /\ n = -1
                   /\ conn' = [conn EXCEPT ![c].dead = TRUE, ![c].wpdu = [sz |-> 0, solong |-> -1]]
                   /\ pm' = DelBoth(pm, s.fd)
                   /\ loop' = [loop EXCEPT !.cur = NULL, !.pc = "writes"]
                   /\ SignalComplete(c)
                   /\ UNCHANGED io
                \/ /\ n >= 0
                   /\ conn' = [conn EXCEPT ![c].wpdu.solong = @ + n]
                   /\ io' = [io EXCEPT ![c].room = @ - n]
                   /\ loop' = [loop EXCEPT !.cur = NULL, !.pc = "writes"]
                   /\ IF s.wpdu.solong + n = s.wpdu.sz THEN SignalComplete(c) ELSE UNCHANGED thr
                   /\ UNCHANGED pm
  /\ UNCHANGED <<conns, jobs, aborted>>

\* write_cb starts with assert(!dead_).
WriteCbDead ==
  /\ loop.pc = "write_cb" /\ loop.cur \in Open /\ conn[loop.cur].dead
  /\ Abort("write_cb")

\* What readpdu leaves: whether it succeeds, rpdu_ and the unread bytes.  At the end
\* of the stream read returns 0 and leaves errno as whatever call of the poll thread
\* failed last has set it; readpdu looks at errno all the same, so that eagain,
\* whether it is EAGAIN, is anything then.
ReadBody(s, solong, inq, eagain) ==
  LET n == Min({inq, PduSz - solong})
      atEof == s.eof \/ s.down
  IN CASE n > 0 -> [ok |-> TRUE, rpdu |-> [sz |-> PduSz, solong |-> solong + n],
                    inq |-> inq - n]
       [] n = 0 /\ (eagain \/ ~atEof) ->
                   [ok |-> TRUE, rpdu |-> [sz |-> PduSz, solong |-> solong],
                    inq |-> inq]
       [] OTHER -> [ok |-> FALSE, rpdu |-> NoPdu, inq |-> inq]

readpdu(s, p, eagain) ==
  IF p.sz > 0 THEN ReadBody(s, p.solong, s.inq, eagain)
  ELSE IF s.inq >= HdrSz THEN ReadBody(s, HdrSz, s.inq - HdrSz, eagain)
  ELSE [ok |-> FALSE, rpdu |-> NoPdu, inq |-> 0]

Complete(p) == p.sz > 0 /\ p.solong = p.sz

\* Mutant: a refused PDU is dropped.
Bug_got_pdu(c, p, inq) ==
  IF Complete(p) /\ Len(jobs) < QueueMax
  THEN /\ conn' = [conn EXCEPT ![c].rpdu = NoPdu, ![c].refno = @ + 1]
       /\ jobs' = Append(jobs, c)
       /\ io' = [io EXCEPT ![c].inq = inq, ![c].got = @ + 1]
  ELSE /\ conn' = [conn EXCEPT ![c].rpdu = IF Complete(p) THEN NoPdu ELSE p]
       /\ io' = [io EXCEPT ![c].inq = inq]
       /\ UNCHANGED jobs

\* rpcs::got_pdu: a job with a reference of its own, unless the queue is full.
got_pdu(c, p, inq) ==
  IF Complete(p) /\ Len(jobs) < QueueMax
  THEN /\ conn' = [conn EXCEPT ![c].rpdu = NoPdu, ![c].refno = @ + 1]
       /\ jobs' = Append(jobs, c)
       /\ io' = [io EXCEPT ![c].inq = inq, ![c].got = @ + 1]
  ELSE /\ conn' = [conn EXCEPT ![c].rpdu = p]
       /\ io' = [io EXCEPT ![c].inq = inq]
       /\ UNCHANGED jobs

ReadCb ==
  /\ loop.pc = "read_cb" /\ loop.cur \in Open
  /\ \E eagain \in BOOLEAN :
     LET c == loop.cur
         s == conn[c]
         res == IF Complete(s.rpdu)
                THEN [ok |-> TRUE, rpdu |-> s.rpdu, inq |-> io[c].inq]
                ELSE readpdu(io[c], s.rpdu, eagain)
     IN
     \/ /\ s.dead
        /\ loop' = [loop EXCEPT !.cur = NULL, !.pc = "reads"]
        /\ UNCHANGED <<conn, io, pm, thr, jobs>>
     \/ /\ ~s.dead /\ res.ok
        /\ loop' = [loop EXCEPT !.cur = NULL, !.pc = "reads"]
        /\ got_pdu(c, res.rpdu, res.inq)
        /\ UNCHANGED <<pm, thr>>
     \/ /\ ~s.dead /\ ~res.ok /\ Input(c)
        /\ loop' = [loop EXCEPT !.cur = NULL, !.pc = "reads"]
        /\ io' = [io EXCEPT ![c].inq = res.inq]
        /\ conn' = [conn EXCEPT ![c].dead = TRUE, ![c].rpdu = res.rpdu]
        /\ pm' = DelBoth(pm, s.fd)
        /\ SignalComplete(c)
        /\ UNCHANGED jobs
  /\ UNCHANGED <<conns, aborted>>

\* readpdu asserts that the length word can be read: errno is not EAGAIN.
ReadCbNothing ==
  /\ loop.pc = "read_cb" /\ loop.cur \in Open
  /\ LET c == loop.cur IN ~conn[c].dead /\ conn[c].rpdu.sz = 0 /\ ~Input(c)
  /\ Abort("readpdu")

----------------------------------------------------------------------------
(* References and the life of a connection *)

\* decref: the last reference to a dead connection deletes it.
Dropped(s) == IF s.refno = 1 /\ s.dead THEN NoConn("deleted")
              ELSE [s EXCEPT !.refno = @ - 1]

\* The sockets of deleted connections are closed.
Sockets(f) == [c \in Conn |-> IF f[c].st = "deleted" THEN [NewSock EXCEPT !.sent = io[c].sent]
                             ELSE io[c]]

\* A worker takes a job and is about to send its reply.
TakeJob(t) ==
  /\ thr[t].pc = "idle" /\ jobs # <<>>
  /\ thr' = [thr EXCEPT ![t] = [pc |-> "send", c |-> Head(jobs)]]
  /\ jobs' = Tail(jobs)
  /\ UNCHANGED <<conn, io, pm, loop, conns, aborted>>

\* Mutant: the reference is not dropped.
Bug_EndJob(t) ==
  /\ thr[t].pc = "sent"
  /\ thr' = [thr EXCEPT ![t] = [pc |-> "idle", c |-> NULL]]
  /\ UNCHANGED <<conn, io, pm, loop, conns, jobs, aborted>>

\* dispatch ends with decref.
EndJob(t) ==
  /\ thr[t].pc = "sent"
  /\ conn' = [conn EXCEPT ![thr[t].c] = Dropped(@)]
  /\ io' = Sockets(conn')
  /\ thr' = [thr EXCEPT ![t] = [pc |-> "idle", c |-> NULL]]
  /\ UNCHANGED <<pm, loop, conns, jobs, aborted>>

Table == {c \in Conn : \E fd \in Fd : conns[fd] = c}
Garbage == {c \in Table : conn[c].dead /\ conn[c].refno = 1}
FreeFds == {fd \in Fd : OnFd(fd) = {}}

\* process_accept: a new connection on the lowest free descriptor, then the
\* garbage collection, then the entry in conns_.  Erasing the element an
\* iterator points to and advancing the iterator is undefined: after the first
\* erasure the loop goes on, stops early, or the process dies.
Accept(c) ==
  /\ thr[Owner].pc = "accept" /\ conn[c].st = "none"
  /\ LET fd == Min(FreeFds) IN
     /\ \E gone \in SUBSET Garbage :
          /\ Garbage # {} => gone # {}
          /\ conn' = [d \in Conn |-> IF d = c THEN NewConn(fd)
                                     ELSE IF d \in gone THEN Dropped(conn[d]) ELSE conn[d]]
          /\ io' = Sockets(conn')
          /\ conns' = [f \in Fd |-> IF f = fd THEN c
                                    ELSE IF conns[f] \in gone THEN NULL ELSE conns[f]]
     /\ pm' = add_callback(pm, fd, c, TRUE, FALSE)
  /\ UNCHANGED <<loop, thr, jobs, aborted>>

AcceptCrash ==
  /\ thr[Owner].pc = "accept" /\ Garbage # {}
  /\ \E c \in Conn : conn[c].st = "none"
  /\ Abort("erase")

\* ~tcpsconn, called by ~rpcs: the accept loop ends, then each connection is closed.
StopAccepting ==
  /\ thr[Owner].pc = "accept"
  /\ Goto(Owner, "closing")
  /\ UNCHANGED <<conn, io, pm, loop, conns, jobs, aborted>>

CloseFds == {fd \in Fd : conns[fd] # NULL}

\* The critical section of closeconn
closeconn ==
  /\ thr[Owner].pc = "closing" /\ CloseFds # {}
  /\ LET c == conns[Min(CloseFds)] IN
       IF conn[c].dead
       THEN /\ thr' = [thr EXCEPT ![Owner] = [pc |-> "closed", c |-> c]]
            /\ UNCHANGED <<conn, io>>
       ELSE /\ conn' = [conn EXCEPT ![c].dead = TRUE]
            /\ io' = [io EXCEPT ![c].down = TRUE]
            /\ thr' = [thr EXCEPT ![Owner] = [pc |-> "close_remove", c |-> c]]
  /\ UNCHANGED <<pm, loop, conns, jobs, aborted>>

CloseRemove ==
  /\ thr[Owner].c \in Open
  /\ RemoveFd(Owner, thr[Owner].c) \/ ForgetFd(Owner, thr[Owner].c)
  /\ UNCHANGED <<loop, conns, jobs, aborted>>

EndClose ==
  /\ thr[Owner].pc = "closed"
  /\ LET c == thr[Owner].c IN
       /\ conn' = [conn EXCEPT ![c] = Dropped(@)]
       /\ io' = Sockets(conn')
       /\ conns' = [fd \in Fd |-> IF conns[fd] = c THEN NULL ELSE conns[fd]]
  /\ thr' = [thr EXCEPT ![Owner] = [pc |-> "closing", c |-> NULL]]
  /\ UNCHANGED <<pm, loop, jobs, aborted>>

\* ~ThrPool waits for the queue to drain and joins the workers.
JoinPool ==
  /\ thr[Owner].pc = "closing" /\ CloseFds = {}
  /\ jobs = <<>> /\ \A t \in Worker : thr[t].pc = "idle"
  /\ Goto(Owner, "done")
  /\ UNCHANGED <<conn, io, pm, loop, conns, jobs, aborted>>

----------------------------------------------------------------------------
(* The peers and the kernel *)

PeerSend(c) ==
  /\ c \in Open /\ ~io[c].eof /\ ~io[c].down
  /\ MapThenSumSet(LAMBDA d : io[d].sent, Conn) < MaxPdu * PduSz
  /\ io' = [io EXCEPT ![c].inq = @ + 1, ![c].sent = @ + 1]
  /\ UNCHANGED <<conn, pm, loop, thr, conns, jobs, aborted>>

\* The peer reads a byte of what it was sent.
PeerDrain(c) ==
  /\ c \in Open /\ io[c].room < SockBuf
  /\ io' = [io EXCEPT ![c].room = @ + 1]
  /\ UNCHANGED <<conn, pm, loop, thr, conns, jobs, aborted>>

PeerClose(c) ==
  /\ c \in Open /\ ~io[c].eof
  /\ io' = [io EXCEPT ![c].eof = TRUE]
  /\ UNCHANGED <<conn, pm, loop, thr, conns, jobs, aborted>>

----------------------------------------------------------------------------
(* Specification *)

Poll == LoopTop \/ CopyFds \/ Select \/ NextRead \/ NextWrite
        \/ ReadCb \/ WriteCb \/ WriteCbDead
        \/ SelectClosed \/ CallbackGone \/ ReadCbNothing
WorkerStep(t) == TakeJob(t) \/ Send(t) \/ EndJob(t)
Closing == closeconn \/ CloseRemove \/ EndClose \/ JoinPool
OwnerStep == (\E c \in Conn : Accept(c)) \/ AcceptCrash
             \/ StopAccepting \/ Closing
Peer == \E c \in Conn : PeerSend(c) \/ PeerDrain(c) \/ PeerClose(c)

Next ==
  /\ Running
  /\ \/ Poll
     \/ \E t \in Worker : WorkerStep(t)
     \/ \E t \in Thread : SpuriousRemoved(t)
     \/ OwnerStep
     \/ Peer

Spec == Init /\ [][Next]_vars

----------------------------------------------------------------------------
(* Fairness: the threads of the process run, and a peer that has not closed *)
(* its end reads what it is sent (its own poll thread does).                *)

Fairness ==
  /\ WF_vars(Running /\ Poll)
  /\ \A t \in Worker : WF_vars(Running /\ WorkerStep(t))
  /\ WF_vars(Running /\ Closing)
  /\ \A c \in Conn : WF_vars(Running /\ PeerDrain(c))

FairSpec == Spec /\ Fairness

----------------------------------------------------------------------------
(* Properties *)

Pdu(sizes) == [sz : {0} \cup sizes, solong : -1 .. Max(sizes)]

\* The type invariant.
TypeOK ==
  /\ conn \in [Conn -> [st : {"none", "open", "deleted"}, fd : {0} \cup Fd, dead : BOOLEAN,
                        refno : Nat, waiters : 0 .. Cardinality(Worker), buf : BOOLEAN,
                        wpdu : Pdu(RepSizes), rpdu : Pdu({PduSz})]]
  /\ io \in [Conn -> [inq : 0 .. MaxPdu * PduSz, sent : 0 .. MaxPdu * PduSz, got : 0 .. MaxPdu,
                      room : 0 .. SockBuf, eof : BOOLEAN, down : BOOLEAN]]
  /\ pm \in [rfds : SUBSET Fd, wfds : SUBSET Fd, callbacks : [Fd -> Conn \cup {NULL}],
             pending_change : BOOLEAN, pipe : Nat]
  /\ loop.pc \in {"top", "copy", "select", "reads", "read_cb", "writes", "write_cb"}
  /\ loop.cur \in Conn \cup {NULL}
  /\ conns \in [Fd -> Conn \cup {NULL}]
  /\ jobs \in Seq(Conn) /\ Len(jobs) <= QueueMax

Count(P(_), S) == Cardinality({x \in S : P(x)})

\* The reference count of an open connection is the number of places that hold
\* it: conns_, a queued job, a worker (connection::incref and decref).
RefsCounted ==
  \A c \in Open :
    conn[c].refno = Count(LAMBDA fd : conns[fd] = c, Fd)
                    + Count(LAMBDA i : jobs[i] = c, DOMAIN jobs)
                    + Count(LAMBDA t : thr[t].c = c, Worker)

\* No thread, queue, table or callback entry refers to a deleted connection.  The
\* poll thread, which holds no reference, never runs a callback of one, except in a
\* round in which a spurious wakeup has let a block_remove_fd return before the end
\* of the round: del_callback and the wait in block_remove_fd are all that protects
\* it.
NoUseAfterDelete ==
  /\ \A t \in Thread : thr[t].c \in Open \cup {NULL}
  /\ \A fd \in Fd : pm.callbacks[fd] # NULL => pm.callbacks[fd] \in OnFd(fd)
  /\ Table \subseteq Open
  /\ \A i \in DOMAIN jobs : jobs[i] \in Open
  /\ ~loop.cut /\ loop.pc \in {"read_cb", "write_cb"} => loop.cur \in Open

InSend(t, c) == thr[t].c = c /\ thr[t].pc \in {"send_complete", "send_signalled", "send_remove",
                                               "send_removing", "send_removed", "send_failed"}

\* wpdu_ belongs to exactly one sender at a time: the bytes of two PDUs are never
\* mixed on the wire, and send's wait for send_wait_ is what keeps them apart.
OneSenderOwnsBuf ==
  \A c \in Open : Count(LAMBDA t : InSend(t, c), Worker) = IF conn[c].buf THEN 1 ELSE 0

\* The assertions of connection.cc and pollmgr.cc hold where they are evaluated, in
\* two groups.  Whatever happens, add_callback finds no other connection, no sender
\* is inside a connection that is deleted, and writepdu finds solong_ in range.  In a
\* round in which no block_remove_fd was cut short by a spurious wakeup, select is
\* called with open descriptors only, the length word is read only when there is
\* something to read, and write_cb's assert(!dead_) fails only while the thread that
\* killed the connection has not returned from block_remove_fd.  (That it does fail
\* then is what WriteCbFindsAlive is about.)
AssertionsHold ==
  /\ thr[Owner].pc = "accept" => \A fd \in FreeFds : pm.callbacks[fd] = NULL
  /\ \A t \in Worker : AtSend(t) /\ ~conn[thr[t].c].dead =>
       pm.callbacks[conn[thr[t].c].fd] \in {NULL, thr[t].c}
  /\ \A t \in Thread : thr[t].pc \in {"sent", "closed"} =>
       LET s == conn[thr[t].c] IN s.dead /\ s.refno = 1 => ~s.buf
  /\ \A c \in Open : ~conn[c].dead => conn[c].wpdu.solong \in 0 .. conn[c].wpdu.sz
  /\ ~loop.cut =>
       /\ loop.pc = "select" => \A fd \in loop.r \cup loop.w : OnFd(fd) # {}
       /\ loop.pc = "read_cb" =>
            LET c == loop.cur IN conn[c].dead \/ conn[c].rpdu.sz > 0 \/ Input(c)
       /\ loop.pc = "write_cb" /\ conn[loop.cur].dead =>
            \E t \in Thread : /\ thr[t].c = loop.cur
                              /\ thr[t].pc \in {"send_remove", "send_removing",
                                                "close_remove", "close_removing"}

\* connection.cc:173: assert(!dead_), at the start of write_cb.  The code does not
\* keep it: closeconn and a failing send set dead_ before the callbacks are stopped.
WriteCbFindsAlive == aborted # "write_cb"

\* t is past the block_remove_fd of its connection.
PastRemoval(t) ==
  /\ thr[t].pc \in {"send_failed", "closed"} /\ conn[thr[t].c].dead
  /\ \A u \in Thread : thr[u].c = thr[t].c =>
       thr[u].pc \notin {"send_remove", "send_removing", "send_removed"}

\* The poll thread is in a callback of c, or has its descriptor in the lists of
\* select.
PollReaches(c) ==
  \/ loop.pc \in {"read_cb", "write_cb"} /\ loop.cur = c
  \/ loop.pc = "select" /\ conn[c].fd \in loop.r \cup loop.w

\* pollmgr.cc:57 says of block_remove_fd "the return guarantees that callbacks
\* related to fd will never be called again", which the code does not keep: a
\* spurious wakeup ends its wait.  What it does guarantee: once it has returned for a
\* connection, its descriptor is not watched and callbacks_ has no entry for it, so
\* that no later round finds it; and the poll thread is not in one of its callbacks
\* and does not select on it in this round, unless a wait was cut short in this round.
NoCallbackAfterRemove ==
  \A t \in Thread : PastRemoval(t) =>
    /\ pm.callbacks[conn[thr[t].c].fd] = NULL
    /\ conn[thr[t].c].fd \notin pm.rfds \cup pm.wfds
    /\ ~loop.cut => ~PollReaches(thr[t].c)

\* A connection that is not dead is always watched for reading, so that the end
\* of its stream and the requests of its peer are noticed; and a sender sleeping
\* on send_complete_ is watched for writing until its PDU is out, unless
\* closeconn has killed the connection under it.
AliveIsWatched ==
  /\ \A c \in Open : ~conn[c].dead =>
       conn[c].fd \in pm.rfds /\ pm.callbacks[conn[c].fd] = c
  /\ \A t \in Worker : thr[t].pc = "send_complete" =>
       \/ StillSending(thr[t].c) /\ conn[thr[t].c].fd \in pm.wfds
       \/ conn[thr[t].c].dead /\ thr[Owner].pc # "accept"

\* Framing: every byte the peer of a live connection has sent is still in the
\* socket, in rpdu_, or in a request handed to rpcs::got_pdu; a request that the
\* full queue refuses stays in rpdu_ and is neither dropped nor overwritten.
NoByteLost ==
  \A c \in Open : ~conn[c].dead =>
    io[c].sent = io[c].inq + conn[c].rpdu.solong + io[c].got * PduSz

\* No wake-up of PollMgr is lost: while a thread waits in block_remove_fd the
\* change is still pending and the poll thread does not sleep in select (the
\* byte in the pipe), however quiet the sockets are.
RemoverWillBeWoken ==
  (\E t \in Thread : thr[t].pc \in Removing) =>
    pm.pending_change /\ (loop.pc \in {"copy", "select"} => pm.pipe > 0)

\* No wake-up of send_wait_ is lost: waiters_ counts the threads that wait or
\* have just been woken, and a thread sleeps there only while another one owns
\* wpdu_ and will broadcast when it is done.
WaiterWillBeWoken ==
  \A c \in Open :
    /\ conn[c].waiters = Count(LAMBDA t : thr[t].c = c /\ thr[t].pc \in {"send_wait", "send_woken"},
                               Worker)
    /\ Waiting(c) # {} => conn[c].buf

Sending(t) == thr[t].c # NULL /\ thr[t].pc # "sent"

\* rpc.cc: connection::send "blocks until data is sent or the connection has
\* failed".  Every send returns.
SendReturns == \A t \in Worker : Sending(t) ~> ~Sending(t) \/ ~Running
============================================================================
