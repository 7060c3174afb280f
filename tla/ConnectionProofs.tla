-------------------------- MODULE ConnectionProofs --------------------------
(***************************************************************************)
(* Proofs about Connection for any number of connections and workers, any  *)
(* sizes of requests, replies, socket buffers and of the queue.            *)
(***************************************************************************)
EXTENDS Connection, FiniteSetTheorems, WellFoundedInduction, TLAPS

USE ConnectionAssumption

-----------------------------------------------------------------------------
(* Types *)

WPdu == [sz : RepSizes \cup {0}, solong : Int]
RPdu == {NoPdu} \cup [sz : {PduSz}, solong : Int]
Object == [st : {"none", "open", "deleted"}, fd : Fd \cup {0}, dead : BOOLEAN, refno : Int,
           waiters : Int, buf : BOOLEAN, wpdu : WPdu, rpdu : RPdu]
Socket == [inq : Nat, sent : Int, got : Int, room : Int, eof : BOOLEAN, down : BOOLEAN]
Manager == [rfds : SUBSET Fd, wfds : SUBSET Fd, callbacks : [Fd -> Conn \cup {NULL}],
            pending_change : BOOLEAN, pipe : Nat]
CbPc == {"read_cb", "write_cb"}
Loop == [pc : {"top", "copy", "select", "reads", "writes"} \cup CbPc, r : SUBSET Fd,
         w : SUBSET Fd, cur : Conn \cup {NULL}, cut : BOOLEAN]

OwnPc == {"send_complete", "send_signalled", "send_remove", "send_removing", "send_removed",
          "send_failed"}
SendPc == {"send", "send_wait", "send_woken", "sent"} \cup OwnPc
ClosePc == {"close_remove", "close_removing", "close_removed", "closed"}

\* A worker has a connection from the job it took to the end of dispatch; the
\* owner has one while it closes it.
ThreadTypes ==
  /\ thr \in [Thread -> [pc : {"idle", "accept", "closing", "done"} \cup SendPc \cup ClosePc,
                         c : Conn \cup {NULL}]]
  /\ \A t \in Worker : \/ thr[t].pc = "idle" /\ thr[t].c = NULL
                       \/ thr[t].pc \in SendPc /\ thr[t].c \in Conn
  /\ \/ thr[Owner].pc \in {"accept", "closing", "done"} /\ thr[Owner].c = NULL
     \/ thr[Owner].pc \in ClosePc /\ thr[Owner].c \in Conn

Types ==
  /\ conn \in [Conn -> Object]
  /\ io \in [Conn -> Socket]
  /\ pm \in Manager
  /\ loop \in Loop
  /\ ThreadTypes
  /\ conns \in [Fd -> Conn \cup {NULL}]
  /\ jobs \in Seq(Conn)

-----------------------------------------------------------------------------
(* The parts of the invariant *)

Holders(c) == Count(LAMBDA fd : conns[fd] = c, Fd)
              + Count(LAMBDA i : jobs[i] = c, DOMAIN jobs)
              + Count(LAMBDA t : thr[t].c = c, Worker)

\* References: the count of an open connection is exact, nothing holds any other.
\* An open connection has a descriptor of its own, under which conns_ files it.
RefInv ==
  /\ \A c \in Conn : IF conn[c].st = "open" THEN conn[c].refno = Holders(c) ELSE Holders(c) = 0
  /\ \A c \in Open : conn[c].fd \in Fd
  /\ \A c, d \in Open : conn[c].fd = conn[d].fd => c = d
  /\ \A fd \in Fd : conns[fd] # NULL => conn[conns[fd]].fd = fd
  /\ thr[Owner].c # NULL => /\ conn[thr[Owner].c].fd \in Fd /\ conn[thr[Owner].c].dead
                            /\ conns[conn[thr[Owner].c].fd] = thr[Owner].c

RemovePc == {"send_remove", "close_remove"}
RemovedPc == {"send_removed", "close_removed"}
RemoverPc == RemovePc \cup Removing \cup RemovedPc
KillPc == RemoverPc \cup {"send_failed"}

\* A connection is declared dead once: at most one thread is removing it from the
\* poll manager because it did that.
KillInv ==
  /\ \A t \in Thread : thr[t].pc \in KillPc => conn[thr[t].c].dead
  /\ \A t, u \in Thread : thr[t].pc \in KillPc /\ thr[u].pc \in KillPc /\ thr[t].c = thr[u].c => t = u

\* What the poll manager has of a connection: everything while it is alive, nothing
\* when it is dead and nobody is removing it.
WatchInv ==
  /\ \A fd \in Fd : pm.callbacks[fd] # NULL =>
       conn[pm.callbacks[fd]].st = "open" /\ conn[pm.callbacks[fd]].fd = fd
  /\ \A fd \in pm.rfds \cup pm.wfds : pm.callbacks[fd] # NULL
  /\ \A c \in Open : ~conn[c].dead => pm.callbacks[conn[c].fd] = c /\ conn[c].fd \in pm.rfds
  /\ \A t \in Thread : thr[t].pc \in Removing \cup RemovedPc =>
       conn[thr[t].c].fd \notin pm.rfds \cup pm.wfds
  /\ \A c \in Open : conn[c].dead /\ (\A t \in Thread : thr[t].pc \in RemoverPc => thr[t].c # c) =>
       pm.callbacks[conn[c].fd] = NULL

\* What the poll thread works from is current: while it is in a callback the
\* connection is registered; a descriptor it will still look at belongs to nobody
\* who is past the wait of block_remove_fd; one it will read from has input.
LoopCurrent ==
  /\ loop.pc \in CbPc => loop.cur # NULL /\ conn[loop.cur].st = "open"
                         /\ pm.callbacks[conn[loop.cur].fd] = loop.cur
  /\ loop.pc = "read_cb" => conn[loop.cur].fd \notin loop.r /\ Input(loop.cur)
  /\ \A t \in Thread : thr[t].pc \in RemovedPc /\ loop.pc \notin {"top", "copy"} =>
       conn[thr[t].c].fd \notin loop.r \cup loop.w /\ (loop.pc \in CbPc => loop.cur # thr[t].c)
  /\ loop.pc = "select" => \A fd \in loop.r \cup loop.w : pm.callbacks[fd] # NULL
  /\ loop.pc \in {"reads", "read_cb"} =>
       \A fd \in loop.r : pm.callbacks[fd] # NULL /\ Input(pm.callbacks[fd])
  /\ loop.pc \in {"writes", "write_cb"} => loop.r = {}

\* It is, in a round in which no spurious wakeup has ended a block_remove_fd.
LoopInv == ~loop.cut => LoopCurrent

\* wpdu_ has one owner, and it is there.
BufInv ==
  /\ \A t \in Worker : thr[t].pc \in OwnPc => conn[thr[t].c].buf
  /\ \A t, u \in Worker : thr[t].pc \in OwnPc /\ thr[u].pc \in OwnPc /\ thr[t].c = thr[u].c => t = u
  /\ \A c \in Open : conn[c].buf => \E t \in Worker : thr[t].c = c /\ thr[t].pc \in OwnPc
  /\ \A t \in Worker : thr[t].pc = "send_wait" => conn[thr[t].c].buf
  /\ \A c \in Open : ~conn[c].dead => conn[c].wpdu.solong \in 0 .. conn[c].wpdu.sz
  /\ \A t \in Worker : thr[t].pc = "send_complete" =>
       \/ /\ ~conn[thr[t].c].dead /\ conn[thr[t].c].wpdu.solong < conn[thr[t].c].wpdu.sz
          /\ conn[thr[t].c].fd \in pm.wfds
       \/ conn[thr[t].c].dead /\ thr[Owner].pc # "accept"
  /\ \A t \in Worker : thr[t].pc = "send_signalled" =>
       conn[thr[t].c].dead \/ conn[thr[t].c].wpdu.solong = conn[thr[t].c].wpdu.sz

\* waiters_ is exact.
WaitersInv ==
  \A c \in Open :
    conn[c].waiters = Count(LAMBDA t : thr[t].c = c /\ thr[t].pc \in {"send_wait", "send_woken"}, Worker)

\* The framing of the input; a connection that has not been made has a new socket.
ByteInv ==
  /\ NoByteLost
  /\ \A c \in Conn : conn[c].st = "none" => io[c] = NewSock
  /\ \A c \in Open : conn[c].rpdu.solong \in 0 .. PduSz

IInv == /\ Types /\ RefInv /\ KillInv /\ WatchInv /\ LoopInv /\ BufInv /\ WaitersInv /\ ByteInv
        /\ RemoverWillBeWoken

-----------------------------------------------------------------------------
(* Numbers and sets *)

\* The least element of a set of descriptors is one of them.
LEMMA MinIn ==
  ASSUME NEW T \in SUBSET Nat, T # {}
  PROVE  Min(T) \in T
<1> DEFINE R == OpToRel(<, Nat)
<1>1. IsWellFoundedOn(R, Nat)
  BY NatLessThanWellFounded
<1> HIDE DEF R
<1>2. PICK x \in T : \A y \in T : ~ (<<y, x>> \in R)
  BY <1>1, WFMin
<1>3. \A y \in T : ~ (y < x)
  BY <1>2 DEF R, OpToRel
<1>4. \A y \in T : x <= y
  BY <1>3
<1> QED BY <1>4 DEF Min

\* The amount a read or a write moves: the smaller of two integers.
LEMMA MinOfTwo ==
  ASSUME NEW a \in Int, NEW b \in Int
  PROVE  Min({a, b}) \in {a, b} /\ Min({a, b}) <= a /\ Min({a, b}) <= b
<1>1. \E x \in {a, b} : \A y \in {a, b} : x <= y
  OBVIOUS
<1>2. Min({a, b}) \in {a, b} /\ \A y \in {a, b} : Min({a, b}) <= y
  BY <1>1 DEF Min
<1> QED BY <1>2

\* Descriptors: as many as connections, none of them 0 (NewConn's "no descriptor").
LEMMA FdType == Cardinality(Conn) \in Nat /\ Fd \in SUBSET Nat /\ IsFiniteSet(Fd) /\ 0 \notin Fd
                /\ Cardinality(Fd) = Cardinality(Conn)
<1>1. Cardinality(Conn) \in Nat
  BY FS_CardinalityType
<1>2. IsFiniteSet(Fd) /\ Cardinality(Fd) = Cardinality(Conn)
  BY <1>1, FS_Interval DEF Fd
<1> QED BY <1>1, <1>2 DEF Fd

\* What write returns.
LEMMA WriteRange ==
  ASSUME NEW s \in Socket, NEW rest \in Nat, NEW n \in WriteResults(s, rest)
  PROVE  n \in Int /\ n <= rest
<1>1. s.room \in Int
  BY DEF Socket
<1>2. Min({s.room, rest}) \in Int /\ Min({s.room, rest}) <= rest
  <2>1. rest \in Int
    OBVIOUS
  <2>2. Min({s.room, rest}) \in {s.room, rest} /\ Min({s.room, rest}) <= rest
    BY <1>1, <2>1, MinOfTwo, Zenon
  <2> QED BY <1>1, <2>1, <2>2
<1>3. n \in {0, -1, Min({s.room, rest})}
  BY DEF WriteResults
<1>4. n = 0 => rest >= 0
  OBVIOUS
<1> QED BY <1>2, <1>3

\* What readpdu returns: the bytes that leave the socket enter the PDU.
LEMMA ReadBodyRange ==
  ASSUME NEW s \in Socket, NEW k \in Int, 0 <= k, k <= PduSz, NEW inq \in Nat, NEW e \in BOOLEAN
  PROVE  LET r == ReadBody(s, k, inq, e) IN
         /\ r.ok \in BOOLEAN /\ r.inq \in Nat /\ r.rpdu \in RPdu
         /\ r.rpdu.solong \in 0 .. PduSz
         /\ r.ok => r.rpdu.sz = PduSz /\ r.inq + r.rpdu.solong = inq + k
<1> DEFINE n == Min({inq, PduSz - k})
           r == ReadBody(s, k, inq, e)
<1>1. n \in {inq, PduSz - k} /\ n <= inq /\ n <= PduSz - k /\ n \in Int
  <2>1. inq \in Int /\ PduSz - k \in Int
    OBVIOUS
  <2>2. n \in {inq, PduSz - k} /\ n <= inq /\ n <= PduSz - k
    BY <2>1, MinOfTwo, Zenon
  <2> QED BY <2>1, <2>2
<1>2. n \in Nat
  BY <1>1
<1> HIDE DEF n
<1>3. CASE n > 0
  <2>1. r = [ok |-> TRUE, rpdu |-> [sz |-> PduSz, solong |-> k + n], inq |-> inq - n]
    BY <1>2, <1>3 DEF ReadBody, n
  <2>2. k + n \in 0 .. PduSz /\ inq - n \in Nat /\ (inq - n) + (k + n) = inq + k
    BY <1>1, <1>2
  <2>3. [sz |-> PduSz, solong |-> k + n] \in RPdu
    BY <2>2 DEF RPdu
  <2> QED BY <2>1, <2>2, <2>3
<1>4. CASE n = 0 /\ (e \/ ~(s.eof \/ s.down))
  <2>1. r = [ok |-> TRUE, rpdu |-> [sz |-> PduSz, solong |-> k], inq |-> inq]
    BY <1>4 DEF ReadBody, n
  <2>2. [sz |-> PduSz, solong |-> k] \in RPdu
    BY DEF RPdu
  <2> QED BY <2>1, <2>2
<1>5. CASE n = 0 /\ ~(e \/ ~(s.eof \/ s.down))
  <2>1. r = [ok |-> FALSE, rpdu |-> NoPdu, inq |-> inq]
    BY <1>5 DEF ReadBody, n
  <2>2. NoPdu \in RPdu /\ NoPdu.solong = 0
    BY DEF RPdu, NoPdu
  <2> QED BY <2>1, <2>2
<1> QED BY <1>2, <1>3, <1>4, <1>5

\* readpdu: a buffer never holds more than its PDU, and a read that succeeds moves bytes
\* from the socket to the buffer without losing any.
LEMMA ReadRange ==
  ASSUME NEW s \in Socket, NEW p \in RPdu, p.solong \in 0 .. PduSz, NEW e \in BOOLEAN
  PROVE  LET r == readpdu(s, p, e) IN
         /\ r.ok \in BOOLEAN /\ r.inq \in Nat /\ r.rpdu \in RPdu
         /\ r.rpdu.solong \in 0 .. PduSz
         /\ r.ok => r.rpdu.sz = PduSz /\ r.inq + r.rpdu.solong = s.inq + p.solong
<1>1. s.inq \in Nat
  BY DEF Socket
<1>2. CASE p.sz > 0
  <2>1. readpdu(s, p, e) = ReadBody(s, p.solong, s.inq, e)
    BY <1>2 DEF readpdu
  <2>2. p.solong \in Int /\ 0 <= p.solong /\ p.solong <= PduSz
    OBVIOUS
  <2>3. LET r == ReadBody(s, p.solong, s.inq, e) IN
        /\ r.ok \in BOOLEAN /\ r.inq \in Nat /\ r.rpdu \in RPdu
        /\ r.rpdu.solong \in 0 .. PduSz
        /\ r.ok => r.rpdu.sz = PduSz /\ r.inq + r.rpdu.solong = s.inq + p.solong
    BY <1>1, <2>2, ReadBodyRange
  <2> QED BY <2>1, <2>3
<1>3. CASE ~(p.sz > 0)
  <2>1. p = NoPdu
    BY <1>3 DEF RPdu
  <2>2. CASE s.inq >= HdrSz
    <3>1. readpdu(s, p, e) = ReadBody(s, HdrSz, s.inq - HdrSz, e)
      BY <1>3, <2>2 DEF readpdu
    <3>2. s.inq - HdrSz \in Nat /\ HdrSz \in Int /\ 0 <= HdrSz /\ HdrSz <= PduSz
      BY <1>1, <2>2
    <3>3. LET r == ReadBody(s, HdrSz, s.inq - HdrSz, e) IN
          /\ r.ok \in BOOLEAN /\ r.inq \in Nat /\ r.rpdu \in RPdu
          /\ r.rpdu.solong \in 0 .. PduSz
          /\ r.ok => r.rpdu.sz = PduSz /\ r.inq + r.rpdu.solong = (s.inq - HdrSz) + HdrSz
      BY <3>2, ReadBodyRange
    <3>4. (s.inq - HdrSz) + HdrSz = s.inq + p.solong
      BY <1>1, <2>1, <3>2 DEF NoPdu
    <3> QED BY <3>1, <3>3, <3>4
  <2>3. CASE ~(s.inq >= HdrSz)
    <3>1. readpdu(s, p, e) = [ok |-> FALSE, rpdu |-> NoPdu, inq |-> 0]
      BY <1>3, <2>3 DEF readpdu
    <3>2. NoPdu \in RPdu /\ NoPdu.solong = 0
      BY DEF RPdu, NoPdu
    <3> QED BY <3>1, <3>2
  <2> QED BY <2>2, <2>3
<1> QED BY <1>2, <1>3

-----------------------------------------------------------------------------
(* Counting holders *)

Ind(p) == IF p THEN 1 ELSE 0
FdsAt(tab, c) == {fd \in Fd : tab[fd] = c}
JobsAt(js, c) == {i \in DOMAIN js : js[i] = c}
ThrAt(th, c) == {t \in Worker : th[t].c = c}

\* Holders is the sum of three counts, before and after a step.
LEMMA HoldersSum ==
  ASSUME NEW c
  PROVE  /\ Holders(c) = Cardinality(FdsAt(conns, c)) + Cardinality(JobsAt(jobs, c))
                         + Cardinality(ThrAt(thr, c))
         /\ Holders(c)' = Cardinality(FdsAt(conns', c)) + Cardinality(JobsAt(jobs', c))
                          + Cardinality(ThrAt(thr', c))
BY DEF Holders, Count, FdsAt, JobsAt, ThrAt

\* Two subsets of a finite set that agree but for one element.
LEMMA OneChanges ==
  ASSUME NEW S, IsFiniteSet(S), NEW A \in SUBSET S, NEW B \in SUBSET S, NEW s \in S,
         \A x \in S \ {s} : x \in A <=> x \in B
  PROVE  /\ Cardinality(A) \in Nat /\ Cardinality(B) \in Nat
         /\ Cardinality(B) = Cardinality(A) + Ind(s \in B) - Ind(s \in A)
<1>1. IsFiniteSet(A) /\ IsFiniteSet(B)
  BY FS_Subset
<1>2. Cardinality(A) \in Nat /\ Cardinality(B) \in Nat
  BY <1>1, FS_CardinalityType
<1>3. CASE s \in A /\ s \notin B
  <2>1. A = B \cup {s}
    BY <1>3
  <2>2. Cardinality(A) = Cardinality(B) + 1
    BY <1>1, <1>3, <2>1, FS_AddElement
  <2> QED BY <1>2, <1>3, <2>2 DEF Ind
<1>4. CASE s \notin A /\ s \in B
  <2>1. B = A \cup {s}
    BY <1>4
  <2>2. Cardinality(B) = Cardinality(A) + 1
    BY <1>1, <1>4, <2>1, FS_AddElement
  <2> QED BY <1>2, <1>4, <2>2 DEF Ind
<1>5. CASE (s \in A) = (s \in B)
  <2>1. A = B
    BY <1>5
  <2> QED BY <1>2, <2>1 DEF Ind
<1> QED BY <1>3, <1>4, <1>5

\* The counts are natural numbers; one is positive when something is counted, and
\* more than one when two things are.
LEMMA CountTypes ==
  ASSUME NEW tab, NEW js \in Seq(Conn), NEW th, NEW c
  PROVE  /\ IsFiniteSet(JobsAt(js, c))
         /\ Cardinality(FdsAt(tab, c)) \in Nat
         /\ Cardinality(JobsAt(js, c)) \in Nat
         /\ Cardinality(ThrAt(th, c)) \in Nat
         /\ \A fd \in Fd : tab[fd] = c => Cardinality(FdsAt(tab, c)) > 0
         /\ \A i \in DOMAIN js : js[i] = c => Cardinality(JobsAt(js, c)) > 0
         /\ \A t \in Worker : th[t].c = c => Cardinality(ThrAt(th, c)) > 0
         /\ \A t, u \in Worker : t # u /\ th[t].c = c /\ th[u].c = c => Cardinality(ThrAt(th, c)) > 1
<1>1. FdsAt(tab, c) \in SUBSET Fd /\ ThrAt(th, c) \in SUBSET Worker
      /\ JobsAt(js, c) \in SUBSET (1 .. Len(js)) /\ Len(js) \in Nat
  BY DEF FdsAt, ThrAt, JobsAt
<1>2. IsFiniteSet(1 .. Len(js)) /\ IsFiniteSet(Fd)
  BY <1>1, FS_Interval, FdType
<1>3. IsFiniteSet(FdsAt(tab, c)) /\ IsFiniteSet(ThrAt(th, c)) /\ IsFiniteSet(JobsAt(js, c))
  BY <1>1, <1>2, FS_Subset
<1>4. \A S : IsFiniteSet(S) => Cardinality(S) \in Nat /\ (Cardinality(S) = 0 <=> S = {})
  BY FS_CardinalityType, FS_EmptySet
<1>5. \A S : IsFiniteSet(S) /\ S # {} => Cardinality(S) > 0
  <2> TAKE S
  <2> HAVE IsFiniteSet(S) /\ S # {}
  <2>1. Cardinality(S) \in Nat /\ Cardinality(S) # 0
    BY <1>4
  <2> QED BY <2>1
<1>6. \A fd \in Fd : tab[fd] = c => FdsAt(tab, c) # {}
  BY DEF FdsAt
<1>7. \A i \in DOMAIN js : js[i] = c => JobsAt(js, c) # {}
  BY DEF JobsAt
<1>8. \A t \in Worker : th[t].c = c => ThrAt(th, c) # {}
  BY DEF ThrAt
<1>9. ASSUME NEW t \in Worker, NEW u \in Worker, t # u, th[t].c = c, th[u].c = c
      PROVE  Cardinality(ThrAt(th, c)) > 1
  <2> DEFINE S == ThrAt(th, c)
  <2>1. t \in S /\ u \in S /\ IsFiniteSet(S)
    BY <1>3, <1>9 DEF ThrAt
  <2> HIDE DEF S
  <2>2. IsFiniteSet(S \ {t}) /\ Cardinality(S \ {t}) = Cardinality(S) - 1
    BY <2>1, FS_RemoveElement
  <2>3. Cardinality(S \ {t}) > 0 /\ Cardinality(S) \in Nat
    BY <1>4, <1>5, <1>9, <2>1, <2>2
  <2> QED BY <2>2, <2>3 DEF S
<1> QED BY <1>3, <1>4, <1>5, <1>6, <1>7, <1>8, <1>9

\* Holders, the workers: one worker takes or drops a connection.
LEMMA ThreadChanges ==
  ASSUME NEW th, NEW th2, NEW t \in Worker, \A u \in Worker \ {t} : th2[u].c = th[u].c, NEW c
  PROVE  Cardinality(ThrAt(th2, c))
           = Cardinality(ThrAt(th, c)) + Ind(th2[t].c = c) - Ind(th[t].c = c)
<1>1. ThrAt(th, c) \in SUBSET Worker /\ ThrAt(th2, c) \in SUBSET Worker
  BY DEF ThrAt
<1>2. \A x \in Worker \ {t} : x \in ThrAt(th, c) <=> x \in ThrAt(th2, c)
  BY DEF ThrAt
<1>3. Cardinality(ThrAt(th2, c))
        = Cardinality(ThrAt(th, c)) + Ind(t \in ThrAt(th2, c)) - Ind(t \in ThrAt(th, c))
  BY <1>1, <1>2, OneChanges
<1>4. (t \in ThrAt(th2, c) <=> th2[t].c = c) /\ (t \in ThrAt(th, c) <=> th[t].c = c)
  BY DEF ThrAt
<1> QED BY <1>3, <1>4 DEF Ind

\* Holders, the queue: got_pdu appends a job.
LEMMA JobAdded ==
  ASSUME NEW js \in Seq(Conn), NEW j \in Conn, NEW c
  PROVE  Cardinality(JobsAt(Append(js, j), c)) = Cardinality(JobsAt(js, c)) + Ind(j = c)
<1> DEFINE n == Len(js) + 1
           js2 == Append(js, j)
<1>1. n \in Nat \ {0} /\ DOMAIN js = 1 .. (n - 1) /\ DOMAIN js2 = 1 .. n
      /\ js2[n] = j /\ \A i \in 1 .. (n - 1) : js2[i] = js[i]
  OBVIOUS
<1> HIDE DEF n, js2
<1>2. n \notin JobsAt(js, c)
  BY <1>1 DEF JobsAt
<1>3. CASE j = c
  <2>1. JobsAt(js2, c) = JobsAt(js, c) \cup {n}
    <3>1. \A i \in JobsAt(js2, c) : i \in JobsAt(js, c) \cup {n}
      BY <1>1 DEF JobsAt
    <3>2. \A i \in JobsAt(js, c) : i \in JobsAt(js2, c)
      BY <1>1 DEF JobsAt
    <3>3. n \in JobsAt(js2, c)
      BY <1>1, <1>3 DEF JobsAt
    <3> QED BY <3>1, <3>2, <3>3
  <2>2. Cardinality(JobsAt(js2, c)) = Cardinality(JobsAt(js, c)) + 1
    BY <1>2, <2>1, CountTypes, FS_AddElement
  <2> QED BY <1>3, <2>2 DEF Ind, js2
<1>4. CASE j # c
  <2>1. JobsAt(js2, c) = JobsAt(js, c)
    BY <1>1, <1>4 DEF JobsAt
  <2>2. Cardinality(JobsAt(js, c)) \in Nat
    BY CountTypes
  <2> QED BY <1>4, <2>1, <2>2 DEF Ind, js2
<1> QED BY <1>3, <1>4

\* Holders, the queue: a worker takes the first job.
LEMMA JobTaken ==
  ASSUME NEW js \in Seq(Conn), js # <<>>, NEW c
  PROVE  Cardinality(JobsAt(Tail(js), c)) = Cardinality(JobsAt(js, c)) - Ind(Head(js) = c)
<1> DEFINE js2 == Tail(js)
           n == Len(js)
           Rest == JobsAt(js, c) \ {1}
           f == [i \in Rest |-> i - 1]
<1>1. n \in Nat \ {0} /\ DOMAIN js = 1 .. n /\ DOMAIN js2 = 1 .. (n - 1) /\ Head(js) = js[1]
      /\ \A i \in 1 .. (n - 1) : js2[i] = js[i + 1]
  OBVIOUS
<1> HIDE DEF n, js2
<1>2. \A i \in Rest : i \in 2 .. n /\ js[i] = c
  BY <1>1 DEF JobsAt
<1>3. \A i \in Rest : i - 1 \in JobsAt(js2, c)
  BY <1>1, <1>2 DEF JobsAt
<1>4. \A i \in JobsAt(js2, c) : i + 1 \in Rest /\ (i + 1) - 1 = i
  BY <1>1 DEF JobsAt
<1>5. f \in Bijection(Rest, JobsAt(js2, c))
  <2>1. f \in [Rest -> JobsAt(js2, c)]
    BY <1>3
  <2>2. \A x, y \in Rest : f[x] = f[y] => x = y
    BY <1>2
  <2>3. \A i \in JobsAt(js2, c) : f[i + 1] = i /\ i + 1 \in Rest
    BY <1>4
  <2> QED BY <2>1, <2>2, <2>3 DEF Bijection, Injection, Surjection, IsInjective
<1>6. IsFiniteSet(JobsAt(js, c)) /\ Cardinality(JobsAt(js, c)) \in Nat
  BY CountTypes
<1>7. IsFiniteSet(Rest)
      /\ Cardinality(Rest) = IF 1 \in JobsAt(js, c) THEN Cardinality(JobsAt(js, c)) - 1
                             ELSE Cardinality(JobsAt(js, c))
  BY <1>6, FS_RemoveElement
<1>8. Cardinality(JobsAt(js2, c)) = Cardinality(Rest)
  BY <1>5, <1>7, FS_Bijection DEF ExistsBijection
<1>9. 1 \in JobsAt(js, c) <=> Head(js) = c
  BY <1>1 DEF JobsAt
<1> QED BY <1>6, <1>7, <1>8, <1>9 DEF Ind, js2

\* What is held is open.
LEMMA HeldIsOpen ==
  ASSUME Types, RefInv
  PROVE  /\ \A c \in Conn : Holders(c) \in Nat
         /\ \A fd \in Fd : conns[fd] # NULL =>
              conns[fd] \in Conn /\ conn[conns[fd]].st = "open" /\ conn[conns[fd]].fd = fd
         /\ \A i \in DOMAIN jobs : jobs[i] \in Conn /\ conn[jobs[i]].st = "open"
         /\ \A t \in Thread : thr[t].c # NULL =>
              thr[t].c \in Conn /\ conn[thr[t].c].st = "open" /\ conn[thr[t].c].fd \in Fd
         /\ thr[Owner].c # NULL => conns[conn[thr[Owner].c].fd] = thr[Owner].c
<1>1. jobs \in Seq(Conn) /\ conns \in [Fd -> Conn \cup {NULL}]
      /\ \A t \in Thread : thr[t].c \in Conn \cup {NULL}
  BY DEF Types, ThreadTypes
<1>2. ASSUME NEW c \in Conn
      PROVE  /\ Holders(c) \in Nat
             /\ \A fd \in Fd : conns[fd] = c => Holders(c) > 0
             /\ \A i \in DOMAIN jobs : jobs[i] = c => Holders(c) > 0
             /\ \A t \in Worker : thr[t].c = c => Holders(c) > 0
  BY <1>1, HoldersSum, CountTypes
<1>3. \A c \in Conn : Holders(c) > 0 => conn[c].st = "open"
  BY <1>2 DEF RefInv
<1>4. \A fd \in Fd : conns[fd] # NULL =>
        conns[fd] \in Conn /\ conn[conns[fd]].st = "open" /\ conn[conns[fd]].fd = fd
  BY <1>1, <1>2, <1>3 DEF RefInv
<1>5. \A i \in DOMAIN jobs : jobs[i] \in Conn
  BY <1>1
<1>6. thr[Owner].c # NULL =>
        /\ thr[Owner].c \in Conn /\ conn[thr[Owner].c].st = "open" /\ conn[thr[Owner].c].fd \in Fd
        /\ conns[conn[thr[Owner].c].fd] = thr[Owner].c
  <2> HAVE thr[Owner].c # NULL
  <2>1. thr[Owner].c \in Conn /\ conns[conn[thr[Owner].c].fd] = thr[Owner].c
    BY <1>1 DEF RefInv, Thread
  <2>2. conn[thr[Owner].c].fd \in Fd
    BY DEF RefInv
  <2> QED BY <1>4, <2>1, <2>2
<1>7. \A c \in Conn : conn[c].st = "open" => conn[c].fd \in Fd
  BY DEF RefInv, Open
<1> QED BY <1>1, <1>2, <1>3, <1>4, <1>5, <1>6, <1>7 DEF Thread

\* The last reference: whoever holds it is the only one that refers to the
\* connection.
LEMMA LoneHolder ==
  ASSUME Types, RefInv, NEW c \in Conn, conn[c].st = "open", conn[c].refno = 1
  PROVE  /\ \A t \in Worker : thr[t].c = c =>
              /\ \A u \in Thread : u # t => thr[u].c # c
              /\ \A fd \in Fd : conns[fd] # c
              /\ \A i \in DOMAIN jobs : jobs[i] # c
         /\ \A fd \in Fd : conns[fd] = c =>
              /\ \A u \in Worker : thr[u].c # c
              /\ \A i \in DOMAIN jobs : jobs[i] # c
<1>1. jobs \in Seq(Conn)
  BY DEF Types
<1> DEFINE f == Cardinality(FdsAt(conns, c))
           j == Cardinality(JobsAt(jobs, c))
           w == Cardinality(ThrAt(thr, c))
<1>2. /\ f \in Nat /\ j \in Nat /\ w \in Nat
      /\ \A fd \in Fd : conns[fd] = c => f > 0
      /\ \A i \in DOMAIN jobs : jobs[i] = c => j > 0
      /\ \A t \in Worker : thr[t].c = c => w > 0
      /\ \A t, u \in Worker : t # u /\ thr[t].c = c /\ thr[u].c = c => w > 1
  BY <1>1, CountTypes
<1>3. f + j + w = 1
  BY HoldersSum DEF RefInv
<1> HIDE DEF f, j, w
<1>4. (w > 0 => f = 0 /\ j = 0 /\ w = 1) /\ (f > 0 => w = 0 /\ j = 0)
  BY <1>2, <1>3
<1>5. \A t \in Worker : thr[t].c = c =>
        /\ \A u \in Worker : u # t => thr[u].c # c
        /\ \A fd \in Fd : conns[fd] # c
        /\ \A i \in DOMAIN jobs : jobs[i] # c
  <2> TAKE t \in Worker
  <2> HAVE thr[t].c = c
  <2>1. f = 0 /\ j = 0 /\ w = 1
    BY <1>2, <1>4
  <2> QED BY <1>2, <2>1
<1>6. \A t \in Worker : thr[t].c = c => thr[Owner].c # c
  BY <1>5 DEF RefInv
<1>7. \A fd \in Fd : conns[fd] = c =>
        /\ \A u \in Worker : thr[u].c # c
        /\ \A i \in DOMAIN jobs : jobs[i] # c
  <2> TAKE fd \in Fd
  <2> HAVE conns[fd] = c
  <2>1. w = 0 /\ j = 0
    BY <1>2, <1>4
  <2> QED BY <1>2, <2>1
<1> QED BY <1>5, <1>6, <1>7 DEF Thread

-----------------------------------------------------------------------------
(* The effects of the actions, and their types *)

\* The poll thread looks at its lists only.
Looks ==
  /\ UNCHANGED <<conn, io, thr, conns, jobs>>
  /\ pm'.rfds = pm.rfds /\ pm'.wfds = pm.wfds /\ pm'.callbacks = pm.callbacks
  /\ pm'.pending_change = pm.pending_change

\* wait_ready copies the watched sets.
LEMMA CopyFdsEffect ==
  ASSUME Types, CopyFds
  PROVE  /\ Types' /\ Looks /\ pm' = pm
         /\ loop.pc = "copy" /\ loop'.pc = "select" /\ loop'.r = pm.rfds /\ loop'.w = pm.wfds
<1>1. loop \in Loop /\ pm.rfds \in SUBSET Fd /\ pm.wfds \in SUBSET Fd
  BY DEF Types, Manager
<1>2. loop' \in Loop /\ loop'.pc = "select" /\ loop'.r = pm.rfds /\ loop'.w = pm.wfds
  BY <1>1 DEF CopyFds, Loop
<1> QED BY <1>2 DEF CopyFds, Looks, Types, ThreadTypes

\* select returns subsets of what it was given.
LEMMA SelectEffect ==
  ASSUME Types, Select
  PROVE  /\ Types' /\ Looks
         /\ loop.pc = "select" /\ loop'.pc \in {"top", "reads"}
         /\ loop'.r = ReadyToRead /\ loop'.w \subseteq loop.w /\ loop'.cut = loop.cut
<1>1. loop \in Loop /\ pm \in Manager /\ loop.r \in SUBSET Fd /\ loop.w \in SUBSET Fd
  BY DEF Types, Loop
<1>2. ReadyToRead \in SUBSET Fd /\ ReadyToWrite \in SUBSET Fd /\ ReadyToWrite \subseteq loop.w
  BY <1>1 DEF ReadyToRead, ReadyToWrite
<1>3. /\ loop' \in Loop /\ loop.pc = "select" /\ loop'.pc \in {"top", "reads"}
      /\ loop'.r = ReadyToRead /\ loop'.w = ReadyToWrite /\ loop'.cut = loop.cut
  <2> DEFINE pc == IF Ready = {} THEN "top" ELSE "reads"
  <2>1. /\ loop.pc = "select" /\ pc \in {"top", "reads"}
        /\ loop' = [loop EXCEPT !.pc = pc, !.r = ReadyToRead, !.w = ReadyToWrite]
    BY DEF Select
  <2> HIDE DEF pc
  <2> QED BY <1>1, <1>2, <2>1 DEF Loop
<1>4. /\ pm' \in Manager /\ pm'.rfds = pm.rfds /\ pm'.wfds = pm.wfds
      /\ pm'.callbacks = pm.callbacks /\ pm'.pending_change = pm.pending_change
  BY <1>1 DEF Select, Manager
<1> QED BY <1>2, <1>3, <1>4 DEF Select, Looks, Types, ThreadTypes

\* The read loop of wait_loop takes one descriptor and looks up its callback.
LEMMA NextReadEffect ==
  ASSUME Types, NextRead
  PROVE  /\ Types' /\ Looks /\ pm' = pm /\ loop.pc = "reads" /\ loop'.w = loop.w
         /\ loop'.cut = loop.cut
         /\ \/ loop.r = {} /\ loop'.r = {} /\ loop'.pc = "writes"
            \/ \E fd \in loop.r : /\ loop'.r = loop.r \ {fd} /\ loop'.cur = pm.callbacks[fd]
                                  /\ \/ pm.callbacks[fd] = NULL /\ loop'.pc = "reads"
                                     \/ pm.callbacks[fd] # NULL /\ loop'.pc = "read_cb"
<1>1. loop \in Loop /\ loop.r \in SUBSET Fd /\ pm.callbacks \in [Fd -> Conn \cup {NULL}]
  BY DEF Types, Loop, Manager
<1>2. CASE loop.r = {}
  <2>1. loop' = [loop EXCEPT !.cur = NULL, !.pc = "writes"] /\ loop.pc = "reads"
    BY <1>2 DEF NextRead
  <2>2. /\ loop' \in Loop /\ loop'.pc = "writes" /\ loop'.r = {} /\ loop'.w = loop.w
        /\ loop'.cut = loop.cut
    BY <1>1, <1>2, <2>1 DEF Loop
  <2> QED BY <1>2, <2>1, <2>2 DEF NextRead, Looks, Types, ThreadTypes
<1>3. CASE loop.r # {}
  <2>1. PICK fd \in loop.r : fd = Min(loop.r)
    BY <1>1, <1>3, FdType, MinIn
  <2>2. loop' = [loop EXCEPT !.r = @ \ {fd}, !.cur = pm.callbacks[fd],
                             !.pc = IF pm.callbacks[fd] = NULL THEN "reads" ELSE "read_cb"]
        /\ loop.pc = "reads"
    BY <1>3, <2>1 DEF NextRead
  <2>3. /\ loop' \in Loop /\ loop'.r = loop.r \ {fd} /\ loop'.cur = pm.callbacks[fd]
        /\ loop'.w = loop.w /\ loop'.cut = loop.cut
        /\ loop'.pc = IF pm.callbacks[fd] = NULL THEN "reads" ELSE "read_cb"
    BY <1>1, <2>1, <2>2 DEF Loop, CbPc
  <2>4. \/ pm.callbacks[fd] = NULL /\ loop'.pc = "reads"
        \/ pm.callbacks[fd] # NULL /\ loop'.pc = "read_cb"
    BY <2>3
  <2>5. Types' /\ Looks /\ pm' = pm
    BY <2>3 DEF NextRead, Looks, Types, ThreadTypes
  <2> QED BY <2>1, <2>2, <2>3, <2>4, <2>5
<1> QED BY <1>2, <1>3

\* The write loop of wait_loop takes one descriptor and looks up its callback.
LEMMA NextWriteEffect ==
  ASSUME Types, NextWrite
  PROVE  /\ Types' /\ Looks /\ pm' = pm /\ loop.pc = "writes" /\ loop'.r = loop.r
         /\ loop'.cut = loop.cut
         /\ \/ loop'.pc = "top"
            \/ \E fd \in loop.w : /\ loop'.w = loop.w \ {fd} /\ loop'.cur = pm.callbacks[fd]
                                  /\ \/ pm.callbacks[fd] = NULL /\ loop'.pc = "writes"
                                     \/ pm.callbacks[fd] # NULL /\ loop'.pc = "write_cb"
<1>1. loop \in Loop /\ loop.w \in SUBSET Fd /\ pm.callbacks \in [Fd -> Conn \cup {NULL}]
  BY DEF Types, Loop, Manager
<1>2. CASE loop.w = {}
  <2>1. loop' = [loop EXCEPT !.pc = "top"] /\ loop.pc = "writes"
    BY <1>2 DEF NextWrite
  <2>2. loop' \in Loop /\ loop'.pc = "top" /\ loop'.r = loop.r /\ loop'.cut = loop.cut
    BY <1>1, <1>2, <2>1 DEF Loop
  <2> QED BY <1>2, <2>1, <2>2 DEF NextWrite, Looks, Types, ThreadTypes
<1>3. CASE loop.w # {}
  <2>1. PICK fd \in loop.w : fd = Min(loop.w)
    BY <1>1, <1>3, FdType, MinIn
  <2>2. loop' = [loop EXCEPT !.w = @ \ {fd}, !.cur = pm.callbacks[fd],
                             !.pc = IF pm.callbacks[fd] = NULL THEN "writes" ELSE "write_cb"]
        /\ loop.pc = "writes"
    BY <1>3, <2>1 DEF NextWrite
  <2>3. /\ loop' \in Loop /\ loop'.w = loop.w \ {fd} /\ loop'.cur = pm.callbacks[fd]
        /\ loop'.r = loop.r /\ loop'.cut = loop.cut
        /\ loop'.pc = IF pm.callbacks[fd] = NULL THEN "writes" ELSE "write_cb"
    BY <1>1, <2>1, <2>2 DEF Loop, CbPc
  <2>4. \/ pm.callbacks[fd] = NULL /\ loop'.pc = "writes"
        \/ pm.callbacks[fd] # NULL /\ loop'.pc = "write_cb"
    BY <2>3
  <2>5. Types' /\ Looks /\ pm' = pm
    BY <2>3 DEF NextWrite, Looks, Types, ThreadTypes
  <2> QED BY <2>1, <2>2, <2>3, <2>4, <2>5
<1> QED BY <1>2, <1>3

\* The top of wait_loop moves the threads in block_remove_fd on, and nothing else.
LEMMA LoopTopEffect ==
  ASSUME Types, LoopTop
  PROVE  /\ Types' /\ UNCHANGED <<conn, io, conns, jobs>>
         /\ loop.pc = "top" /\ loop'.pc = "copy"
         /\ pm'.rfds = pm.rfds /\ pm'.wfds = pm.wfds /\ pm'.callbacks = pm.callbacks
         /\ \A t \in Thread :
              /\ thr'[t].c = thr[t].c
              /\ \/ thr'[t].pc = thr[t].pc /\ (pm.pending_change => thr[t].pc \notin Removing)
                 \/ thr[t].pc = "send_removing" /\ thr'[t].pc = "send_removed"
                 \/ thr[t].pc = "close_removing" /\ thr'[t].pc = "close_removed"
<1>1. loop \in Loop /\ pm \in Manager /\ ThreadTypes
  BY DEF Types
<1>2. loop' \in Loop /\ loop.pc = "top" /\ loop'.pc = "copy"
  BY <1>1 DEF LoopTop, Loop
<1>3. pm' \in Manager /\ pm'.rfds = pm.rfds /\ pm'.wfds = pm.wfds /\ pm'.callbacks = pm.callbacks
  BY <1>1 DEF LoopTop, Manager
<1> DEFINE P == {"idle", "accept", "closing", "done"} \cup SendPc \cup ClosePc
<1>4. ASSUME NEW t \in Thread
      PROVE  /\ thr'[t].c = thr[t].c /\ thr'[t] \in [pc : P, c : Conn \cup {NULL}]
             /\ \/ thr'[t].pc = thr[t].pc /\ (pm.pending_change => thr[t].pc \notin Removing)
                \/ thr[t].pc = "send_removing" /\ thr'[t].pc = "send_removed"
                \/ thr[t].pc = "close_removing" /\ thr'[t].pc = "close_removed"
  <2>1. thr[t] \in [pc : P, c : Conn \cup {NULL}]
    BY <1>1 DEF ThreadTypes
  <2>2. CASE pm.pending_change /\ thr[t].pc \in Removing
    <3>1. thr'[t] = [thr[t] EXCEPT !.pc = Removed[thr[t].pc]]
      BY <2>2 DEF LoopTop
    <3>2. CASE thr[t].pc = "send_removing"
      <4>1. Removed[thr[t].pc] = "send_removed"
        BY <3>2 DEF Removed
      <4> QED BY <2>1, <3>1, <3>2, <4>1 DEF SendPc, OwnPc
    <3>3. CASE thr[t].pc = "close_removing"
      <4>1. Removed[thr[t].pc] = "close_removed"
        BY <3>3 DEF Removed
      <4> QED BY <2>1, <3>1, <3>3, <4>1 DEF ClosePc
    <3> QED BY <2>2, <3>2, <3>3 DEF Removing
  <2>3. CASE ~(pm.pending_change /\ thr[t].pc \in Removing)
    <3>1. thr'[t] = thr[t]
      BY <2>3 DEF LoopTop
    <3> QED BY <2>1, <2>3, <3>1
  <2> QED BY <2>2, <2>3
<1>5. ThreadTypes'
  <2>1. thr' \in [Thread -> [pc : P, c : Conn \cup {NULL}]]
    <3>1. CASE pm.pending_change
      BY <1>4, <3>1 DEF LoopTop
    <3>2. CASE ~pm.pending_change
      BY <1>1, <3>2 DEF LoopTop, ThreadTypes
    <3> QED BY <3>1, <3>2
  <2>2. \A t \in Worker : \/ thr'[t].pc = "idle" /\ thr'[t].c = NULL
                          \/ thr'[t].pc \in SendPc /\ thr'[t].c \in Conn
    BY <1>1, <1>4 DEF ThreadTypes, Thread, SendPc, OwnPc, ClosePc
  <2>3. \/ thr'[Owner].pc \in {"accept", "closing", "done"} /\ thr'[Owner].c = NULL
        \/ thr'[Owner].pc \in ClosePc /\ thr'[Owner].c \in Conn
    BY <1>1, <1>4 DEF ThreadTypes, Thread, SendPc, OwnPc, ClosePc
  <2> QED BY <2>1, <2>2, <2>3 DEF ThreadTypes
<1>6. Types'
  BY <1>2, <1>3, <1>5 DEF LoopTop, Types
<1> QED BY <1>2, <1>3, <1>4, <1>6 DEF LoopTop

-----------------------------------------------------------------------------
(* What a step that does not touch a part of the state preserves *)

\* No connection is made, deleted or given another descriptor; death is final.
SameObjects ==
  \A c \in Conn : /\ conn'[c].st = conn[c].st /\ conn'[c].fd = conn[c].fd
                  /\ conn[c].dead => conn'[c].dead

SameRefs ==
  /\ conns' = conns /\ jobs' = jobs
  /\ \A c \in Conn : conn'[c].refno = conn[c].refno
  /\ \A t \in Thread : thr'[t].c = thr[t].c

SameDead == \A c \in Conn : conn'[c].dead = conn[c].dead

SameWatch == pm'.rfds = pm.rfds /\ pm'.wfds = pm.wfds /\ pm'.callbacks = pm.callbacks

\* A thread is at one of the places P after the step only if it was before.
NoneEnters(P) == \A t \in Thread : thr'[t].pc \in P => thr[t].pc \in P /\ thr'[t].c = thr[t].c
NoneLeaves(P) == \A t \in Thread : thr[t].pc \in P => thr'[t].pc \in P /\ thr'[t].c = thr[t].c

\* A step that leaves the objects and their holders alone keeps RefInv.
LEMMA RefInvKept ==
  ASSUME Types, Types', RefInv, SameObjects, SameRefs
  PROVE  RefInv'
<1>1. \A c : ThrAt(thr', c) = ThrAt(thr, c)
  BY DEF ThrAt, SameRefs, Thread
<1>2. \A c : Holders(c)' = Holders(c)
  BY <1>1, HoldersSum DEF SameRefs
<1>3. \A c \in Conn : IF conn'[c].st = "open" THEN conn'[c].refno = Holders(c)'
                      ELSE Holders(c)' = 0
  BY <1>2 DEF RefInv, SameObjects, SameRefs
<1>4. Open' = Open
  BY DEF Open, SameObjects
<1>5. \A c \in Open' : conn'[c].fd \in Fd
  BY <1>4 DEF RefInv, SameObjects, Open
<1>6. \A c, d \in Open' : conn'[c].fd = conn'[d].fd => c = d
  BY <1>4 DEF RefInv, SameObjects, Open
<1>7. \A fd \in Fd : conns'[fd] # NULL => conn'[conns'[fd]].fd = fd
  BY DEF RefInv, SameObjects, SameRefs, Types
<1>8. thr'[Owner].c # NULL => /\ conn'[thr'[Owner].c].fd \in Fd /\ conn'[thr'[Owner].c].dead
                              /\ conns'[conn'[thr'[Owner].c].fd] = thr'[Owner].c
  <2> HAVE thr'[Owner].c # NULL
  <2>1. thr'[Owner].c = thr[Owner].c
    BY DEF SameRefs, Thread
  <2>2. thr[Owner].c \in Conn
    BY <2>1 DEF Types, ThreadTypes
  <2> QED BY <2>1, <2>2 DEF RefInv, SameObjects, SameRefs
<1> QED BY <1>3, <1>5, <1>6, <1>7, <1>8 DEF RefInv

\* Whoever is at a place of send or of closeconn has a connection.
LEMMA HasConn ==
  ASSUME Types, NEW t \in Thread, thr[t].pc \in SendPc \cup ClosePc
  PROVE  thr[t].c \in Conn
BY DEF Types, ThreadTypes, Thread, SendPc, OwnPc, ClosePc

\* How the sets of places are contained in each other.
LEMMA Places ==
  /\ KillPc \subseteq SendPc \cup ClosePc
  /\ RemoverPc \subseteq KillPc
  /\ Removing \subseteq RemoverPc /\ RemovedPc \subseteq RemoverPc /\ RemovePc \subseteq RemoverPc
BY DEF KillPc, RemoverPc, RemovePc, Removing, RemovedPc, SendPc, OwnPc, ClosePc

\* A step after which nobody new has declared a death keeps KillInv.
LEMMA KillInvKept ==
  ASSUME Types, KillInv, SameObjects, NoneEnters(KillPc)
  PROVE  KillInv'
<1>1. ASSUME NEW t \in Thread, thr'[t].pc \in KillPc
      PROVE  thr[t].pc \in KillPc /\ thr'[t].c = thr[t].c /\ thr[t].c \in Conn
  BY <1>1, HasConn, Places DEF NoneEnters
<1>2. \A t \in Thread : thr'[t].pc \in KillPc => conn'[thr'[t].c].dead
  BY <1>1 DEF KillInv, SameObjects
<1>3. \A t, u \in Thread : thr'[t].pc \in KillPc /\ thr'[u].pc \in KillPc /\ thr'[t].c = thr'[u].c => t = u
  BY <1>1 DEF KillInv
<1> QED BY <1>2, <1>3 DEF KillInv

\* A step that leaves the poll manager's tables alone keeps WatchInv.
LEMMA WatchInvKept ==
  ASSUME Types, WatchInv, SameObjects, SameDead, SameWatch,
         NoneEnters(Removing \cup RemovedPc), NoneLeaves(RemoverPc)
  PROVE  WatchInv'
<1>1. pm.callbacks \in [Fd -> Conn \cup {NULL}]
  BY DEF Types, Manager
<1>2. Open' = Open
  BY DEF Open, SameObjects
<1>3. \A fd \in Fd : pm'.callbacks[fd] # NULL =>
        conn'[pm'.callbacks[fd]].st = "open" /\ conn'[pm'.callbacks[fd]].fd = fd
  BY <1>1 DEF WatchInv, SameWatch, SameObjects
<1>4. \A fd \in pm'.rfds \cup pm'.wfds : pm'.callbacks[fd] # NULL
  BY DEF WatchInv, SameWatch
<1>5. \A c \in Open' : ~conn'[c].dead => pm'.callbacks[conn'[c].fd] = c /\ conn'[c].fd \in pm'.rfds
  BY <1>2 DEF WatchInv, SameWatch, SameObjects, SameDead, Open
<1>6. \A t \in Thread : thr'[t].pc \in Removing \cup RemovedPc =>
        conn'[thr'[t].c].fd \notin pm'.rfds \cup pm'.wfds
  <2> TAKE t \in Thread
  <2> HAVE thr'[t].pc \in Removing \cup RemovedPc
  <2>1. thr[t].pc \in Removing \cup RemovedPc /\ thr'[t].c = thr[t].c
    BY DEF NoneEnters
  <2>2. thr[t].c \in Conn
    BY <2>1, HasConn, Places
  <2> QED BY <2>1, <2>2 DEF WatchInv, SameWatch, SameObjects
<1>7. \A c \in Open' : conn'[c].dead
          /\ (\A t \in Thread : thr'[t].pc \in RemoverPc => thr'[t].c # c) =>
        pm'.callbacks[conn'[c].fd] = NULL
  <2> TAKE c \in Open'
  <2> HAVE conn'[c].dead /\ (\A t \in Thread : thr'[t].pc \in RemoverPc => thr'[t].c # c)
  <2>1. c \in Conn /\ c \in Open /\ conn[c].dead
    BY <1>2 DEF SameDead, Open
  <2>2. \A t \in Thread : thr[t].pc \in RemoverPc => thr[t].c # c
    BY DEF NoneLeaves
  <2>3. pm.callbacks[conn[c].fd] = NULL
    BY <2>1, <2>2 DEF WatchInv
  <2> QED BY <2>1, <2>3 DEF SameWatch, SameObjects
<1> QED BY <1>3, <1>4, <1>5, <1>6, <1>7 DEF WatchInv

\* Registered connections stay what they are for the poll thread.
StillRegistered ==
  \A fd \in Fd, c \in Conn : pm.callbacks[fd] = c =>
    /\ pm'.callbacks[fd] = c /\ conn'[c].st = conn[c].st /\ conn'[c].fd = conn[c].fd
    /\ Input(c) => Input(c)'

\* A step of another thread that unregisters nothing the poll thread will look at keeps
\* LoopInv.
LEMMA LoopInvKept ==
  ASSUME Types, WatchInv, LoopInv, loop' = loop, StillRegistered, NoneEnters(RemovedPc),
         \A t \in Thread : thr[t].pc \in RemovedPc => conn'[thr[t].c].fd = conn[thr[t].c].fd,
         \A c \in Open : conn[c].fd \in Fd
  PROVE  LoopInv'
<1> SUFFICES ASSUME ~loop.cut
             PROVE  LoopCurrent'
  BY DEF LoopInv
<1>0. LoopCurrent
  BY DEF LoopInv
<1>1. loop.r \in SUBSET Fd /\ loop.w \in SUBSET Fd /\ loop.cur \in Conn \cup {NULL}
  BY DEF Types, Loop
<1>2. loop.pc \in CbPc => /\ loop.cur # NULL /\ conn'[loop.cur].st = "open"
                          /\ pm'.callbacks[conn'[loop.cur].fd] = loop.cur
                          /\ conn'[loop.cur].fd = conn[loop.cur].fd
                          /\ Input(loop.cur) => Input(loop.cur)'
  <2> HAVE loop.pc \in CbPc
  <2>1. loop.cur # NULL /\ conn[loop.cur].st = "open" /\ pm.callbacks[conn[loop.cur].fd] = loop.cur
    BY <1>0 DEF LoopCurrent
  <2>2. loop.cur \in Open /\ conn[loop.cur].fd \in Fd
    BY <1>1, <2>1 DEF Open
  <2>3. PICK fd \in Fd : fd = conn[loop.cur].fd
    BY <2>2
  <2>4. pm.callbacks[fd] = loop.cur
    BY <2>1, <2>3
  <2>5. PICK c \in Conn : c = loop.cur
    BY <1>1, <2>1
  <2>6. /\ pm'.callbacks[fd] = c /\ conn'[c].st = conn[c].st
        /\ conn'[c].fd = conn[c].fd /\ (Input(c) => Input(c)')
    BY <2>4, <2>5 DEF StillRegistered
  <2> QED BY <2>1, <2>3, <2>5, <2>6 DEF Input
<1>3. loop.pc = "read_cb" => conn'[loop.cur].fd \notin loop.r /\ Input(loop.cur)'
  BY <1>0, <1>2 DEF LoopCurrent, CbPc
<1>4. \A t \in Thread : thr'[t].pc \in RemovedPc /\ loop.pc \notin {"top", "copy"} =>
        conn'[thr'[t].c].fd \notin loop.r \cup loop.w /\ (loop.pc \in CbPc => loop.cur # thr'[t].c)
  <2> TAKE t \in Thread
  <2> HAVE thr'[t].pc \in RemovedPc /\ loop.pc \notin {"top", "copy"}
  <2>1. thr[t].pc \in RemovedPc /\ thr'[t].c = thr[t].c /\ conn'[thr[t].c].fd = conn[thr[t].c].fd
    BY DEF NoneEnters
  <2> QED BY <1>0, <2>1 DEF LoopCurrent
<1>5. loop.pc = "select" => \A fd \in loop.r \cup loop.w : pm'.callbacks[fd] # NULL
  <2> HAVE loop.pc = "select"
  <2> TAKE fd \in loop.r \cup loop.w
  <2>1. fd \in Fd /\ pm.callbacks[fd] # NULL
    BY <1>0, <1>1 DEF LoopCurrent
  <2>2. PICK c \in Conn : c = pm.callbacks[fd]
    BY <2>1 DEF Types, Manager
  <2> QED BY <2>1, <2>2 DEF StillRegistered
<1>6. loop.pc \in {"reads", "read_cb"} =>
        \A fd \in loop.r : pm'.callbacks[fd] # NULL /\ Input(pm.callbacks[fd])'
  <2> HAVE loop.pc \in {"reads", "read_cb"}
  <2> TAKE fd \in loop.r
  <2>1. fd \in Fd /\ pm.callbacks[fd] # NULL /\ Input(pm.callbacks[fd])
    BY <1>0, <1>1 DEF LoopCurrent
  <2>2. PICK c \in Conn : c = pm.callbacks[fd]
    BY <2>1 DEF Types, Manager
  <2>3. pm'.callbacks[fd] = c /\ Input(c)'
    BY <2>1, <2>2 DEF StillRegistered
  <2> QED BY <2>1, <2>2, <2>3 DEF Input
<1> QED BY <1>0, <1>2, <1>3, <1>4, <1>5, <1>6 DEF LoopCurrent, Input

\* Nothing of a write buffer changes.
SameBufs == \A c \in Conn : conn'[c].buf = conn[c].buf /\ conn'[c].wpdu = conn[c].wpdu

\* A step after which the same threads own the same buffers keeps BufInv.
LEMMA BufInvKept ==
  ASSUME Types, BufInv, SameObjects, SameDead, SameBufs,
         \A t \in Worker : /\ thr[t].pc = "send_complete" /\ ~conn[thr[t].c].dead
                           /\ conn[thr[t].c].fd \in pm.wfds
                           => conn[thr[t].c].fd \in pm'.wfds,
         NoneEnters(OwnPc), NoneLeaves(OwnPc), NoneEnters({"send_wait"}),
         NoneEnters({"send_complete"}), NoneEnters({"send_signalled"}),
         thr[Owner].pc # "accept" => thr'[Owner].pc # "accept"
  PROVE  BufInv'
<1>1. Worker \subseteq Thread
  BY DEF Thread
<1>2. Open' = Open
  BY DEF Open, SameObjects
<1>3. \A t \in Worker : thr[t].pc \in SendPc => thr[t].c \in Conn
  BY DEF Types, ThreadTypes, SendPc, OwnPc
<1>4. OwnPc \subseteq SendPc /\ {"send_wait", "send_complete", "send_signalled"} \subseteq SendPc
  BY DEF SendPc, OwnPc
<1>5. \A t \in Worker : thr'[t].pc \in OwnPc => conn'[thr'[t].c].buf
  BY <1>1, <1>3, <1>4 DEF BufInv, SameBufs, NoneEnters
<1>6. \A t, u \in Worker : thr'[t].pc \in OwnPc /\ thr'[u].pc \in OwnPc /\ thr'[t].c = thr'[u].c => t = u
  BY <1>1 DEF BufInv, NoneEnters
<1>7. \A c \in Open' : conn'[c].buf => \E t \in Worker : thr'[t].c = c /\ thr'[t].pc \in OwnPc
  BY <1>1, <1>2 DEF BufInv, SameBufs, NoneLeaves, Open
<1>8. \A t \in Worker : thr'[t].pc = "send_wait" => conn'[thr'[t].c].buf
  BY <1>1, <1>3, <1>4 DEF BufInv, SameBufs, NoneEnters
<1>9. \A c \in Open' : ~conn'[c].dead => conn'[c].wpdu.solong \in 0 .. conn'[c].wpdu.sz
  BY <1>2 DEF BufInv, SameBufs, SameDead, Open
<1>10. \A t \in Worker : thr'[t].pc = "send_complete" =>
         \/ /\ ~conn'[thr'[t].c].dead /\ conn'[thr'[t].c].wpdu.solong < conn'[thr'[t].c].wpdu.sz
            /\ conn'[thr'[t].c].fd \in pm'.wfds
         \/ conn'[thr'[t].c].dead /\ thr'[Owner].pc # "accept"
  <2> TAKE t \in Worker
  <2> HAVE thr'[t].pc = "send_complete"
  <2>1. thr[t].pc = "send_complete" /\ thr'[t].c = thr[t].c /\ thr[t].c \in Conn
    BY <1>1, <1>3, <1>4 DEF NoneEnters
  <2> QED BY <2>1 DEF BufInv, SameBufs, SameDead, SameObjects
<1>11. \A t \in Worker : thr'[t].pc = "send_signalled" =>
         conn'[thr'[t].c].dead \/ conn'[thr'[t].c].wpdu.solong = conn'[thr'[t].c].wpdu.sz
  BY <1>1, <1>3, <1>4 DEF BufInv, SameBufs, SameDead, NoneEnters
<1> QED BY <1>5, <1>6, <1>7, <1>8, <1>9, <1>10, <1>11 DEF BufInv

WaitPc == {"send_wait", "send_woken"}
WaitAt(th, c) == {t \in Worker : th[t].c = c /\ th[t].pc \in WaitPc}

\* WaitersInv, with the count as a cardinality.
LEMMA WaitersDef ==
  /\ WaitersInv <=> \A c \in Open : conn[c].waiters = Cardinality(WaitAt(thr, c))
  /\ WaitersInv' <=> \A c \in Open' : conn'[c].waiters = Cardinality(WaitAt(thr', c))
BY DEF WaitersInv, WaitAt, WaitPc, Count

\* A step after which the same threads wait keeps WaitersInv.
LEMMA WaitersInvKept ==
  ASSUME WaitersInv, SameObjects, \A c \in Conn : conn'[c].waiters = conn[c].waiters,
         NoneEnters(WaitPc), NoneLeaves(WaitPc)
  PROVE  WaitersInv'
<1>1. \A c : WaitAt(thr', c) = WaitAt(thr, c)
  BY DEF WaitAt, NoneEnters, NoneLeaves, Thread
<1>2. Open' = Open
  BY DEF Open, SameObjects
<1> QED BY <1>1, <1>2, WaitersDef DEF Open

\* The input of the sockets and of the read buffers.
SameInput ==
  \A c \in Conn : /\ conn'[c].rpdu = conn[c].rpdu /\ io'[c].inq = io[c].inq
                  /\ io'[c].sent = io[c].sent /\ io'[c].got = io[c].got
                  /\ conn[c].st # "open" => io'[c] = io[c]

\* A step that reads nothing keeps ByteInv.
LEMMA ByteInvKept ==
  ASSUME ByteInv, SameObjects, SameInput
  PROVE  ByteInv'
<1>1. Open' = Open
  BY DEF Open, SameObjects
<1>2. NoByteLost'
  BY <1>1 DEF ByteInv, NoByteLost, SameInput, SameObjects, Open
<1>3. \A c \in Conn : conn'[c].st = "none" => io'[c] = NewSock
  BY DEF ByteInv, SameInput, SameObjects
<1>4. \A c \in Open' : conn'[c].rpdu.solong \in 0 .. PduSz
  BY <1>1 DEF ByteInv, SameInput, Open
<1> QED BY <1>2, <1>3, <1>4 DEF ByteInv

\* A step that removes no descriptor and takes no wake-up back keeps RemoverWillBeWoken.
LEMMA WokenKept ==
  ASSUME RemoverWillBeWoken, NoneEnters(Removing),
         pm.pending_change => pm'.pending_change,
         loop'.pc \in {"copy", "select"} => loop.pc \in {"copy", "select"} /\ (pm.pipe > 0 => pm'.pipe > 0)
  PROVE  RemoverWillBeWoken'
<1>1. (\E t \in Thread : thr'[t].pc \in Removing) => \E t \in Thread : thr[t].pc \in Removing
  BY DEF NoneEnters
<1>2. (\E t \in Thread : thr'[t].pc \in Removing) =>
        pm'.pending_change /\ (loop'.pc \in {"copy", "select"} => pm'.pipe > 0)
  BY <1>1 DEF RemoverWillBeWoken
<1> QED BY <1>2 DEF RemoverWillBeWoken

-----------------------------------------------------------------------------
(* The poll thread outside the callbacks *)

\* A step of the poll thread that only looks keeps everything but its own part.
LEMMA Looking ==
  ASSUME IInv, Types', Looks
  PROVE  RefInv' /\ KillInv' /\ WatchInv' /\ BufInv' /\ WaitersInv' /\ ByteInv'
<1>1. SameObjects /\ SameRefs /\ SameDead /\ SameWatch /\ SameBufs /\ SameInput
  BY DEF Looks, SameObjects, SameRefs, SameDead, SameWatch, SameBufs, SameInput
<1>2. \A P : NoneEnters(P) /\ NoneLeaves(P)
  BY DEF Looks, NoneEnters, NoneLeaves
<1>3. pm.wfds \subseteq pm'.wfds /\ thr' = thr /\ conn' = conn
  BY DEF Looks
<1>4. RefInv'
  BY <1>1, RefInvKept DEF IInv
<1>5. KillInv'
  BY <1>1, <1>2, KillInvKept DEF IInv
<1>6. WatchInv'
  BY <1>1, <1>2, WatchInvKept DEF IInv
<1>7. BufInv'
  BY <1>1, <1>2, <1>3, BufInvKept DEF IInv
<1>8. WaitersInv'
  BY <1>1, <1>2, <1>3, WaitersInvKept DEF IInv
<1>9. ByteInv'
  BY <1>1, ByteInvKept DEF IInv
<1> QED BY <1>4, <1>5, <1>6, <1>7, <1>8, <1>9

\* What is copied is registered, and nobody past block_remove_fd is among it.
LEMMA CopyFdsStep ==
  ASSUME IInv, CopyFds
  PROVE  IInv'
<1>1. /\ Types /\ Types' /\ Looks /\ pm' = pm /\ thr' = thr /\ conn' = conn
      /\ loop.pc = "copy" /\ loop'.pc = "select" /\ loop'.r = pm.rfds /\ loop'.w = pm.wfds
  BY CopyFdsEffect DEF IInv, Looks
<1>2. LoopInv'
  <2>1. \A t \in Thread : thr[t].pc \in RemovedPc => conn[thr[t].c].fd \notin pm.rfds \cup pm.wfds
    BY DEF IInv, WatchInv
  <2>2. \A fd \in pm.rfds \cup pm.wfds : pm.callbacks[fd] # NULL
    BY DEF IInv, WatchInv
  <2> QED BY <1>1, <2>1, <2>2 DEF LoopInv, LoopCurrent, CbPc
<1>3. RemoverWillBeWoken'
  BY <1>1 DEF IInv, RemoverWillBeWoken
<1> QED BY <1>1, <1>2, <1>3, Looking DEF IInv

\* What select reports for reading has input, and it cannot sleep on a remover.
LEMMA SelectStep ==
  ASSUME IInv, Select
  PROVE  IInv'
<1>1. /\ Types /\ Types' /\ Looks /\ loop.pc = "select" /\ loop'.pc \in {"top", "reads"}
      /\ loop'.r = ReadyToRead /\ loop'.w \subseteq loop.w
      /\ pm'.callbacks = pm.callbacks /\ thr' = thr /\ conn' = conn /\ io' = io
      /\ pm'.pending_change = pm.pending_change /\ loop'.cut = loop.cut
  BY SelectEffect DEF IInv, Looks
<1>2. \A fd \in loop'.r : fd \in loop.r /\ Readable(fd)
  BY <1>1 DEF ReadyToRead
<1>3. ~loop.cut => \A fd \in loop'.r : pm.callbacks[fd] # NULL /\ Input(pm.callbacks[fd])
  <2> HAVE ~loop.cut
  <2> TAKE fd \in loop'.r
  <2>1. fd \in Fd /\ pm.callbacks[fd] # NULL
    BY <1>1, <1>2 DEF IInv, LoopInv, LoopCurrent, Types, Loop
  <2>2. PICK c \in Conn : c = pm.callbacks[fd]
    BY <2>1 DEF IInv, Types, Manager
  <2>3. c \in Open /\ conn[c].fd = fd
    BY <2>1, <2>2 DEF IInv, WatchInv, Open
  <2>4. PICK d \in Open : conn[d].fd = fd /\ Input(d)
    BY <1>2 DEF Readable, OnFd, Input
  <2>5. c = d
    BY <2>3, <2>4 DEF IInv, RefInv
  <2> QED BY <2>1, <2>2, <2>4, <2>5
<1>4. \A c : Input(c)' = Input(c)
  BY <1>1 DEF Input
<1>5. LoopInv'
  <2> SUFFICES ASSUME ~loop.cut
               PROVE  LoopCurrent'
    BY <1>1 DEF LoopInv
  <2>1. loop'.pc \notin CbPc /\ loop'.pc \notin {"select", "writes", "write_cb"}
    BY <1>1 DEF CbPc
  <2>2. \A t \in Thread : thr'[t].pc \in RemovedPc => conn'[thr'[t].c].fd \notin loop'.r \cup loop'.w
    BY <1>1, <1>2 DEF IInv, LoopInv, LoopCurrent
  <2>3. \A fd \in loop'.r : pm'.callbacks[fd] # NULL /\ Input(pm.callbacks[fd])'
    BY <1>1, <1>3, <1>4 DEF Input
  <2> QED BY <2>1, <2>2, <2>3 DEF LoopCurrent, CbPc
<1>6. RemoverWillBeWoken'
  BY <1>1 DEF IInv, RemoverWillBeWoken
<1> QED BY <1>1, <1>5, <1>6, Looking DEF IInv

\* The callback the read loop finds is that of an open, registered connection.
LEMMA NextReadStep ==
  ASSUME IInv, NextRead
  PROVE  IInv'
<1>1. /\ Types /\ Types' /\ Looks /\ pm' = pm /\ loop.pc = "reads" /\ loop'.w = loop.w
      /\ thr' = thr /\ conn' = conn /\ io' = io /\ loop.r \in SUBSET Fd /\ loop'.cut = loop.cut
  BY NextReadEffect DEF IInv, Looks, Types, Loop
<1>2. RemoverWillBeWoken' /\ loop'.pc \in {"reads", "writes", "read_cb"}
  BY <1>1, NextReadEffect DEF IInv, RemoverWillBeWoken
<1>3. \A c : Input(c)' = Input(c)
  BY <1>1 DEF Input
<1>4. LoopInv'
  <2> SUFFICES ASSUME ~loop.cut
               PROVE  LoopCurrent'
    BY <1>1 DEF LoopInv
  <2>1. /\ \A t \in Thread : thr[t].pc \in RemovedPc => conn[thr[t].c].fd \notin loop.r \cup loop.w
        /\ \A fd \in loop.r : pm.callbacks[fd] # NULL /\ Input(pm.callbacks[fd])
    BY <1>1 DEF IInv, LoopInv, LoopCurrent
  <2>2. CASE loop.r = {} /\ loop'.r = {} /\ loop'.pc = "writes"
    BY <1>1, <2>1, <2>2 DEF LoopCurrent, CbPc
  <2>3. ASSUME NEW fd \in loop.r, loop'.r = loop.r \ {fd}, loop'.cur = pm.callbacks[fd],
               \/ pm.callbacks[fd] = NULL /\ loop'.pc = "reads"
               \/ pm.callbacks[fd] # NULL /\ loop'.pc = "read_cb"
        PROVE  LoopCurrent'
    <3>1. pm.callbacks[fd] # NULL /\ Input(pm.callbacks[fd]) /\ loop'.pc = "read_cb" /\ fd \in Fd
      BY <1>1, <2>1, <2>3
    <3>2. PICK c \in Conn : c = pm.callbacks[fd]
      BY <3>1 DEF IInv, Types, Manager
    <3>3. conn[c].st = "open" /\ conn[c].fd = fd
      BY <3>1, <3>2 DEF IInv, WatchInv
    <3>4. loop'.cur = c /\ Input(c)'
      BY <1>3, <2>3, <3>1, <3>2
    <3>5. \A t \in Thread : thr'[t].pc \in RemovedPc =>
            conn'[thr'[t].c].fd \notin loop'.r \cup loop'.w /\ loop'.cur # thr'[t].c
      BY <1>1, <2>1, <2>3, <3>3, <3>4
    <3>6. \A f \in loop'.r : pm'.callbacks[f] # NULL /\ Input(pm.callbacks[f])'
      BY <1>1, <1>3, <2>1, <2>3 DEF Input
    <3>7. Input(loop.cur)'
      BY <3>4 DEF Input
    <3> QED BY <1>1, <2>3, <3>1, <3>2, <3>3, <3>4, <3>5, <3>6, <3>7 DEF LoopCurrent, CbPc
  <2> QED BY <2>2, <2>3, NextReadEffect DEF IInv
<1> QED BY <1>1, <1>2, <1>4, Looking DEF IInv

\* The callback the write loop finds is that of an open, registered connection.
LEMMA NextWriteStep ==
  ASSUME IInv, NextWrite
  PROVE  IInv'
<1>1. /\ Types /\ Types' /\ Looks /\ pm' = pm /\ loop.pc = "writes" /\ loop'.r = loop.r
      /\ thr' = thr /\ conn' = conn /\ io' = io /\ loop.w \in SUBSET Fd /\ loop'.cut = loop.cut
  BY NextWriteEffect DEF IInv, Looks, Types, Loop
<1>2. RemoverWillBeWoken' /\ loop'.pc \in {"top", "writes", "write_cb"}
  BY <1>1, NextWriteEffect DEF IInv, RemoverWillBeWoken
<1>3. LoopInv'
  <2> SUFFICES ASSUME ~loop.cut
               PROVE  LoopCurrent'
    BY <1>1 DEF LoopInv
  <2>1. /\ \A t \in Thread : thr[t].pc \in RemovedPc => conn[thr[t].c].fd \notin loop.r \cup loop.w
        /\ loop.r = {}
    BY <1>1 DEF IInv, LoopInv, LoopCurrent
  <2>2. CASE loop'.pc = "top"
    BY <1>1, <2>1, <2>2 DEF LoopCurrent, CbPc
  <2>3. ASSUME NEW fd \in loop.w, loop'.w = loop.w \ {fd}, loop'.cur = pm.callbacks[fd],
               \/ pm.callbacks[fd] = NULL /\ loop'.pc = "writes"
               \/ pm.callbacks[fd] # NULL /\ loop'.pc = "write_cb"
        PROVE  LoopCurrent'
    <3>1. CASE pm.callbacks[fd] = NULL /\ loop'.pc = "writes"
      BY <1>1, <2>1, <2>3, <3>1 DEF LoopCurrent, CbPc
    <3>2. CASE pm.callbacks[fd] # NULL /\ loop'.pc = "write_cb"
      <4>1. PICK c \in Conn : c = pm.callbacks[fd]
        BY <1>1, <3>2 DEF IInv, Types, Manager
      <4>2. conn[c].st = "open" /\ conn[c].fd = fd
        BY <1>1, <3>2, <4>1 DEF IInv, WatchInv
      <4>3. \A t \in Thread : thr'[t].pc \in RemovedPc =>
              conn'[thr'[t].c].fd \notin loop'.r \cup loop'.w /\ loop'.cur # thr'[t].c
        BY <1>1, <2>1, <2>3, <4>1, <4>2
      <4> QED BY <1>1, <2>1, <2>3, <3>2, <4>1, <4>2, <4>3 DEF LoopCurrent, CbPc
    <3> QED BY <2>3, <3>1, <3>2
  <2> QED BY <2>2, <2>3, NextWriteEffect DEF IInv
<1> QED BY <1>1, <1>2, <1>3, Looking DEF IInv

\* The removers that wake up find the poll thread with no descriptors in its hands.
LEMMA LoopTopStep ==
  ASSUME IInv, LoopTop
  PROVE  IInv'
<1>1. /\ Types /\ Types' /\ conn' = conn /\ io' = io /\ conns' = conns /\ jobs' = jobs
      /\ loop.pc = "top" /\ loop'.pc = "copy"
      /\ pm'.rfds = pm.rfds /\ pm'.wfds = pm.wfds /\ pm'.callbacks = pm.callbacks
  BY LoopTopEffect DEF IInv
<1>2. \A t \in Thread :
        /\ thr'[t].c = thr[t].c
        /\ \/ thr'[t].pc = thr[t].pc /\ (pm.pending_change => thr[t].pc \notin Removing)
           \/ thr[t].pc = "send_removing" /\ thr'[t].pc = "send_removed"
           \/ thr[t].pc = "close_removing" /\ thr'[t].pc = "close_removed"
  BY LoopTopEffect DEF IInv
<1>3. SameObjects /\ SameRefs /\ SameDead /\ SameWatch /\ SameBufs /\ SameInput
  BY <1>1, <1>2 DEF SameObjects, SameRefs, SameDead, SameWatch, SameBufs, SameInput
<1>4. NoneEnters(KillPc) /\ NoneEnters(Removing \cup RemovedPc) /\ NoneLeaves(RemoverPc)
  BY <1>2 DEF NoneEnters, NoneLeaves, KillPc, RemoverPc, RemovePc, RemovedPc, Removing
<1>5. /\ NoneEnters(OwnPc) /\ NoneLeaves(OwnPc) /\ NoneEnters({"send_wait"})
      /\ NoneEnters({"send_complete"}) /\ NoneEnters({"send_signalled"})
      /\ NoneEnters(WaitPc) /\ NoneLeaves(WaitPc)
  BY <1>2 DEF NoneEnters, NoneLeaves, OwnPc, WaitPc
<1>6. RefInv' /\ KillInv' /\ WatchInv' /\ ByteInv' /\ WaitersInv'
  <2>1. RefInv'
    BY <1>1, <1>3, RefInvKept DEF IInv
  <2>2. KillInv'
    BY <1>3, <1>4, KillInvKept DEF IInv
  <2>3. WatchInv'
    BY <1>3, <1>4, WatchInvKept DEF IInv
  <2>4. ByteInv'
    BY <1>3, ByteInvKept DEF IInv
  <2>5. WaitersInv'
    BY <1>1, <1>3, <1>5, WaitersInvKept DEF IInv
  <2> QED BY <2>1, <2>2, <2>3, <2>4, <2>5
<1>7. BufInv'
  <2>1. pm.wfds \subseteq pm'.wfds /\ (thr[Owner].pc # "accept" => thr'[Owner].pc # "accept")
    BY <1>1, <1>2 DEF Thread
  <2> QED BY <1>3, <1>5, <2>1, BufInvKept DEF IInv
<1>8. LoopInv'
  BY <1>1 DEF LoopInv, LoopCurrent, CbPc
<1>9. RemoverWillBeWoken'
  <2>1. \A t \in Thread : thr'[t].pc \notin Removing
    BY <1>2 DEF IInv, RemoverWillBeWoken, Removing
  <2> QED BY <2>1 DEF RemoverWillBeWoken
<1> QED BY <1>1, <1>6, <1>7, <1>8, <1>9 DEF IInv

-----------------------------------------------------------------------------
(* Threads that move *)

AllPc == {"idle", "accept", "closing", "done"} \cup SendPc \cup ClosePc

\* Moves inside send and inside closeconn keep the types.
LEMMA ThreadTypesKept ==
  ASSUME Types, thr' \in [Thread -> [pc : AllPc, c : Conn \cup {NULL}]],
         \A u \in Thread : thr'[u].c = thr[u].c,
         \A u \in Worker : \/ thr'[u].pc = thr[u].pc
                           \/ thr[u].pc \in SendPc /\ thr'[u].pc \in SendPc,
         \/ thr'[Owner].pc = thr[Owner].pc
         \/ thr[Owner].pc \in ClosePc /\ thr'[Owner].pc \in ClosePc
         \/ thr[Owner].pc \in {"accept", "closing", "done"} /\ thr'[Owner].pc \in {"accept", "closing", "done"}
  PROVE  ThreadTypes'
<1>1. \A t \in Worker : \/ thr'[t].pc = "idle" /\ thr'[t].c = NULL
                        \/ thr'[t].pc \in SendPc /\ thr'[t].c \in Conn
  BY DEF Types, ThreadTypes, Thread, SendPc, OwnPc
<1>2. \/ thr'[Owner].pc \in {"accept", "closing", "done"} /\ thr'[Owner].c = NULL
      \/ thr'[Owner].pc \in ClosePc /\ thr'[Owner].c \in Conn
  BY DEF Types, ThreadTypes, Thread, ClosePc
<1> QED BY <1>1, <1>2 DEF ThreadTypes, AllPc

\* Goto moves one thread and leaves it its connection.
LEMMA GotoEffect ==
  ASSUME Types, NEW t \in Thread, NEW p, Goto(t, p),
         \/ t \in Worker /\ thr[t].pc \in SendPc /\ p \in SendPc
         \/ t = Owner /\ thr[t].pc \in ClosePc /\ p \in ClosePc
         \/ t = Owner /\ thr[t].pc \in {"accept", "closing", "done"} /\ p \in {"accept", "closing", "done"}
  PROVE  /\ ThreadTypes' /\ thr'[t].pc = p
         /\ \A u \in Thread : thr'[u].c = thr[u].c /\ (u # t => thr'[u] = thr[u])
<1>1. thr \in [Thread -> [pc : AllPc, c : Conn \cup {NULL}]]
  BY DEF Types, ThreadTypes, AllPc
<1>2. p \in AllPc /\ Owner \notin Worker
  BY DEF AllPc
<1>3. [thr[t] EXCEPT !.pc = p] \in [pc : AllPc, c : Conn \cup {NULL}]
  BY <1>1, <1>2
<1>4. thr' = [thr EXCEPT ![t] = [thr[t] EXCEPT !.pc = p]]
  BY <1>1 DEF Goto
<1>5. thr' \in [Thread -> [pc : AllPc, c : Conn \cup {NULL}]]
  BY <1>1, <1>3, <1>4
<1>6. thr'[t].pc = p /\ \A u \in Thread : thr'[u].c = thr[u].c /\ (u # t => thr'[u] = thr[u])
  BY <1>1, <1>4
<1>7. ThreadTypes'
  BY <1>2, <1>5, <1>6, ThreadTypesKept DEF Thread
<1> QED BY <1>6, <1>7

\* The end of send: t goes on, the waiters of c are woken when k counts any.
Wakes(t, c, k) ==
  thr' = [u \in Thread |->
            IF u = t THEN [thr[t] EXCEPT !.pc = "sent"]
            ELSE IF u \in Waiting(c) /\ k > 0
            THEN [thr[u] EXCEPT !.pc = "send_woken"] ELSE thr[u]]

\* The end of send: the thread returns and up to k waiters of its connection wake up.
LEMMA WakeEffect ==
  ASSUME Types, NEW t \in Worker, thr[t].pc \in SendPc, NEW c, NEW k, Wakes(t, c, k)
  PROVE  /\ ThreadTypes' /\ thr'[t].pc = "sent"
         /\ \A u \in Thread : thr'[u].c = thr[u].c
         /\ \A u \in Thread \ {t} :
              \/ thr'[u] = thr[u] /\ ~(u \in Waiting(c) /\ k > 0)
              \/ u \in Waiting(c) /\ thr[u].pc = "send_wait" /\ thr'[u].pc = "send_woken"
<1>1. thr \in [Thread -> [pc : AllPc, c : Conn \cup {NULL}]] /\ t \in Thread
  BY DEF Types, ThreadTypes, AllPc, Thread
<1>2. "sent" \in AllPc /\ "send_woken" \in AllPc /\ {"sent", "send_woken", "send_wait"} \subseteq SendPc
  BY DEF AllPc, SendPc
<1>3. ASSUME NEW u \in Thread
      PROVE  /\ thr'[u] \in [pc : AllPc, c : Conn \cup {NULL}] /\ thr'[u].c = thr[u].c
             /\ u = t => thr'[u].pc = "sent"
             /\ u # t => \/ thr'[u] = thr[u] /\ ~(u \in Waiting(c) /\ k > 0)
                         \/ /\ u \in Waiting(c)
                            /\ thr[u].pc = "send_wait" /\ thr'[u].pc = "send_woken"
  <2>1. thr[u] \in [pc : AllPc, c : Conn \cup {NULL}]
    BY <1>1
  <2>2. CASE u = t
    BY <1>2, <2>1, <2>2 DEF Wakes
  <2>3. CASE u # t /\ u \in Waiting(c) /\ k > 0
    <3>1. thr'[u] = [thr[u] EXCEPT !.pc = "send_woken"]
      BY <2>3 DEF Wakes
    <3> QED BY <1>2, <2>1, <2>3, <3>1 DEF Waiting
  <2>4. CASE u # t /\ ~(u \in Waiting(c) /\ k > 0)
    BY <2>1, <2>4 DEF Wakes
  <2> QED BY <2>2, <2>3, <2>4
<1>4. thr' \in [Thread -> [pc : AllPc, c : Conn \cup {NULL}]]
  BY <1>3 DEF Wakes
<1>5. \A u \in Worker : \/ thr'[u].pc = thr[u].pc
                        \/ thr[u].pc \in SendPc /\ thr'[u].pc \in SendPc
  BY <1>2, <1>3 DEF Thread
<1>6. thr'[Owner].pc = thr[Owner].pc
  BY <1>3 DEF Thread, Waiting
<1>7. ThreadTypes'
  BY <1>3, <1>4, <1>5, <1>6, ThreadTypesKept
<1> QED BY <1>1, <1>3, <1>7

\* The sender that sleeps on send_complete_ is woken.
LEMMA SignalEffect ==
  ASSUME Types, NEW c, SignalComplete(c)
  PROVE  /\ ThreadTypes'
         /\ \A u \in Thread :
              /\ thr'[u].c = thr[u].c
              /\ \/ thr'[u] = thr[u] /\ ~(thr[u].c = c /\ thr[u].pc = "send_complete")
                 \/ /\ thr[u].c = c /\ thr[u].pc = "send_complete"
                    /\ thr'[u].pc = "send_signalled"
<1>1. thr \in [Thread -> [pc : AllPc, c : Conn \cup {NULL}]]
  BY DEF Types, ThreadTypes, AllPc
<1>2. "send_signalled" \in AllPc /\ {"send_complete", "send_signalled"} \subseteq SendPc
  BY DEF AllPc, SendPc, OwnPc
<1>3. ASSUME NEW u \in Thread
      PROVE  /\ thr'[u] \in [pc : AllPc, c : Conn \cup {NULL}] /\ thr'[u].c = thr[u].c
             /\ \/ thr'[u] = thr[u] /\ ~(thr[u].c = c /\ thr[u].pc = "send_complete")
                \/ /\ thr[u].c = c /\ thr[u].pc = "send_complete"
                   /\ thr'[u].pc = "send_signalled"
  <2>1. thr[u] \in [pc : AllPc, c : Conn \cup {NULL}]
    BY <1>1
  <2>2. CASE thr[u].c = c /\ thr[u].pc = "send_complete"
    <3>1. thr'[u] = [thr[u] EXCEPT !.pc = "send_signalled"]
      BY <2>2 DEF SignalComplete
    <3> QED BY <1>2, <2>1, <2>2, <3>1
  <2>3. CASE ~(thr[u].c = c /\ thr[u].pc = "send_complete")
    BY <2>1, <2>3 DEF SignalComplete
  <2> QED BY <2>2, <2>3
<1>4. thr' \in [Thread -> [pc : AllPc, c : Conn \cup {NULL}]]
  BY <1>3 DEF SignalComplete
<1>5. \A u \in Worker : \/ thr'[u].pc = thr[u].pc
                        \/ thr[u].pc \in SendPc /\ thr'[u].pc \in SendPc
  BY <1>2, <1>3 DEF Thread
<1>6. thr'[Owner].pc = thr[Owner].pc
  <2>1. thr[Owner].pc # "send_complete"
    BY DEF Types, ThreadTypes, ClosePc
  <2> QED BY <1>3, <2>1 DEF Thread
<1>7. ThreadTypes'
  BY <1>3, <1>4, <1>5, <1>6, ThreadTypesKept
<1> QED BY <1>3, <1>7

-----------------------------------------------------------------------------
(* The steps of send *)

\* What every step of a send on c leaves alone.
SendFrame(c) ==
  /\ UNCHANGED <<loop, conns, jobs>>
  /\ \A d \in Conn :
       /\ conn'[d].st = conn[d].st /\ conn'[d].fd = conn[d].fd /\ conn'[d].refno = conn[d].refno
       /\ conn'[d].rpdu = conn[d].rpdu /\ (conn[d].dead => conn'[d].dead)
       /\ io'[d].inq = io[d].inq /\ io'[d].sent = io[d].sent /\ io'[d].got = io[d].got
       /\ io'[d].eof = io[d].eof /\ (io[d].down => io'[d].down)
  /\ \A d \in Conn : d # c => conn'[d] = conn[d] /\ io'[d] = io[d]
  /\ \A t \in Thread : thr'[t].c = thr[t].c

\* One connection object and its socket are replaced.
LEMMA OneObject ==
  ASSUME Types, NEW c \in Conn, NEW o \in Object, NEW s \in Socket,
         conn' = [conn EXCEPT ![c] = o], io' = [io EXCEPT ![c] = s]
  PROVE  /\ conn' \in [Conn -> Object] /\ io' \in [Conn -> Socket]
         /\ conn'[c] = o /\ io'[c] = s
         /\ \A d \in Conn : d # c => conn'[d] = conn[d] /\ io'[d] = io[d]
<1>1. conn \in [Conn -> Object] /\ io \in [Conn -> Socket]
  BY DEF Types
<1> QED BY <1>1

\* A record that differs in the fields a send may change.
SendObject(o, p) ==
  /\ p.st = o.st /\ p.fd = o.fd /\ p.refno = o.refno /\ p.rpdu = o.rpdu /\ (o.dead => p.dead)
SendSocket(o, p) ==
  /\ p.inq = o.inq /\ p.sent = o.sent /\ p.got = o.got /\ p.eof = o.eof /\ (o.down => p.down)

\* What a step of send leaves alone, from the object and the socket it writes.
LEMMA SendFrames ==
  ASSUME Types, NEW c \in Conn, NEW o \in Object, NEW s \in Socket,
         conn' = [conn EXCEPT ![c] = o], io' = [io EXCEPT ![c] = s],
         SendObject(conn[c], o), SendSocket(io[c], s),
         UNCHANGED <<loop, conns, jobs, aborted>>, pm' \in Manager, ThreadTypes',
         \A u \in Thread : thr'[u].c = thr[u].c
  PROVE  Types' /\ SendFrame(c) /\ conn'[c] = o /\ io'[c] = s
<1>1. /\ conn' \in [Conn -> Object] /\ io' \in [Conn -> Socket]
      /\ conn'[c] = o /\ io'[c] = s
      /\ \A d \in Conn : d # c => conn'[d] = conn[d] /\ io'[d] = io[d]
  BY OneObject
<1>2. SendFrame(c)
  BY <1>1 DEF SendFrame, SendObject, SendSocket
<1>3. Types'
  BY <1>1 DEF Types
<1> QED BY <1>1, <1>2, <1>3

\* ... and nothing of the socket.
LEMMA SendFramesConn ==
  ASSUME Types, NEW c \in Conn, NEW o \in Object,
         conn' = [conn EXCEPT ![c] = o], io' = io, SendObject(conn[c], o),
         UNCHANGED <<loop, conns, jobs, aborted>>, pm' \in Manager, ThreadTypes',
         \A u \in Thread : thr'[u].c = thr[u].c
  PROVE  Types' /\ SendFrame(c) /\ conn'[c] = o
<1>1. io \in [Conn -> Socket] /\ io[c] \in Socket
  BY DEF Types
<1>2. io' = [io EXCEPT ![c] = io[c]]
  BY <1>1
<1>3. SendSocket(io[c], io[c])
  BY DEF SendSocket
<1> QED BY <1>1, <1>2, <1>3, SendFrames

\* No step of send changes a reference or reads.
LEMMA SendFrameKeeps ==
  ASSUME IInv, Types', NEW c \in Conn, conn[c].st = "open", SendFrame(c)
  PROVE  SameObjects /\ SameRefs /\ SameInput /\ RefInv' /\ ByteInv'
<1>1. SameObjects
  BY DEF SendFrame, SameObjects
<1>2. SameRefs
  BY DEF SendFrame, SameRefs
<1>3. SameInput
  <2> SUFFICES ASSUME NEW d \in Conn
               PROVE  /\ conn'[d].rpdu = conn[d].rpdu /\ io'[d].inq = io[d].inq
                      /\ io'[d].sent = io[d].sent /\ io'[d].got = io[d].got
                      /\ conn[d].st # "open" => io'[d] = io[d]
    BY DEF SameInput
  <2>1. conn[d].st # "open" => d # c
    OBVIOUS
  <2> QED BY <2>1 DEF SendFrame
<1> QED BY <1>1, <1>2, <1>3, RefInvKept, ByteInvKept DEF IInv

\* A step of send that unregisters nothing keeps LoopInv.
LEMMA SendFrameLoop ==
  ASSUME IInv, Types', NEW c \in Conn, SendFrame(c), NoneEnters(RemovedPc),
         \A fd \in Fd : pm.callbacks[fd] # NULL => pm'.callbacks[fd] = pm.callbacks[fd]
  PROVE  LoopInv'
<1>1. StillRegistered
  <2> SUFFICES ASSUME NEW fd \in Fd, NEW d \in Conn, pm.callbacks[fd] = d
               PROVE  /\ pm'.callbacks[fd] = d /\ conn'[d].st = conn[d].st
                      /\ conn'[d].fd = conn[d].fd /\ (Input(d) => Input(d)')
    BY DEF StillRegistered
  <2> QED BY DEF SendFrame, Input
<1>2. \A t \in Thread : thr[t].pc \in RemovedPc => conn'[thr[t].c].fd = conn[thr[t].c].fd
  <2> TAKE t \in Thread
  <2> HAVE thr[t].pc \in RemovedPc
  <2>1. thr[t].c \in Conn
    BY HasConn, Places DEF IInv
  <2> QED BY <2>1 DEF SendFrame
<1>3. \A d \in Open : conn[d].fd \in Fd
  BY DEF IInv, RefInv
<1>4. loop' = loop
  BY DEF SendFrame
<1> QED BY <1>1, <1>2, <1>3, <1>4, LoopInvKept DEF IInv

\* One worker's place changes in the count of the waiters of c.
LEMMA WaiterMoves ==
  ASSUME Types, WaitersInv, NEW c \in Conn, NEW t \in Worker, thr[t].c = c, SendFrame(c),
         conn[c].st = "open",
         \A u \in Worker \ {t} : thr'[u].pc \in WaitPc <=> thr[u].pc \in WaitPc,
         conn'[c].waiters = conn[c].waiters + Ind(thr'[t].pc \in WaitPc) - Ind(thr[t].pc \in WaitPc)
  PROVE  WaitersInv'
<1>1. \A u \in Worker : thr'[u].c = thr[u].c
  BY DEF SendFrame, Thread
<1>2. ASSUME NEW d \in Conn, d # c
      PROVE  WaitAt(thr', d) = WaitAt(thr, d)
  BY <1>1, <1>2 DEF WaitAt
<1>3. Cardinality(WaitAt(thr', c)) = Cardinality(WaitAt(thr, c)) + Ind(thr'[t].pc \in WaitPc)
                                       - Ind(thr[t].pc \in WaitPc)
  <2>1. WaitAt(thr, c) \in SUBSET Worker /\ WaitAt(thr', c) \in SUBSET Worker
    BY DEF WaitAt
  <2>2. \A x \in Worker \ {t} : x \in WaitAt(thr, c) <=> x \in WaitAt(thr', c)
    BY <1>1 DEF WaitAt
  <2>3. Cardinality(WaitAt(thr', c)) = Cardinality(WaitAt(thr, c)) + Ind(t \in WaitAt(thr', c))
                                         - Ind(t \in WaitAt(thr, c))
    BY <2>1, <2>2, OneChanges
  <2>4. (t \in WaitAt(thr', c) <=> thr'[t].pc \in WaitPc) /\ (t \in WaitAt(thr, c) <=> thr[t].pc \in WaitPc)
    BY <1>1 DEF WaitAt
  <2> QED BY <2>3, <2>4 DEF Ind
<1>4. \A d \in Open' : conn'[d].waiters = Cardinality(WaitAt(thr', d))
  <2> TAKE d \in Open'
  <2>1. d \in Open /\ d \in Conn
    BY DEF Open, SendFrame
  <2>2. conn[d].waiters = Cardinality(WaitAt(thr, d))
    BY <2>1, WaitersDef
  <2>3. d # c => conn'[d] = conn[d]
    BY <2>1 DEF SendFrame
  <2> QED BY <1>2, <1>3, <2>1, <2>2, <2>3
<1> QED BY <1>4, WaitersDef

\* A thread that waits is counted.
LEMMA WaiterCounted ==
  ASSUME WaitersInv, NEW c \in Conn, conn[c].st = "open", NEW u \in Waiting(c)
  PROVE  conn[c].waiters > 0
<1>1. u \in WaitAt(thr, c) /\ WaitAt(thr, c) \in SUBSET Worker
  BY DEF Waiting, WaitAt, WaitPc
<1>2. IsFiniteSet(WaitAt(thr, c))
  BY <1>1, FS_Subset
<1>3. Cardinality(WaitAt(thr, c)) \in Nat /\ Cardinality(WaitAt(thr, c)) # 0
  BY <1>1, <1>2, FS_CardinalityType, FS_EmptySet
<1>4. conn[c].waiters = Cardinality(WaitAt(thr, c))
  BY WaitersDef DEF Open
<1> QED BY <1>3, <1>4

\* The context of a step of send or closeconn: t is inside it on c.
SendCtx(t, c) == /\ t \in Thread /\ c \in Conn /\ thr[t].c = c /\ conn[c].st = "open"
                 /\ UNCHANGED <<loop, conns, jobs, aborted>>

\* send finds the connection dead and returns.
LEMMA SendDeadEffect ==
  ASSUME Types, NEW t \in Worker, NEW c, SendCtx(t, c), SendDead(t, c)
  PROVE  /\ Types' /\ SendFrame(c) /\ pm' = pm /\ AtSend(t) /\ thr'[t].pc = "sent"
         /\ conn'[c].waiters = Unwait(t, c) /\ conn'[c].dead = conn[c].dead
         /\ conn'[c].buf = conn[c].buf /\ conn'[c].wpdu = conn[c].wpdu
         /\ \A u \in Thread : u # t => thr'[u] = thr[u]
<1>1. t \in Thread /\ t \in Worker /\ c \in Conn /\ thr[t].pc \in SendPc /\ "sent" \in SendPc
  BY DEF SendCtx, SendDead, AtSend, Thread, SendPc
<1>2. /\ ThreadTypes' /\ thr'[t].pc = "sent"
      /\ \A u \in Thread : thr'[u].c = thr[u].c /\ (u # t => thr'[u] = thr[u])
  BY <1>1, GotoEffect DEF SendDead
<1> DEFINE o == [conn[c] EXCEPT !.waiters = Unwait(t, c)]
<1>3. conn \in [Conn -> Object] /\ conn[c] \in Object
  BY <1>1 DEF Types
<1>4. Unwait(t, c) \in Int
  BY <1>3 DEF Unwait, Object
<1>5. o \in Object /\ SendObject(conn[c], o) /\ o.waiters = Unwait(t, c)
      /\ o.dead = conn[c].dead /\ o.buf = conn[c].buf /\ o.wpdu = conn[c].wpdu
  BY <1>3, <1>4 DEF Object, SendObject
<1>6. conn' = [conn EXCEPT ![c] = o] /\ io' = io /\ pm' = pm /\ pm \in Manager
  BY <1>3 DEF SendDead, Types
<1> HIDE DEF o
<1>7. Types' /\ SendFrame(c) /\ conn'[c] = o
  BY <1>1, <1>2, <1>5, <1>6, SendFramesConn DEF SendCtx
<1> QED BY <1>2, <1>5, <1>6, <1>7 DEF SendDead

\* send finds the buffer in use and waits.
LEMMA SendBlockedEffect ==
  ASSUME Types, NEW t \in Worker, NEW c, SendCtx(t, c), SendBlocked(t, c)
  PROVE  /\ Types' /\ SendFrame(c) /\ pm' = pm /\ AtSend(t) /\ thr'[t].pc = "send_wait"
         /\ conn[c].buf
         /\ conn'[c].waiters = Unwait(t, c) + 1 /\ conn'[c].dead = conn[c].dead
         /\ conn'[c].buf = conn[c].buf /\ conn'[c].wpdu = conn[c].wpdu
         /\ \A u \in Thread : u # t => thr'[u] = thr[u]
<1>1. t \in Thread /\ t \in Worker /\ c \in Conn /\ thr[t].pc \in SendPc /\ "send_wait" \in SendPc
  BY DEF SendCtx, SendBlocked, AtSend, Thread, SendPc
<1>2. /\ ThreadTypes' /\ thr'[t].pc = "send_wait"
      /\ \A u \in Thread : thr'[u].c = thr[u].c /\ (u # t => thr'[u] = thr[u])
  BY <1>1, GotoEffect DEF SendBlocked
<1> DEFINE o == [conn[c] EXCEPT !.waiters = Unwait(t, c) + 1]
<1>3. conn \in [Conn -> Object] /\ conn[c] \in Object
  BY <1>1 DEF Types
<1>4. Unwait(t, c) \in Int
  BY <1>3 DEF Unwait, Object
<1>5. o \in Object /\ SendObject(conn[c], o) /\ o.waiters = Unwait(t, c) + 1
      /\ o.dead = conn[c].dead /\ o.buf = conn[c].buf /\ o.wpdu = conn[c].wpdu
  BY <1>3, <1>4 DEF Object, SendObject
<1>6. conn' = [conn EXCEPT ![c] = o] /\ io' = io /\ pm' = pm /\ pm \in Manager
  BY <1>3 DEF SendBlocked, Types
<1> HIDE DEF o
<1>7. Types' /\ SendFrame(c) /\ conn'[c] = o
  BY <1>1, <1>2, <1>5, <1>6, SendFramesConn DEF SendCtx
<1> QED BY <1>2, <1>5, <1>6, <1>7 DEF SendBlocked

\* The first write takes the whole PDU.
LEMMA SendWholeEffect ==
  ASSUME Types, NEW t \in Worker, NEW c, SendCtx(t, c), AtSend(t), SendWhole(t, c)
  PROVE  /\ Types' /\ SendFrame(c) /\ pm' = pm /\ thr'[t].pc = "sent"
         /\ conn'[c].waiters = Unwait(t, c) /\ conn'[c].dead = conn[c].dead
         /\ conn'[c].buf = conn[c].buf /\ conn'[c].wpdu = conn[c].wpdu
         /\ \A u \in Thread \ {t} :
              \/ thr'[u] = thr[u]
              \/ u \in Waiting(c) /\ thr[u].pc = "send_wait" /\ thr'[u].pc = "send_woken"
<1>1. t \in Thread /\ t \in Worker /\ c \in Conn /\ thr[t].pc \in SendPc
  BY DEF SendCtx, AtSend, Thread, SendPc
<1>2. /\ ThreadTypes' /\ thr'[t].pc = "sent"
      /\ \A u \in Thread : thr'[u].c = thr[u].c
      /\ \A u \in Thread \ {t} :
           \/ thr'[u] = thr[u]
           \/ u \in Waiting(c) /\ thr[u].pc = "send_wait" /\ thr'[u].pc = "send_woken"
  <2>1. Wakes(t, c, Unwait(t, c))
    BY DEF SendWhole, Wakes
  <2> QED BY <1>1, <2>1, WakeEffect
<1> DEFINE o == [conn[c] EXCEPT !.waiters = Unwait(t, c)]
<1>3. conn \in [Conn -> Object] /\ conn[c] \in Object /\ io \in [Conn -> Socket] /\ io[c] \in Socket
  BY <1>1 DEF Types
<1>4. Unwait(t, c) \in Int
  BY <1>3 DEF Unwait, Object
<1>5. o \in Object /\ SendObject(conn[c], o) /\ o.waiters = Unwait(t, c)
      /\ o.dead = conn[c].dead /\ o.buf = conn[c].buf /\ o.wpdu = conn[c].wpdu
  BY <1>3, <1>4 DEF Object, SendObject
<1>6. conn' = [conn EXCEPT ![c] = o] /\ pm' = pm /\ pm \in Manager
  BY <1>3 DEF SendWhole, Types
<1> HIDE DEF o
<1>7. PICK sz \in RepSizes : io' = [io EXCEPT ![c].room = @ - sz]
  BY DEF SendWhole
<1> DEFINE s == [io[c] EXCEPT !.room = @ - sz]
<1>8. sz \in Int
  OBVIOUS
<1>9. s \in Socket /\ SendSocket(io[c], s)
  BY <1>3, <1>8 DEF Socket, SendSocket
<1>10. io' = [io EXCEPT ![c] = s]
  BY <1>3, <1>7
<1> HIDE DEF s
<1>11. Types' /\ SendFrame(c) /\ conn'[c] = o
  BY <1>1, <1>2, <1>5, <1>6, <1>9, <1>10, SendFrames DEF SendCtx
<1> QED BY <1>2, <1>5, <1>6, <1>11

\* The first write takes a part: the sender keeps the buffer and asks for write_cb.
LEMMA SendPartEffect ==
  ASSUME Types, NEW t \in Worker, NEW c, SendCtx(t, c), AtSend(t), SendPart(t, c), conn[c].fd \in Fd
  PROVE  /\ Types' /\ SendFrame(c) /\ thr'[t].pc = "send_complete"
         /\ conn'[c].waiters = Unwait(t, c) /\ conn'[c].dead = conn[c].dead
         /\ conn'[c].buf /\ conn'[c].wpdu.solong \in 0 .. conn'[c].wpdu.sz
         /\ conn'[c].wpdu.solong < conn'[c].wpdu.sz
         /\ \A u \in Thread : u # t => thr'[u] = thr[u]
         /\ pm'.rfds = pm.rfds /\ pm'.wfds = pm.wfds \cup {conn[c].fd}
         /\ pm'.callbacks = [pm.callbacks EXCEPT ![conn[c].fd] = c]
         /\ pm'.pending_change = pm.pending_change /\ pm'.pipe = pm.pipe + 1
<1>1. t \in Thread /\ t \in Worker /\ c \in Conn /\ thr[t].pc \in SendPc /\ "send_complete" \in SendPc
  BY DEF SendCtx, AtSend, Thread, SendPc, OwnPc
<1>2. /\ ThreadTypes' /\ thr'[t].pc = "send_complete"
      /\ \A u \in Thread : thr'[u].c = thr[u].c /\ (u # t => thr'[u] = thr[u])
  BY <1>1, GotoEffect DEF SendPart
<1>3. conn \in [Conn -> Object] /\ conn[c] \in Object /\ io \in [Conn -> Socket] /\ io[c] \in Socket
  BY <1>1 DEF Types
<1>4. Unwait(t, c) \in Int
  BY <1>3 DEF Unwait, Object
<1>5. PICK sz \in RepSizes : \E n \in WriteResults(io[c], sz) :
        /\ n \in 0 .. sz - 1
        /\ io' = [io EXCEPT ![c].room = @ - n]
        /\ conn' = [conn EXCEPT ![c].waiters = Unwait(t, c), ![c].buf = TRUE,
                                ![c].wpdu = [sz |-> sz, solong |-> n]]
  BY DEF SendPart
<1>20. PICK n \in 0 .. sz - 1 :
        /\ io' = [io EXCEPT ![c].room = @ - n]
        /\ conn' = [conn EXCEPT ![c].waiters = Unwait(t, c), ![c].buf = TRUE,
                                ![c].wpdu = [sz |-> sz, solong |-> n]]
  BY <1>5
<1> DEFINE w == [sz |-> sz, solong |-> n]
           o == [conn[c] EXCEPT !.waiters = Unwait(t, c), !.buf = TRUE, !.wpdu = w]
           s == [io[c] EXCEPT !.room = @ - n]
<1>6. sz \in Nat /\ n \in Int /\ 0 <= n /\ n < sz
  BY <1>20
<1>7. w \in WPdu /\ w.solong = n /\ w.sz = sz
  BY <1>6 DEF WPdu
<1>8. io' = [io EXCEPT ![c] = s] /\ conn' = [conn EXCEPT ![c] = o]
  BY <1>3, <1>20
<1> HIDE DEF w
<1>9. o \in Object /\ SendObject(conn[c], o) /\ o.waiters = Unwait(t, c)
      /\ o.dead = conn[c].dead /\ o.buf /\ o.wpdu = w
  BY <1>3, <1>4, <1>7 DEF Object, SendObject
<1>10. s \in Socket /\ SendSocket(io[c], s)
  BY <1>3, <1>6 DEF Socket, SendSocket
<1> HIDE DEF o, s
<1>11. /\ pm' \in Manager /\ pm'.rfds = pm.rfds /\ pm'.wfds = pm.wfds \cup {conn[c].fd}
       /\ pm'.callbacks = [pm.callbacks EXCEPT ![conn[c].fd] = c]
       /\ pm'.pending_change = pm.pending_change /\ pm'.pipe = pm.pipe + 1
  <2> DEFINE q == [pm EXCEPT !.wfds = @ \cup {conn[c].fd}, !.pipe = @ + 1]
  <2>1. pm \in Manager
    BY DEF Types
  <2>2. watch_fd(pm, conn[c].fd, FALSE, TRUE) = q
    BY <2>1 DEF watch_fd, Manager
  <2>3. /\ q \in Manager /\ q.rfds = pm.rfds /\ q.wfds = pm.wfds \cup {conn[c].fd}
        /\ q.callbacks = pm.callbacks /\ q.pending_change = pm.pending_change /\ q.pipe = pm.pipe + 1
    <3>1. pm.wfds \cup {conn[c].fd} \in SUBSET Fd /\ pm.pipe + 1 \in Nat
      BY <2>1 DEF Manager
    <3> QED BY <2>1, <3>1 DEF Manager
  <2> HIDE DEF q
  <2>4. pm' = [q EXCEPT !.callbacks[conn[c].fd] = c]
    BY <2>2 DEF SendPart, add_callback
  <2>5. [q.callbacks EXCEPT ![conn[c].fd] = c] \in [Fd -> Conn \cup {NULL}]
    BY <1>1, <2>3 DEF Manager
  <2> QED BY <2>3, <2>4, <2>5 DEF Manager
<1>12. Types' /\ SendFrame(c) /\ conn'[c] = o
  <2>1. \A u \in Thread : thr'[u].c = thr[u].c
    BY <1>2
  <2>2. UNCHANGED <<loop, conns, jobs, aborted>> /\ pm' \in Manager /\ ThreadTypes'
    BY <1>2, <1>11 DEF SendCtx
  <2> QED BY <1>1, <2>1, <2>2, <1>8, <1>9, <1>10, SendFrames
<1> QED BY <1>2, <1>6, <1>7, <1>9, <1>11, <1>12

\* The first write fails: the sender declares the connection dead.
LEMMA SendFailsEffect ==
  ASSUME Types, NEW t \in Worker, NEW c, SendCtx(t, c), AtSend(t), SendFails(t, c)
  PROVE  /\ Types' /\ SendFrame(c) /\ pm' = pm /\ thr'[t].pc = "send_remove"
         /\ conn'[c].waiters = Unwait(t, c) /\ conn'[c].dead /\ conn'[c].buf
         /\ \A u \in Thread : u # t => thr'[u] = thr[u]
<1>1. t \in Thread /\ t \in Worker /\ c \in Conn /\ thr[t].pc \in SendPc /\ "send_remove" \in SendPc
  BY DEF SendCtx, AtSend, Thread, SendPc, OwnPc
<1>2. /\ ThreadTypes' /\ thr'[t].pc = "send_remove"
      /\ \A u \in Thread : thr'[u].c = thr[u].c /\ (u # t => thr'[u] = thr[u])
  BY <1>1, GotoEffect DEF SendFails
<1>3. conn \in [Conn -> Object] /\ conn[c] \in Object /\ io \in [Conn -> Socket] /\ io[c] \in Socket
  BY <1>1 DEF Types
<1>4. Unwait(t, c) \in Int
  BY <1>3 DEF Unwait, Object
<1>5. PICK loss \in {FALSE, Lossy} : io' = [io EXCEPT ![c].down = @ \/ loss]
  BY DEF SendFails
<1> DEFINE w == [sz |-> 0, solong |-> -1]
           o == [conn[c] EXCEPT !.waiters = Unwait(t, c), !.buf = TRUE, !.wpdu = w, !.dead = TRUE]
           s == [io[c] EXCEPT !.down = @ \/ loss]
<1>6. w \in WPdu
  BY DEF WPdu
<1>7. io' = [io EXCEPT ![c] = s] /\ conn' = [conn EXCEPT ![c] = o]
  <2>1. io' = [io EXCEPT ![c] = s]
    BY <1>3, <1>5
  <2>2. conn' = [conn EXCEPT ![c].waiters = Unwait(t, c), ![c].buf = TRUE, ![c].dead = TRUE,
                             ![c].wpdu = w]
    BY DEF SendFails
  <2>3. conn' = [conn EXCEPT ![c] = o]
    BY <1>3, <2>2
  <2> QED BY <2>1, <2>3
<1> HIDE DEF w
<1>8. o \in Object /\ SendObject(conn[c], o) /\ o.waiters = Unwait(t, c) /\ o.dead /\ o.buf
  BY <1>3, <1>4, <1>6 DEF Object, SendObject
<1>9. s \in Socket /\ SendSocket(io[c], s)
  <2>1. (io[c].down \/ loss) \in BOOLEAN
    BY <1>3, <1>5 DEF Socket
  <2> QED BY <1>3, <2>1 DEF Socket, SendSocket
<1> HIDE DEF o, s
<1>10. pm' = pm /\ pm \in Manager
  BY DEF SendFails, Types
<1>11. Types' /\ SendFrame(c) /\ conn'[c] = o
  <2>1. \A u \in Thread : thr'[u].c = thr[u].c
    BY <1>2
  <2>2. UNCHANGED <<loop, conns, jobs, aborted>>
    BY DEF SendCtx
  <2>3. ThreadTypes' /\ pm' \in Manager
    BY <1>2, <1>10
  <2> QED BY <1>1, <2>1, <2>2, <2>3, <1>7, <1>8, <1>9, SendFrames
<1> QED BY <1>2, <1>8, <1>10, <1>11

\* block_remove_fd: the descriptor is unwatched and the poll thread woken.
LEMMA RemoveFdEffect ==
  ASSUME Types, NEW t, NEW c, SendCtx(t, c), RemoveFd(t, c)
  PROVE  /\ Types' /\ SendFrame(c) /\ conn' = conn /\ io' = io
         /\ thr[t].pc \in RemovePc /\ thr'[t].pc \in Removing
         /\ t \in Worker => thr'[t].pc = "send_removing" /\ thr[t].pc = "send_remove"
         /\ t = Owner => thr'[t].pc = "close_removing"
         /\ \A u \in Thread : u # t => thr'[u] = thr[u]
         /\ pm'.rfds = pm.rfds \ {conn[c].fd} /\ pm'.wfds = pm.wfds \ {conn[c].fd}
         /\ pm'.callbacks = pm.callbacks /\ pm'.pending_change /\ pm'.pipe = pm.pipe + 1
<1>1. t \in Thread /\ c \in Conn /\ thr[t].pc \in RemovePc
  BY DEF SendCtx, RemoveFd, RemovePc
<1>2. /\ t \in Worker => thr[t].pc \in SendPc /\ thr[t].pc = "send_remove"
      /\ t = Owner => thr[t].pc \in ClosePc
  BY <1>1 DEF Types, ThreadTypes, SendPc, ClosePc, OwnPc, RemovePc
<1>3. "send_removing" \in SendPc /\ "close_removing" \in ClosePc
  BY DEF SendPc, OwnPc, ClosePc
<1> DEFINE p == IF t = Owner THEN "close_removing" ELSE "send_removing"
<1>4. /\ ThreadTypes' /\ thr'[t].pc = p
      /\ \A u \in Thread : thr'[u].c = thr[u].c /\ (u # t => thr'[u] = thr[u])
  <2>1. Goto(t, p)
    BY DEF RemoveFd
  <2>2. \/ t \in Worker /\ thr[t].pc \in SendPc /\ p \in SendPc
        \/ t = Owner /\ thr[t].pc \in ClosePc /\ p \in ClosePc
    BY <1>1, <1>2, <1>3 DEF Thread
  <2> HIDE DEF p
  <2> QED BY <1>1, <2>1, <2>2, GotoEffect
<1>5. pm \in Manager /\ conn' = conn /\ io' = io
  BY DEF Types, RemoveFd
<1>6. /\ pm' \in Manager /\ pm'.rfds = pm.rfds \ {conn[c].fd} /\ pm'.wfds = pm.wfds \ {conn[c].fd}
      /\ pm'.callbacks = pm.callbacks /\ pm'.pending_change /\ pm'.pipe = pm.pipe + 1
  <2>1. pm.pipe + 1 \in Nat /\ pm.rfds \ {conn[c].fd} \in SUBSET Fd /\ pm.wfds \ {conn[c].fd} \in SUBSET Fd
    BY <1>5 DEF Manager
  <2>2. pm' = [pm EXCEPT !.rfds = pm.rfds \ {conn[c].fd}, !.wfds = pm.wfds \ {conn[c].fd},
                         !.pipe = pm.pipe + 1, !.pending_change = TRUE]
    BY <1>5 DEF RemoveFd, BlockRemove, Unwatch, Manager
  <2> QED BY <1>5, <2>1, <2>2 DEF Manager
<1>7. SendFrame(c)
  BY <1>4, <1>5 DEF SendFrame, SendCtx
<1>8. Types'
  BY <1>4, <1>5, <1>6 DEF Types, SendCtx
<1> QED BY <1>1, <1>2, <1>4, <1>5, <1>6, <1>7, <1>8 DEF Removing

\* The end of block_remove_fd: the callback is forgotten.
LEMMA ForgetFdEffect ==
  ASSUME Types, NEW t, NEW c, SendCtx(t, c), ForgetFd(t, c), conn[c].fd \in Fd
  PROVE  /\ Types' /\ SendFrame(c) /\ conn' = conn /\ io' = io
         /\ thr[t].pc \in RemovedPc
         /\ t \in Worker => thr'[t].pc = "send_failed" /\ thr[t].pc = "send_removed"
         /\ t = Owner => thr'[t].pc = "closed"
         /\ \A u \in Thread : u # t => thr'[u] = thr[u]
         /\ pm'.rfds = pm.rfds /\ pm'.wfds = pm.wfds
         /\ pm'.callbacks = [pm.callbacks EXCEPT ![conn[c].fd] = NULL]
         /\ pm'.pending_change = pm.pending_change /\ pm'.pipe = pm.pipe
<1>1. t \in Thread /\ c \in Conn /\ thr[t].pc \in RemovedPc
  BY DEF SendCtx, ForgetFd, RemovedPc
<1>2. /\ t \in Worker => thr[t].pc \in SendPc /\ thr[t].pc = "send_removed"
      /\ t = Owner => thr[t].pc \in ClosePc
  BY <1>1 DEF Types, ThreadTypes, SendPc, ClosePc, OwnPc, RemovedPc
<1>3. "send_failed" \in SendPc /\ "closed" \in ClosePc
  BY DEF SendPc, OwnPc, ClosePc
<1> DEFINE p == IF t = Owner THEN "closed" ELSE "send_failed"
<1>4. /\ ThreadTypes' /\ thr'[t].pc = p
      /\ \A u \in Thread : thr'[u].c = thr[u].c /\ (u # t => thr'[u] = thr[u])
  <2>1. Goto(t, p)
    BY DEF ForgetFd
  <2>2. \/ t \in Worker /\ thr[t].pc \in SendPc /\ p \in SendPc
        \/ t = Owner /\ thr[t].pc \in ClosePc /\ p \in ClosePc
    BY <1>1, <1>2, <1>3 DEF Thread
  <2> HIDE DEF p
  <2> QED BY <1>1, <2>1, <2>2, GotoEffect
<1>5. pm \in Manager /\ conn' = conn /\ io' = io
  BY DEF Types, ForgetFd
<1>6. [pm.callbacks EXCEPT ![conn[c].fd] = NULL] \in [Fd -> Conn \cup {NULL}]
  BY <1>5 DEF Manager
<1>7. /\ pm' \in Manager /\ pm'.rfds = pm.rfds /\ pm'.wfds = pm.wfds
      /\ pm'.callbacks = [pm.callbacks EXCEPT ![conn[c].fd] = NULL]
      /\ pm'.pending_change = pm.pending_change /\ pm'.pipe = pm.pipe
  BY <1>5, <1>6 DEF ForgetFd, Manager
<1>8. SendFrame(c)
  BY <1>4, <1>5 DEF SendFrame, SendCtx
<1>9. Types'
  BY <1>4, <1>5, <1>7 DEF Types, SendCtx
<1> QED BY <1>1, <1>2, <1>4, <1>5, <1>7, <1>8, <1>9

\* The end of a send that owned wpdu_.
LEMMA FinishEffect ==
  ASSUME Types, NEW t \in Worker, NEW c, SendCtx(t, c), thr[t].pc \in OwnPc,
         Finish(c), WakeWaiters(t, c), io' = io, pm' = pm
  PROVE  /\ Types' /\ SendFrame(c) /\ thr'[t].pc = "sent"
         /\ conn'[c].waiters = conn[c].waiters /\ conn'[c].dead = conn[c].dead
         /\ ~conn'[c].buf /\ conn'[c].wpdu = NoPdu
         /\ \A u \in Thread \ {t} :
              \/ thr'[u] = thr[u] /\ ~(u \in Waiting(c) /\ conn[c].waiters > 0)
              \/ u \in Waiting(c) /\ thr[u].pc = "send_wait" /\ thr'[u].pc = "send_woken"
<1>1. t \in Thread /\ c \in Conn /\ thr[t].pc \in SendPc
  BY DEF SendCtx, Thread, SendPc
<1>2. Wakes(t, c, conn[c].waiters)
  BY DEF WakeWaiters, Wakes
<1>5. /\ ThreadTypes' /\ thr'[t].pc = "sent"
      /\ \A u \in Thread : thr'[u].c = thr[u].c
      /\ \A u \in Thread \ {t} :
           \/ thr'[u] = thr[u] /\ ~(u \in Waiting(c) /\ conn[c].waiters > 0)
           \/ u \in Waiting(c) /\ thr[u].pc = "send_wait" /\ thr'[u].pc = "send_woken"
  BY <1>1, <1>2, WakeEffect
<1> DEFINE o == [conn[c] EXCEPT !.buf = FALSE, !.wpdu = NoPdu]
<1>6. conn \in [Conn -> Object] /\ conn[c] \in Object
  BY <1>1 DEF Types
<1>7. NoPdu \in WPdu
  BY DEF NoPdu, WPdu
<1>8. o \in Object /\ SendObject(conn[c], o) /\ o.waiters = conn[c].waiters
      /\ o.dead = conn[c].dead /\ ~o.buf /\ o.wpdu = NoPdu
  BY <1>6, <1>7 DEF Object, SendObject
<1>9. conn' = [conn EXCEPT ![c] = o] /\ pm' \in Manager
  BY <1>6 DEF Finish, Types
<1> HIDE DEF o
<1>10. Types' /\ SendFrame(c) /\ conn'[c] = o
  <2>1. UNCHANGED <<loop, conns, jobs, aborted>>
    BY DEF SendCtx
  <2>2. ThreadTypes' /\ \A u \in Thread : thr'[u].c = thr[u].c
    BY <1>5
  <2> QED BY <1>1, <1>8, <1>9, <2>1, <2>2, SendFramesConn
<1> QED BY <1>5, <1>8, <1>10

\* A step of send that neither declares the connection dead nor touches the poll
\* manager; a worker that moves does not come to or from block_remove_fd.
LEMMA QuietSend ==
  ASSUME IInv, Types', NEW t \in Worker, NEW c, SendCtx(t, c), SendFrame(c), pm' = pm,
         conn'[c].dead = conn[c].dead,
         \A u \in Thread : \/ thr'[u].pc = thr[u].pc
                           \/ thr'[u].pc \notin KillPc /\ thr[u].pc \notin RemoverPc
  PROVE  RefInv' /\ KillInv' /\ WatchInv' /\ LoopInv' /\ ByteInv' /\ RemoverWillBeWoken'
<1>1. c \in Conn /\ conn[c].st = "open" /\ Types
  BY DEF SendCtx, IInv
<1>2. SameObjects /\ SameRefs /\ SameInput /\ RefInv' /\ ByteInv'
  BY <1>1, SendFrameKeeps
<1>3. SameDead
  BY <1>1 DEF SameDead, SendFrame
<1>4. SameWatch /\ pm'.callbacks = pm.callbacks
  BY DEF SameWatch
<1>5. \A u \in Thread : thr'[u].c = thr[u].c
  BY DEF SendFrame
<1>6. NoneEnters(KillPc) /\ NoneEnters(Removing \cup RemovedPc) /\ NoneLeaves(RemoverPc)
      /\ NoneEnters(RemovedPc) /\ NoneEnters(Removing)
  <2>1. Removing \subseteq KillPc /\ RemovedPc \subseteq KillPc /\ RemoverPc \subseteq KillPc
    BY Places
  <2> QED BY <1>5, <2>1 DEF NoneEnters, NoneLeaves
<1>7. KillInv'
  BY <1>2, <1>6, KillInvKept DEF IInv
<1>8. WatchInv'
  BY <1>2, <1>3, <1>4, <1>6, WatchInvKept DEF IInv
<1>9. LoopInv'
  BY <1>1, <1>4, <1>6, SendFrameLoop
<1>10. RemoverWillBeWoken'
  <2>1. loop' = loop
    BY DEF SendFrame
  <2> QED BY <1>6, <2>1, WokenKept DEF IInv
<1> QED BY <1>2, <1>7, <1>8, <1>9, <1>10

\* What a thread at the start of send contributes to waiters_.
LEMMA UnwaitIs ==
  ASSUME Types, NEW t, NEW c \in Conn, AtSend(t)
  PROVE  Unwait(t, c) = conn[c].waiters + 0 - Ind(thr[t].pc \in WaitPc) /\ Unwait(t, c) \in Int
<1>1. conn[c].waiters \in Int
  BY DEF Types, Object
<1> QED BY <1>1 DEF Unwait, AtSend, Ind, WaitPc

\* A sender that returns owns nothing and is no longer counted as a waiter.
LEMMA SendDeadStep ==
  ASSUME IInv, NEW t \in Worker, NEW c, SendCtx(t, c), SendDead(t, c)
  PROVE  IInv'
<1>1. Types /\ c \in Conn /\ conn[c].st = "open" /\ thr[t].c = c
  BY DEF IInv, SendCtx
<1>2. /\ Types' /\ SendFrame(c) /\ pm' = pm /\ AtSend(t) /\ thr'[t].pc = "sent"
      /\ conn'[c].waiters = Unwait(t, c) /\ conn'[c].dead = conn[c].dead
      /\ conn'[c].buf = conn[c].buf /\ conn'[c].wpdu = conn[c].wpdu
      /\ \A u \in Thread : u # t => thr'[u] = thr[u]
  BY <1>1, SendDeadEffect
<1>3. RefInv' /\ KillInv' /\ WatchInv' /\ LoopInv' /\ ByteInv' /\ RemoverWillBeWoken'
  <2>1. \A u \in Thread : \/ thr'[u].pc = thr[u].pc
                          \/ thr'[u].pc \notin KillPc /\ thr[u].pc \notin RemoverPc
    BY <1>2 DEF AtSend, KillPc, RemoverPc, RemovePc, RemovedPc, Removing
  <2> QED BY <1>2, <2>1, QuietSend
<1>4. WaitersInv'
  <2>1. conn'[c].waiters = conn[c].waiters + Ind(thr'[t].pc \in WaitPc) - Ind(thr[t].pc \in WaitPc)
    BY <1>1, <1>2, UnwaitIs DEF Ind, WaitPc
  <2>2. \A u \in Worker \ {t} : thr'[u].pc \in WaitPc <=> thr[u].pc \in WaitPc
    BY <1>2 DEF Thread
  <2> QED BY <1>1, <1>2, <2>1, <2>2, WaiterMoves DEF IInv
<1>5. BufInv'
  <2>1. SameObjects
    BY <1>1, <1>2, SendFrameKeeps
  <2>2. SameDead /\ SameBufs
    BY <1>2 DEF SameDead, SameBufs, SendFrame
  <2>3. /\ NoneEnters(OwnPc) /\ NoneLeaves(OwnPc) /\ NoneEnters({"send_wait"})
        /\ NoneEnters({"send_complete"}) /\ NoneEnters({"send_signalled"})
    BY <1>2 DEF NoneEnters, NoneLeaves, OwnPc, AtSend, SendFrame
  <2>4. pm.wfds \subseteq pm'.wfds /\ thr'[Owner] = thr[Owner]
    BY <1>2 DEF Thread
  <2> QED BY <1>1, <2>1, <2>2, <2>3, <2>4, BufInvKept DEF IInv
<1> QED BY <1>2, <1>3, <1>4, <1>5 DEF IInv

\* A PDU that went out whole leaves the buffer free and wakes a waiter.
LEMMA SendWholeStep ==
  ASSUME IInv, NEW t \in Worker, NEW c, SendCtx(t, c), AtSend(t), SendWhole(t, c)
  PROVE  IInv'
<1>1. Types /\ c \in Conn /\ conn[c].st = "open" /\ thr[t].c = c
  BY DEF IInv, SendCtx
<1>2. /\ Types' /\ SendFrame(c) /\ pm' = pm /\ thr'[t].pc = "sent"
      /\ conn'[c].waiters = Unwait(t, c) /\ conn'[c].dead = conn[c].dead
      /\ conn'[c].buf = conn[c].buf /\ conn'[c].wpdu = conn[c].wpdu
      /\ \A u \in Thread \ {t} :
           \/ thr'[u] = thr[u]
           \/ u \in Waiting(c) /\ thr[u].pc = "send_wait" /\ thr'[u].pc = "send_woken"
  BY <1>1, SendWholeEffect
<1>3. RefInv' /\ KillInv' /\ WatchInv' /\ LoopInv' /\ ByteInv' /\ RemoverWillBeWoken'
  <2>1. \A u \in Thread : \/ thr'[u].pc = thr[u].pc
                          \/ thr'[u].pc \notin KillPc /\ thr[u].pc \notin RemoverPc
    BY <1>2 DEF AtSend, KillPc, RemoverPc, RemovePc, RemovedPc, Removing
  <2> QED BY <1>2, <2>1, QuietSend
<1>4. WaitersInv'
  <2>1. conn'[c].waiters = conn[c].waiters + Ind(thr'[t].pc \in WaitPc) - Ind(thr[t].pc \in WaitPc)
    BY <1>1, <1>2, UnwaitIs DEF Ind, WaitPc
  <2>2. \A u \in Worker \ {t} : thr'[u].pc \in WaitPc <=> thr[u].pc \in WaitPc
    BY <1>2 DEF Thread, WaitPc
  <2> QED BY <1>1, <1>2, <2>1, <2>2, WaiterMoves DEF IInv
<1>5. BufInv'
  <2>1. SameObjects
    BY <1>1, <1>2, SendFrameKeeps
  <2>2. SameDead /\ SameBufs
    BY <1>2 DEF SameDead, SameBufs, SendFrame
  <2>3. /\ NoneEnters(OwnPc) /\ NoneLeaves(OwnPc) /\ NoneEnters({"send_wait"})
        /\ NoneEnters({"send_complete"}) /\ NoneEnters({"send_signalled"})
    BY <1>2 DEF NoneEnters, NoneLeaves, OwnPc, AtSend, SendFrame
  <2>4. pm.wfds \subseteq pm'.wfds /\ (thr[Owner].pc # "accept" => thr'[Owner].pc # "accept")
    BY <1>2 DEF Thread
  <2> QED BY <1>1, <2>1, <2>2, <2>3, <2>4, BufInvKept DEF IInv
<1> QED BY <1>2, <1>3, <1>4, <1>5 DEF IInv

\* A sender that waits is counted, and the buffer it waits for has an owner.
LEMMA SendBlockedStep ==
  ASSUME IInv, NEW t \in Worker, NEW c, SendCtx(t, c), SendBlocked(t, c)
  PROVE  IInv'
<1>1. Types /\ c \in Conn /\ conn[c].st = "open" /\ thr[t].c = c /\ t \in Thread
  BY DEF IInv, SendCtx
<1>2. /\ Types' /\ SendFrame(c) /\ pm' = pm /\ AtSend(t) /\ thr'[t].pc = "send_wait"
      /\ conn[c].buf
      /\ conn'[c].waiters = Unwait(t, c) + 1 /\ conn'[c].dead = conn[c].dead
      /\ conn'[c].buf = conn[c].buf /\ conn'[c].wpdu = conn[c].wpdu
      /\ \A u \in Thread : u # t => thr'[u] = thr[u]
  BY <1>1, SendBlockedEffect
<1>3. RefInv' /\ KillInv' /\ WatchInv' /\ LoopInv' /\ ByteInv' /\ RemoverWillBeWoken'
  <2>1. \A u \in Thread : \/ thr'[u].pc = thr[u].pc
                          \/ thr'[u].pc \notin KillPc /\ thr[u].pc \notin RemoverPc
    BY <1>2 DEF AtSend, KillPc, RemoverPc, RemovePc, RemovedPc, Removing
  <2> QED BY <1>2, <2>1, QuietSend
<1>4. WaitersInv'
  <2>1. conn'[c].waiters = conn[c].waiters + Ind(thr'[t].pc \in WaitPc) - Ind(thr[t].pc \in WaitPc)
    <3>1. conn[c].waiters \in Int
      BY <1>1 DEF Types, Object
    <3> QED BY <1>1, <1>2, <3>1, UnwaitIs DEF Ind, WaitPc
  <2>2. \A u \in Worker \ {t} : thr'[u].pc \in WaitPc <=> thr[u].pc \in WaitPc
    BY <1>2 DEF Thread
  <2> QED BY <1>1, <1>2, <2>1, <2>2, WaiterMoves DEF IInv
<1>5. BufInv'
  <2>1. \A u \in Worker : thr'[u].c = thr[u].c /\ u \in Thread
    BY <1>2 DEF SendFrame, Thread
  <2>2. \A d \in Conn : conn'[d].buf = conn[d].buf /\ conn'[d].wpdu = conn[d].wpdu
                        /\ conn'[d].dead = conn[d].dead /\ conn'[d].fd = conn[d].fd
                        /\ conn'[d].st = conn[d].st
    BY <1>2 DEF SendFrame
  <2>3. \A u \in Worker : u # t => thr'[u].pc = thr[u].pc
    BY <1>2, <2>1
  <2>4. \A u \in Worker : thr[u].pc \in SendPc => thr[u].c \in Conn
    BY <1>1 DEF Types, ThreadTypes, SendPc, OwnPc
  <2>5. thr[t].pc \notin OwnPc /\ thr'[t].pc \notin OwnPc
    BY <1>2 DEF AtSend, OwnPc
  <2>6. thr'[Owner] = thr[Owner] /\ Open' = Open
    BY <1>2, <2>2 DEF Thread, Open
  <2>7. \A u \in Worker : thr'[u].pc \in OwnPc => thr[u].pc \in OwnPc /\ thr[u].c \in Conn /\ u # t
    BY <2>3, <2>4, <2>5 DEF SendPc
  <2>8. \A u \in Worker : thr'[u].pc = "send_wait" => u = t \/ (thr[u].pc = "send_wait" /\ thr[u].c \in Conn)
    BY <2>3, <2>4 DEF SendPc
  <2>9. \A d \in Open' : conn'[d].buf => \E u \in Worker : thr'[u].c = d /\ thr'[u].pc \in OwnPc
    BY <2>1, <2>2, <2>3, <2>5, <2>6 DEF IInv, BufInv, Open
  <2>10. \A u \in Worker : thr'[u].pc \in {"send_complete", "send_signalled"} =>
           thr'[u].pc = thr[u].pc /\ thr'[u].c = thr[u].c /\ thr[u].c \in Conn
    BY <1>2, <2>1, <2>3, <2>4 DEF SendPc, OwnPc
  <2> QED BY <1>1, <1>2, <2>1, <2>2, <2>6, <2>7, <2>8, <2>9, <2>10 DEF IInv, BufInv, Open
<1> QED BY <1>2, <1>3, <1>4, <1>5 DEF IInv

\* The sender of a part is the only owner of the buffer, and is watched for writing.
LEMMA SendPartStep ==
  ASSUME IInv, NEW t \in Worker, NEW c, SendCtx(t, c), AtSend(t), ~conn[c].dead, ~conn[c].buf,
         SendPart(t, c)
  PROVE  IInv'
<1>1. Types /\ c \in Conn /\ conn[c].st = "open" /\ thr[t].c = c /\ t \in Thread /\ conn[c].fd \in Fd
  BY DEF IInv, SendCtx, RefInv, Open
<1>2. /\ Types' /\ SendFrame(c) /\ thr'[t].pc = "send_complete"
      /\ conn'[c].waiters = Unwait(t, c) /\ conn'[c].dead = conn[c].dead
      /\ conn'[c].buf /\ conn'[c].wpdu.solong \in 0 .. conn'[c].wpdu.sz
      /\ conn'[c].wpdu.solong < conn'[c].wpdu.sz
      /\ \A u \in Thread : u # t => thr'[u] = thr[u]
      /\ pm'.rfds = pm.rfds /\ pm'.wfds = pm.wfds \cup {conn[c].fd}
      /\ pm'.callbacks = [pm.callbacks EXCEPT ![conn[c].fd] = c]
      /\ pm'.pending_change = pm.pending_change /\ pm'.pipe = pm.pipe + 1
  <2>1. Types' /\ SendFrame(c) /\ thr'[t].pc = "send_complete" /\ conn'[c].dead = conn[c].dead
    BY <1>1, SendPartEffect
  <2>2. conn'[c].waiters = Unwait(t, c)
    <3>1. conn \in [Conn -> Object] /\ conn[c] \in Object
      BY <1>1 DEF Types
    <3>2. PICK w : conn' = [conn EXCEPT ![c].waiters = Unwait(t, c), ![c].buf = TRUE, ![c].wpdu = w]
      BY DEF SendPart
    <3> QED BY <1>1, <3>1, <3>2 DEF Object
  <2>3. /\ conn'[c].buf /\ conn'[c].wpdu.solong \in 0 .. conn'[c].wpdu.sz
        /\ conn'[c].wpdu.solong < conn'[c].wpdu.sz
    BY <1>1, SendPartEffect
  <2>4. \A u \in Thread : u # t => thr'[u] = thr[u]
    BY <1>1, SendPartEffect
  <2>5. /\ pm'.rfds = pm.rfds /\ pm'.wfds = pm.wfds \cup {conn[c].fd}
        /\ pm'.callbacks = [pm.callbacks EXCEPT ![conn[c].fd] = c]
        /\ pm'.pending_change = pm.pending_change /\ pm'.pipe = pm.pipe + 1
    BY <1>1, SendPartEffect
  <2> QED BY <2>1, <2>2, <2>3, <2>4, <2>5
<1>3. pm'.callbacks = pm.callbacks /\ pm.callbacks[conn[c].fd] = c
  <2>1. pm.callbacks[conn[c].fd] = c /\ pm.callbacks \in [Fd -> Conn \cup {NULL}]
    BY <1>1 DEF IInv, WatchInv, Open, Types, Manager
  <2> QED BY <1>1, <1>2, <2>1
<1>4. SameObjects /\ RefInv' /\ ByteInv'
  BY <1>1, <1>2, SendFrameKeeps
<1>5. \A u \in Thread : thr'[u].c = thr[u].c
  BY <1>2 DEF SendFrame
<1>6. /\ NoneEnters(KillPc) /\ NoneEnters(RemovedPc) /\ NoneEnters(Removing)
      /\ NoneEnters(Removing \cup RemovedPc) /\ NoneLeaves(RemoverPc)
  BY <1>2, <1>5 DEF NoneEnters, NoneLeaves, AtSend, KillPc, RemoverPc, RemovePc, RemovedPc, Removing
<1>7. KillInv'
  BY <1>1, <1>4, <1>6, KillInvKept DEF IInv
<1>8. LoopInv'
  BY <1>1, <1>2, <1>3, <1>6, SendFrameLoop
<1>9. RemoverWillBeWoken'
  <2>1. loop' = loop /\ pm.pipe \in Nat
    BY <1>1, <1>2 DEF SendFrame, Types, Manager
  <2>2. pm'.pipe > 0
    BY <1>2, <2>1
  <2> QED BY <1>2, <1>6, <2>1, <2>2, WokenKept DEF IInv
<1>10. WatchInv'
  <2>1. \A d \in Conn : conn'[d].st = conn[d].st /\ conn'[d].fd = conn[d].fd /\ conn'[d].dead = conn[d].dead
    BY <1>2 DEF SendFrame
  <2>2. Open' = Open
    BY <2>1 DEF Open
  <2>3. \A fd \in Fd : pm'.callbacks[fd] # NULL =>
          conn'[pm'.callbacks[fd]].st = "open" /\ conn'[pm'.callbacks[fd]].fd = fd
    BY <1>1, <1>3, <2>1 DEF IInv, WatchInv, Types, Manager
  <2>4. \A fd \in pm'.rfds \cup pm'.wfds : pm'.callbacks[fd] # NULL
    BY <1>1, <1>2, <1>3 DEF IInv, WatchInv
  <2>5. \A d \in Open' : ~conn'[d].dead => pm'.callbacks[conn'[d].fd] = d /\ conn'[d].fd \in pm'.rfds
    BY <1>2, <1>3, <2>1, <2>2 DEF IInv, WatchInv, Open
  <2>6. \A u \in Thread : thr'[u].pc \in Removing \cup RemovedPc =>
          conn'[thr'[u].c].fd \notin pm'.rfds \cup pm'.wfds
    <3> TAKE u \in Thread
    <3> HAVE thr'[u].pc \in Removing \cup RemovedPc
    <3>1. thr[u].pc \in Removing \cup RemovedPc /\ thr'[u].c = thr[u].c
      BY <1>6 DEF NoneEnters
    <3>2. thr[u].c \in Conn /\ thr[u].pc \in KillPc
      BY <1>1, <3>1, HasConn, Places
    <3>3. conn[thr[u].c].st = "open" /\ conn[thr[u].c].dead
      BY <3>2, HeldIsOpen DEF IInv, KillInv
    <3>4. conn[thr[u].c].fd # conn[c].fd
      BY <1>1, <3>2, <3>3 DEF IInv, RefInv, Open
    <3> QED BY <1>2, <2>1, <3>1, <3>2, <3>4 DEF IInv, WatchInv
  <2>7. \A d \in Open' : conn'[d].dead
            /\ (\A u \in Thread : thr'[u].pc \in RemoverPc => thr'[u].c # d) =>
          pm'.callbacks[conn'[d].fd] = NULL
    BY <1>3, <1>6, <2>1, <2>2 DEF IInv, WatchInv, NoneLeaves, Open
  <2> QED BY <2>3, <2>4, <2>5, <2>6, <2>7 DEF WatchInv
<1>11. WaitersInv'
  <2>1. conn'[c].waiters = conn[c].waiters + Ind(thr'[t].pc \in WaitPc) - Ind(thr[t].pc \in WaitPc)
    BY <1>1, <1>2, UnwaitIs DEF Ind, WaitPc
  <2>2. \A u \in Worker \ {t} : thr'[u].pc \in WaitPc <=> thr[u].pc \in WaitPc
    BY <1>2 DEF Thread
  <2> QED BY <1>1, <1>2, <2>1, <2>2, WaiterMoves DEF IInv
<1>12. BufInv'
  <2>1. \A u \in Worker : u \in Thread /\ thr'[u].c = thr[u].c /\ (u # t => thr'[u].pc = thr[u].pc)
    BY <1>2, <1>5 DEF Thread
  <2>2. \A u \in Worker : thr[u].pc \in OwnPc \cup {"send_wait"} => thr[u].c \in Conn /\ thr[u].c # c
    BY <1>1 DEF IInv, BufInv, Types, ThreadTypes, OwnPc
  <2>3. \A d \in Conn : d # c => conn'[d] = conn[d]
    BY <1>2 DEF SendFrame
  <2>4. \A d \in Conn : conn'[d].st = conn[d].st /\ conn'[d].fd = conn[d].fd
    BY <1>2 DEF SendFrame
  <2>5. thr'[Owner] = thr[Owner] /\ pm.wfds \subseteq pm'.wfds /\ conn[c].fd \in pm'.wfds
    BY <1>2 DEF Thread
  <2>6. "send_complete" \in OwnPc /\ "send_signalled" \in OwnPc /\ "send_wait" \notin OwnPc
    BY DEF OwnPc
  <2>7. \A u \in Worker : thr'[u].pc \in OwnPc => conn'[thr'[u].c].buf
    BY <1>1, <1>2, <2>1, <2>2, <2>3 DEF IInv, BufInv
  <2>8. \A u, v \in Worker : thr'[u].pc \in OwnPc /\ thr'[v].pc \in OwnPc /\ thr'[u].c = thr'[v].c => u = v
    BY <1>1, <2>1, <2>2 DEF IInv, BufInv
  <2>9. \A d \in Open' : conn'[d].buf => \E u \in Worker : thr'[u].c = d /\ thr'[u].pc \in OwnPc
    <3> TAKE d \in Open'
    <3> HAVE conn'[d].buf
    <3>1. CASE d = c
      BY <1>1, <1>2, <2>1, <2>6, <3>1
    <3>2. CASE d # c
      <4>1. d \in Open /\ conn[d].buf
        BY <2>3, <3>2 DEF Open
      <4>2. PICK u \in Worker : thr[u].c = d /\ thr[u].pc \in OwnPc
        BY <4>1 DEF IInv, BufInv
      <4> QED BY <1>1, <2>1, <3>2, <4>2
    <3> QED BY <3>1, <3>2
  <2>10. \A u \in Worker : thr'[u].pc = "send_wait" => conn'[thr'[u].c].buf
    BY <1>1, <1>2, <2>1, <2>2, <2>3 DEF IInv, BufInv
  <2>11. \A d \in Open' : ~conn'[d].dead => conn'[d].wpdu.solong \in 0 .. conn'[d].wpdu.sz
    BY <1>2, <2>3 DEF IInv, BufInv, Open
  <2>12. \A u \in Worker : thr'[u].pc = "send_complete" =>
           \/ /\ ~conn'[thr'[u].c].dead /\ conn'[thr'[u].c].wpdu.solong < conn'[thr'[u].c].wpdu.sz
              /\ conn'[thr'[u].c].fd \in pm'.wfds
           \/ conn'[thr'[u].c].dead /\ thr'[Owner].pc # "accept"
    <3> TAKE u \in Worker
    <3> HAVE thr'[u].pc = "send_complete"
    <3>1. CASE u = t
      BY <1>1, <1>2, <2>1, <2>4, <2>5, <3>1
    <3>2. CASE u # t
      <4>1. thr[u].pc = "send_complete" /\ thr'[u].c = thr[u].c /\ thr[u].c \in Conn /\ thr[u].c # c
        BY <2>1, <2>2, <2>6, <3>2
      <4> QED BY <2>3, <2>5, <4>1 DEF IInv, BufInv
    <3> QED BY <3>1, <3>2
  <2>13. \A u \in Worker : thr'[u].pc = "send_signalled" =>
           conn'[thr'[u].c].dead \/ conn'[thr'[u].c].wpdu.solong = conn'[thr'[u].c].wpdu.sz
    BY <1>2, <2>1, <2>2, <2>3, <2>6 DEF IInv, BufInv
  <2> QED BY <2>7, <2>8, <2>9, <2>10, <2>11, <2>12, <2>13 DEF BufInv
<1> QED BY <1>2, <1>4, <1>7, <1>8, <1>9, <1>10, <1>11, <1>12 DEF IInv

\* A sender that fails is the only one to declare this connection dead.
LEMMA SendFailsStep ==
  ASSUME IInv, NEW t \in Worker, NEW c, SendCtx(t, c), AtSend(t), ~conn[c].dead, ~conn[c].buf,
         SendFails(t, c)
  PROVE  IInv'
<1>1. Types /\ c \in Conn /\ conn[c].st = "open" /\ thr[t].c = c /\ t \in Thread /\ conn[c].fd \in Fd
  BY DEF IInv, SendCtx, RefInv, Open
<1>2. /\ Types' /\ SendFrame(c) /\ pm' = pm /\ thr'[t].pc = "send_remove"
      /\ conn'[c].waiters = Unwait(t, c) /\ conn'[c].dead /\ conn'[c].buf
      /\ \A u \in Thread : u # t => thr'[u] = thr[u]
  BY <1>1, SendFailsEffect
<1>3. SameObjects /\ RefInv' /\ ByteInv'
  BY <1>1, <1>2, SendFrameKeeps
<1>4. \A u \in Thread : thr'[u].c = thr[u].c
  BY <1>2 DEF SendFrame
<1>5. \A d \in Conn : d # c => conn'[d] = conn[d]
  BY <1>2 DEF SendFrame
<1>6. \A u \in Thread : thr[u].pc \in KillPc => thr[u].c \in Conn /\ thr[u].c # c /\ u # t
  <2> TAKE u \in Thread
  <2> HAVE thr[u].pc \in KillPc
  <2>1. thr[u].c \in Conn
    BY <1>1, HasConn, Places
  <2>2. conn[thr[u].c].dead
    BY DEF IInv, KillInv
  <2> QED BY <1>1, <2>1, <2>2
<1>7. KillInv'
  <2>1. \A u \in Thread : thr'[u].pc \in KillPc => u = t \/ (thr[u].pc \in KillPc /\ thr'[u].c = thr[u].c)
    BY <1>2
  <2>2. \A u \in Thread : thr'[u].pc \in KillPc => conn'[thr'[u].c].dead
    BY <1>1, <1>2, <1>4, <1>5, <1>6, <2>1 DEF IInv, KillInv
  <2>3. \A u, v \in Thread : thr'[u].pc \in KillPc /\ thr'[v].pc \in KillPc /\ thr'[u].c = thr'[v].c => u = v
    BY <1>1, <1>4, <1>6, <2>1 DEF IInv, KillInv
  <2> QED BY <2>2, <2>3 DEF KillInv
<1>8. /\ NoneEnters(RemovedPc) /\ NoneEnters(Removing) /\ NoneEnters(Removing \cup RemovedPc)
      /\ NoneLeaves(RemoverPc)
  BY <1>2, <1>4 DEF NoneEnters, NoneLeaves, AtSend, RemoverPc, RemovePc, RemovedPc, Removing
<1>9. LoopInv'
  BY <1>1, <1>2, <1>8, SendFrameLoop
<1>10. RemoverWillBeWoken'
  <2>1. loop' = loop
    BY <1>2 DEF SendFrame
  <2> QED BY <1>2, <1>8, <2>1, WokenKept DEF IInv
<1>11. WatchInv'
  <2>1. \A d \in Conn : conn'[d].st = conn[d].st /\ conn'[d].fd = conn[d].fd
    BY <1>2 DEF SendFrame
  <2>2. Open' = Open
    BY <2>1 DEF Open
  <2>3. \A fd \in Fd : pm'.callbacks[fd] # NULL =>
          conn'[pm'.callbacks[fd]].st = "open" /\ conn'[pm'.callbacks[fd]].fd = fd
    <3> TAKE fd \in Fd
    <3> HAVE pm'.callbacks[fd] # NULL
    <3>1. pm.callbacks \in [Fd -> Conn \cup {NULL}]
      BY <1>1 DEF Types, Manager
    <3>2. pm.callbacks[fd] \in Conn /\ pm.callbacks[fd] # NULL
      BY <1>2, <3>1
    <3>3. conn[pm.callbacks[fd]].st = "open" /\ conn[pm.callbacks[fd]].fd = fd
      BY <3>2 DEF IInv, WatchInv
    <3> QED BY <1>2, <2>1, <3>2, <3>3
  <2>4. \A fd \in pm'.rfds \cup pm'.wfds : pm'.callbacks[fd] # NULL
    BY <1>2 DEF IInv, WatchInv
  <2>5. \A d \in Open' : ~conn'[d].dead => pm'.callbacks[conn'[d].fd] = d /\ conn'[d].fd \in pm'.rfds
    BY <1>2, <1>5, <2>2 DEF IInv, WatchInv, Open
  <2>6. \A u \in Thread : thr'[u].pc \in Removing \cup RemovedPc =>
          conn'[thr'[u].c].fd \notin pm'.rfds \cup pm'.wfds
    <3> TAKE u \in Thread
    <3> HAVE thr'[u].pc \in Removing \cup RemovedPc
    <3>1. thr[u].pc \in Removing \cup RemovedPc /\ thr'[u].c = thr[u].c
      BY <1>8 DEF NoneEnters
    <3>2. thr[u].c \in Conn
      BY <1>1, <3>1, HasConn, Places
    <3> QED BY <1>2, <2>1, <3>1, <3>2 DEF IInv, WatchInv
  <2>7. \A d \in Open' : conn'[d].dead
            /\ (\A u \in Thread : thr'[u].pc \in RemoverPc => thr'[u].c # d) =>
          pm'.callbacks[conn'[d].fd] = NULL
    <3> TAKE d \in Open'
    <3> HAVE conn'[d].dead /\ (\A u \in Thread : thr'[u].pc \in RemoverPc => thr'[u].c # d)
    <3>1. d # c
      BY <1>1, <1>2, <1>4 DEF RemoverPc, RemovePc
    <3>2. d \in Open /\ conn[d].dead /\ conn'[d] = conn[d]
      BY <1>5, <2>2, <3>1 DEF Open
    <3>3. \A u \in Thread : thr[u].pc \in RemoverPc => thr[u].c # d
      BY <1>8 DEF NoneLeaves
    <3> QED BY <1>2, <3>2, <3>3 DEF IInv, WatchInv
  <2> QED BY <2>3, <2>4, <2>5, <2>6, <2>7 DEF WatchInv
<1>12. WaitersInv'
  <2>1. conn'[c].waiters = conn[c].waiters + Ind(thr'[t].pc \in WaitPc) - Ind(thr[t].pc \in WaitPc)
    BY <1>1, <1>2, UnwaitIs DEF Ind, WaitPc
  <2>2. \A u \in Worker \ {t} : thr'[u].pc \in WaitPc <=> thr[u].pc \in WaitPc
    BY <1>2 DEF Thread
  <2> QED BY <1>1, <1>2, <2>1, <2>2, WaiterMoves DEF IInv
<1>13. BufInv'
  <2>1. \A u \in Worker : u \in Thread /\ thr'[u].c = thr[u].c /\ (u # t => thr'[u].pc = thr[u].pc)
    BY <1>2, <1>4 DEF Thread
  <2>2. \A u \in Worker : thr[u].pc \in OwnPc \cup {"send_wait"} => thr[u].c \in Conn /\ thr[u].c # c
    BY <1>1 DEF IInv, BufInv, Types, ThreadTypes, OwnPc
  <2>3. thr'[Owner] = thr[Owner]
    BY <1>2 DEF Thread
  <2>4. {"send_complete", "send_signalled", "send_remove"} \subseteq OwnPc
    BY DEF OwnPc
  <2>5. \A u \in Worker : thr'[u].pc \in OwnPc => conn'[thr'[u].c].buf
    BY <1>1, <1>2, <2>1, <2>2, <1>5 DEF IInv, BufInv
  <2>6. \A u, v \in Worker : thr'[u].pc \in OwnPc /\ thr'[v].pc \in OwnPc /\ thr'[u].c = thr'[v].c => u = v
    BY <1>1, <2>1, <2>2 DEF IInv, BufInv
  <2>7. \A d \in Open' : conn'[d].buf => \E u \in Worker : thr'[u].c = d /\ thr'[u].pc \in OwnPc
    <3> TAKE d \in Open'
    <3> HAVE conn'[d].buf
    <3>1. CASE d = c
      BY <1>1, <1>2, <2>1, <2>4, <3>1
    <3>2. CASE d # c
      <4>1. d \in Open /\ conn[d].buf
        BY <1>5, <3>2 DEF Open
      <4>2. PICK u \in Worker : thr[u].c = d /\ thr[u].pc \in OwnPc
        BY <4>1 DEF IInv, BufInv
      <4> QED BY <1>1, <2>1, <3>2, <4>2
    <3> QED BY <3>1, <3>2
  <2>8. \A u \in Worker : thr'[u].pc = "send_wait" => conn'[thr'[u].c].buf
    BY <1>1, <1>2, <1>5, <2>1, <2>2 DEF IInv, BufInv
  <2>9. \A d \in Open' : ~conn'[d].dead => conn'[d].wpdu.solong \in 0 .. conn'[d].wpdu.sz
    BY <1>2, <1>5 DEF IInv, BufInv, Open
  <2>10. \A u \in Worker : thr'[u].pc = "send_complete" =>
           \/ /\ ~conn'[thr'[u].c].dead /\ conn'[thr'[u].c].wpdu.solong < conn'[thr'[u].c].wpdu.sz
              /\ conn'[thr'[u].c].fd \in pm'.wfds
           \/ conn'[thr'[u].c].dead /\ thr'[Owner].pc # "accept"
    <3> TAKE u \in Worker
    <3> HAVE thr'[u].pc = "send_complete"
    <3>1. thr[u].pc = "send_complete" /\ thr'[u].c = thr[u].c /\ thr[u].c \in Conn /\ thr[u].c # c
      BY <1>2, <2>1, <2>2, <2>4
    <3> QED BY <1>2, <1>5, <2>3, <3>1 DEF IInv, BufInv
  <2>11. \A u \in Worker : thr'[u].pc = "send_signalled" =>
           conn'[thr'[u].c].dead \/ conn'[thr'[u].c].wpdu.solong = conn'[thr'[u].c].wpdu.sz
    BY <1>2, <1>5, <2>1, <2>2, <2>4 DEF IInv, BufInv
  <2> QED BY <2>5, <2>6, <2>7, <2>8, <2>9, <2>10, <2>11 DEF BufInv
<1> QED BY <1>2, <1>3, <1>7, <1>9, <1>10, <1>11, <1>12, <1>13 DEF IInv

\* block_remove_fd up to its wait, by a worker or by the owner.
LEMMA RemoveFdStep ==
  ASSUME IInv, NEW t, NEW c, SendCtx(t, c), RemoveFd(t, c)
  PROVE  IInv'
<1>1. Types /\ c \in Conn /\ conn[c].st = "open" /\ thr[t].c = c /\ t \in Thread /\ conn[c].fd \in Fd
  BY DEF IInv, SendCtx, RefInv, Open
<1>2. /\ Types' /\ SendFrame(c) /\ conn' = conn
      /\ thr[t].pc \in RemovePc /\ thr'[t].pc \in Removing
      /\ t \in Worker => thr'[t].pc = "send_removing" /\ thr[t].pc = "send_remove"
      /\ t = Owner => thr'[t].pc = "close_removing"
      /\ \A u \in Thread : u # t => thr'[u] = thr[u]
      /\ pm'.rfds = pm.rfds \ {conn[c].fd} /\ pm'.wfds = pm.wfds \ {conn[c].fd}
      /\ pm'.callbacks = pm.callbacks /\ pm'.pending_change /\ pm'.pipe = pm.pipe + 1
  BY <1>1, RemoveFdEffect
<1>3. SameObjects /\ RefInv' /\ ByteInv'
  BY <1>1, <1>2, SendFrameKeeps
<1>4. \A u \in Thread : thr'[u].c = thr[u].c
  BY <1>2 DEF SendFrame
<1>5. NoneEnters(KillPc) /\ NoneEnters(RemovedPc) /\ NoneLeaves(RemoverPc)
  BY <1>2, <1>4 DEF NoneEnters, NoneLeaves, KillPc, RemoverPc, RemovePc, RemovedPc, Removing
<1>6. NoneEnters(OwnPc) /\ NoneLeaves(OwnPc) /\ NoneEnters({"send_wait"})
      /\ NoneEnters({"send_complete"}) /\ NoneEnters({"send_signalled"})
      /\ NoneEnters(WaitPc) /\ NoneLeaves(WaitPc)
  <2>1. \A u \in Thread : \/ thr'[u] = thr[u]
                          \/ u \in Worker /\ thr'[u].pc = "send_removing" /\ thr[u].pc = "send_remove"
                          \/ thr'[u].pc = "close_removing" /\ thr[u].pc = "close_remove"
    <3>1. t = Owner => thr[t].pc = "close_remove"
      BY <1>1, <1>2 DEF Types, ThreadTypes, RemovePc, ClosePc
    <3> QED BY <1>2, <3>1 DEF Thread
  <2> QED BY <1>4, <2>1 DEF NoneEnters, NoneLeaves, OwnPc, WaitPc
<1>7. conn[c].dead /\ \A d \in Open : ~conn[d].dead => conn[d].fd # conn[c].fd
  <2>1. conn[c].dead
    BY <1>1, <1>2, Places DEF IInv, KillInv
  <2> QED BY <1>1, <2>1 DEF IInv, RefInv, Open
<1>8. KillInv'
  BY <1>3, <1>5, KillInvKept DEF IInv
<1>9. LoopInv'
  BY <1>1, <1>2, <1>5, SendFrameLoop
<1>10. RemoverWillBeWoken'
  <2>1. pm'.pipe > 0
    BY <1>1, <1>2 DEF Types, Manager
  <2> QED BY <1>2, <2>1 DEF RemoverWillBeWoken
<1>11. WatchInv'
  <2>1. \A fd \in Fd : pm'.callbacks[fd] # NULL =>
          conn'[pm'.callbacks[fd]].st = "open" /\ conn'[pm'.callbacks[fd]].fd = fd
    BY <1>2 DEF IInv, WatchInv
  <2>2. \A fd \in pm'.rfds \cup pm'.wfds : pm'.callbacks[fd] # NULL
    BY <1>2 DEF IInv, WatchInv
  <2>3. \A d \in Open' : ~conn'[d].dead => pm'.callbacks[conn'[d].fd] = d /\ conn'[d].fd \in pm'.rfds
    BY <1>2, <1>7 DEF IInv, WatchInv, Open
  <2>4. \A u \in Thread : thr'[u].pc \in Removing \cup RemovedPc =>
          conn'[thr'[u].c].fd \notin pm'.rfds \cup pm'.wfds
    <3> TAKE u \in Thread
    <3> HAVE thr'[u].pc \in Removing \cup RemovedPc
    <3>1. CASE u = t
      BY <1>1, <1>2, <1>4, <3>1
    <3>2. CASE u # t
      BY <1>2, <1>4, <3>2 DEF IInv, WatchInv
    <3> QED BY <3>1, <3>2
  <2>5. \A d \in Open' : conn'[d].dead
            /\ (\A u \in Thread : thr'[u].pc \in RemoverPc => thr'[u].c # d) =>
          pm'.callbacks[conn'[d].fd] = NULL
    BY <1>2, <1>5 DEF IInv, WatchInv, NoneLeaves, Open
  <2> QED BY <2>1, <2>2, <2>3, <2>4, <2>5 DEF WatchInv
<1>12. WaitersInv'
  BY <1>2, <1>3, <1>6, WaitersInvKept DEF IInv
<1>13. BufInv'
  <2>1. SameDead /\ SameBufs
    BY <1>2 DEF SameDead, SameBufs
  <2>2. thr[Owner].pc # "accept" => thr'[Owner].pc # "accept"
    BY <1>2 DEF Thread
  <2>3. \A u \in Worker : /\ thr[u].pc = "send_complete" /\ ~conn[thr[u].c].dead
                          /\ conn[thr[u].c].fd \in pm.wfds
                          => conn[thr[u].c].fd \in pm'.wfds
    <3> TAKE u \in Worker
    <3> HAVE /\ thr[u].pc = "send_complete" /\ ~conn[thr[u].c].dead
             /\ conn[thr[u].c].fd \in pm.wfds
    <3>1. thr[u].c \in Conn /\ u \in Thread
      BY <1>1 DEF Types, ThreadTypes, Thread
    <3>2. thr[u].c \in Open
      BY <3>1, HeldIsOpen DEF IInv, Open
    <3> QED BY <1>2, <1>7, <3>2
  <2> QED BY <1>3, <1>6, <2>1, <2>2, <2>3, BufInvKept DEF IInv
<1> QED BY <1>2, <1>3, <1>8, <1>9, <1>10, <1>11, <1>12, <1>13 DEF IInv

\* ... and after its wait.
LEMMA ForgetFdStep ==
  ASSUME IInv, NEW t, NEW c, SendCtx(t, c), ForgetFd(t, c)
  PROVE  IInv'
<1>1. Types /\ c \in Conn /\ conn[c].st = "open" /\ thr[t].c = c /\ t \in Thread /\ conn[c].fd \in Fd
  BY DEF IInv, SendCtx, RefInv, Open
<1>2. /\ Types' /\ SendFrame(c) /\ conn' = conn /\ io' = io
      /\ thr[t].pc \in RemovedPc
      /\ t \in Worker => thr'[t].pc = "send_failed" /\ thr[t].pc = "send_removed"
      /\ t = Owner => thr'[t].pc = "closed"
      /\ \A u \in Thread : u # t => thr'[u] = thr[u]
      /\ pm'.rfds = pm.rfds /\ pm'.wfds = pm.wfds
      /\ pm'.callbacks = [pm.callbacks EXCEPT ![conn[c].fd] = NULL]
      /\ pm'.pending_change = pm.pending_change /\ pm'.pipe = pm.pipe
  BY <1>1, ForgetFdEffect
<1>3. SameObjects /\ RefInv' /\ ByteInv'
  BY <1>1, <1>2, SendFrameKeeps
<1>4. (\A u \in Thread : thr'[u].c = thr[u].c) /\ loop' = loop
  BY <1>2 DEF SendFrame
<1>5. pm.callbacks \in [Fd -> Conn \cup {NULL}] /\ loop.r \in SUBSET Fd /\ loop.w \in SUBSET Fd
  BY <1>1 DEF Types, Manager, Loop
<1>6. /\ pm'.callbacks[conn[c].fd] = NULL
      /\ \A fd \in Fd : fd # conn[c].fd => pm'.callbacks[fd] = pm.callbacks[fd]
  BY <1>1, <1>2, <1>5
<1>7. \A u \in Thread : \/ thr'[u] = thr[u]
                        \/ thr'[u].pc = "send_failed" /\ thr[u].pc = "send_removed"
                        \/ thr'[u].pc = "closed" /\ thr[u].pc = "close_removed"
  <2>1. t = Owner => thr[t].pc = "close_removed"
    BY <1>1, <1>2 DEF Types, ThreadTypes, RemovedPc, ClosePc
  <2> QED BY <1>1, <1>2, <2>1 DEF Thread
<1>8. NoneEnters(KillPc) /\ NoneEnters(RemovedPc) /\ NoneEnters(Removing)
      /\ NoneEnters(Removing \cup RemovedPc)
  BY <1>4, <1>7 DEF NoneEnters, KillPc, RemoverPc, RemovePc, RemovedPc, Removing
<1>9. NoneEnters(OwnPc) /\ NoneLeaves(OwnPc) /\ NoneEnters({"send_wait"})
      /\ NoneEnters({"send_complete"}) /\ NoneEnters({"send_signalled"})
      /\ NoneEnters(WaitPc) /\ NoneLeaves(WaitPc)
  BY <1>4, <1>7 DEF NoneEnters, NoneLeaves, OwnPc, WaitPc
<1>10. conn[c].dead /\ \A d \in Open : d # c => conn[d].fd # conn[c].fd
  <2>1. conn[c].dead
    BY <1>1, <1>2, Places DEF IInv, KillInv
  <2> QED BY <1>1, <2>1 DEF IInv, RefInv, Open
<1>11. KillInv'
  BY <1>3, <1>8, KillInvKept DEF IInv
<1>12. RemoverWillBeWoken'
  BY <1>2, <1>4, <1>8, WokenKept DEF IInv
<1>13. WaitersInv'
  BY <1>2, <1>3, <1>9, WaitersInvKept DEF IInv
<1>14. BufInv'
  <2>1. SameDead /\ SameBufs
    BY <1>2 DEF SameDead, SameBufs
  <2>2. thr[Owner].pc # "accept" => thr'[Owner].pc # "accept"
    BY <1>7 DEF Thread
  <2> QED BY <1>2, <1>3, <1>9, <2>1, <2>2, BufInvKept DEF IInv
<1>15. LoopInv'
  <2> SUFFICES ASSUME ~loop.cut
               PROVE  LoopCurrent'
    BY <1>4 DEF LoopInv
  <2>1. loop.pc \notin {"top", "copy"} =>
          conn[c].fd \notin loop.r \cup loop.w /\ (loop.pc \in CbPc => loop.cur # c)
    BY <1>1, <1>2 DEF IInv, LoopInv, LoopCurrent
  <2>2. loop.pc \in CbPc => /\ loop.cur # NULL /\ conn[loop.cur].st = "open"
                            /\ pm'.callbacks[conn[loop.cur].fd] = loop.cur
    <3> HAVE loop.pc \in CbPc
    <3>1. /\ loop.cur # NULL /\ conn[loop.cur].st = "open"
          /\ pm.callbacks[conn[loop.cur].fd] = loop.cur /\ loop.cur # c
      BY <2>1 DEF IInv, LoopInv, LoopCurrent, CbPc
    <3>2. loop.cur \in Conn /\ loop.cur \in Open
      BY <1>1, <3>1 DEF Types, Loop, Open
    <3>3. conn[loop.cur].fd \in Fd /\ conn[loop.cur].fd # conn[c].fd
      BY <1>10, <3>1, <3>2 DEF IInv, RefInv
    <3> QED BY <1>6, <3>1, <3>3
  <2>3. \A u \in Thread : thr'[u].pc \in RemovedPc => thr[u].pc \in RemovedPc /\ thr'[u].c = thr[u].c
    BY <1>8 DEF NoneEnters
  <2>4. loop.pc = "select" => \A fd \in loop.r \cup loop.w : pm'.callbacks[fd] # NULL
    <3> HAVE loop.pc = "select"
    <3> TAKE fd \in loop.r \cup loop.w
    <3>1. fd \in Fd /\ fd # conn[c].fd /\ pm.callbacks[fd] # NULL
      BY <1>5, <2>1 DEF IInv, LoopInv, LoopCurrent
    <3> QED BY <1>6, <3>1
  <2>5. loop.pc \in {"reads", "read_cb"} =>
          \A fd \in loop.r : pm'.callbacks[fd] # NULL /\ Input(pm.callbacks[fd])'
    <3> HAVE loop.pc \in {"reads", "read_cb"}
    <3> TAKE fd \in loop.r
    <3>1. fd \in Fd /\ fd # conn[c].fd /\ pm.callbacks[fd] # NULL /\ Input(pm.callbacks[fd])
      BY <1>5, <2>1 DEF IInv, LoopInv, LoopCurrent
    <3> QED BY <1>2, <1>6, <3>1 DEF Input
  <2>6. Input(loop.cur)' = Input(loop.cur)
    BY <1>2, <1>4 DEF Input
  <2> QED BY <1>2, <1>4, <2>2, <2>3, <2>4, <2>5, <2>6 DEF IInv, LoopInv, LoopCurrent
<1>16. WatchInv'
  <2>1. \A fd \in Fd : pm'.callbacks[fd] # NULL =>
          conn'[pm'.callbacks[fd]].st = "open" /\ conn'[pm'.callbacks[fd]].fd = fd
    BY <1>2, <1>6 DEF IInv, WatchInv
  <2>2. \A fd \in pm'.rfds \cup pm'.wfds : pm'.callbacks[fd] # NULL
    <3>1. conn[c].fd \notin pm.rfds \cup pm.wfds
      BY <1>1, <1>2 DEF IInv, WatchInv
    <3>2. pm.rfds \in SUBSET Fd /\ pm.wfds \in SUBSET Fd
      BY <1>1 DEF Types, Manager
    <3> QED BY <1>2, <1>6, <3>1, <3>2 DEF IInv, WatchInv
  <2>3. \A d \in Open' : ~conn'[d].dead => pm'.callbacks[conn'[d].fd] = d /\ conn'[d].fd \in pm'.rfds
    <3> TAKE d \in Open'
    <3> HAVE ~conn'[d].dead
    <3>1. d \in Open /\ d # c
      BY <1>2, <1>10 DEF Open
    <3>2. conn[d].fd \in Fd /\ conn[d].fd # conn[c].fd
      BY <1>10, <3>1 DEF IInv, RefInv
    <3> QED BY <1>2, <1>6, <3>1, <3>2 DEF IInv, WatchInv
  <2>4. \A u \in Thread : thr'[u].pc \in Removing \cup RemovedPc =>
          conn'[thr'[u].c].fd \notin pm'.rfds \cup pm'.wfds
    BY <1>2, <1>8 DEF IInv, WatchInv, NoneEnters
  <2>5. \A d \in Open' : conn'[d].dead
            /\ (\A u \in Thread : thr'[u].pc \in RemoverPc => thr'[u].c # d) =>
          pm'.callbacks[conn'[d].fd] = NULL
    <3> TAKE d \in Open'
    <3> HAVE conn'[d].dead /\ (\A u \in Thread : thr'[u].pc \in RemoverPc => thr'[u].c # d)
    <3>1. d \in Open /\ conn[d].dead /\ conn'[d] = conn[d]
      BY <1>2 DEF Open
    <3>2. CASE d = c
      BY <1>6, <3>1, <3>2
    <3>3. CASE d # c
      <4>1. \A u \in Thread : thr[u].pc \in RemoverPc => thr[u].c # d
        BY <1>1, <1>2, <3>3
      <4>2. pm.callbacks[conn[d].fd] = NULL
        BY <3>1, <4>1 DEF IInv, WatchInv
      <4>3. conn[d].fd \in Fd /\ conn[d].fd # conn[c].fd
        BY <1>10, <3>1, <3>3 DEF IInv, RefInv
      <4> QED BY <1>6, <3>1, <4>2, <4>3
    <3> QED BY <3>2, <3>3
  <2> QED BY <2>1, <2>2, <2>3, <2>4, <2>5 DEF WatchInv
<1> QED BY <1>2, <1>3, <1>11, <1>12, <1>13, <1>14, <1>15, <1>16 DEF IInv

\* The owner of the buffer gives it up, however send ends.
LEMMA FinishStep ==
  ASSUME IInv, NEW t \in Worker, NEW c, SendCtx(t, c), thr[t].pc \in {"send_failed", "send_signalled"},
         Finish(c), WakeWaiters(t, c), io' = io, pm' = pm
  PROVE  IInv'
<1>1. Types /\ c \in Conn /\ conn[c].st = "open" /\ thr[t].c = c /\ t \in Thread /\ thr[t].pc \in OwnPc
  BY DEF IInv, SendCtx, OwnPc
<1>2. /\ Types' /\ SendFrame(c) /\ thr'[t].pc = "sent"
      /\ conn'[c].waiters = conn[c].waiters /\ conn'[c].dead = conn[c].dead
      /\ ~conn'[c].buf /\ conn'[c].wpdu = NoPdu
      /\ \A u \in Thread \ {t} :
           \/ thr'[u] = thr[u] /\ ~(u \in Waiting(c) /\ conn[c].waiters > 0)
           \/ u \in Waiting(c) /\ thr[u].pc = "send_wait" /\ thr'[u].pc = "send_woken"
  BY <1>1, FinishEffect
<1>3. RefInv' /\ KillInv' /\ WatchInv' /\ LoopInv' /\ ByteInv' /\ RemoverWillBeWoken'
  <2>1. \A u \in Thread : \/ thr'[u].pc = thr[u].pc
                          \/ thr'[u].pc \notin KillPc /\ thr[u].pc \notin RemoverPc
    BY <1>2 DEF KillPc, RemoverPc, RemovePc, RemovedPc, Removing
  <2> QED BY <1>2, <2>1, QuietSend
<1>4. \A u \in Thread : thr'[u].c = thr[u].c
  BY <1>2 DEF SendFrame
<1>5. WaitersInv'
  <2>1. SameObjects
    BY <1>1, <1>2, SendFrameKeeps
  <2>2. \A d \in Conn : conn'[d].waiters = conn[d].waiters
    BY <1>2 DEF SendFrame
  <2>3. NoneEnters(WaitPc) /\ NoneLeaves(WaitPc)
    BY <1>1, <1>2, <1>4 DEF NoneEnters, NoneLeaves, WaitPc, OwnPc
  <2> QED BY <2>1, <2>2, <2>3, WaitersInvKept DEF IInv
<1>6. BufInv'
  <2>1. \A u \in Worker : /\ u \in Thread /\ thr'[u].c = thr[u].c
                          /\ u # t => \/ thr'[u].pc = thr[u].pc /\ u \notin Waiting(c)
                                      \/ thr[u].pc = "send_wait" /\ thr'[u].pc = "send_woken"
    <3>1. \A u \in Waiting(c) : conn[c].waiters > 0
      BY <1>1, WaiterCounted DEF IInv
    <3> QED BY <1>2, <1>4, <3>1 DEF Thread
  <2>2. \A u \in Worker : thr[u].pc \in SendPc => thr[u].c \in Conn
    BY <1>1 DEF Types, ThreadTypes, SendPc, OwnPc
  <2>3. {"send_complete", "send_signalled"} \subseteq OwnPc /\ {"sent", "send_woken", "send_wait"} \cap OwnPc = {}
        /\ OwnPc \subseteq SendPc /\ "send_wait" \in SendPc
    BY DEF OwnPc, SendPc
  <2>4. \A u \in Worker : thr'[u].pc \in OwnPc => thr[u].pc = thr'[u].pc /\ u # t /\ thr[u].c # c /\ thr[u].c \in Conn
    BY <1>1, <1>2, <2>1, <2>2, <2>3 DEF IInv, BufInv
  <2>5. \A d \in Conn : d # c => conn'[d] = conn[d]
    BY <1>2 DEF SendFrame
  <2>6. \A u \in Worker : thr'[u].pc = "send_wait" => thr[u].pc = "send_wait" /\ thr[u].c # c /\ thr[u].c \in Conn
    BY <1>2, <2>1, <2>2, <2>3 DEF Waiting
  <2>7. thr'[Owner] = thr[Owner]
    BY <1>2 DEF Thread, Waiting
  <2>8. \A u \in Worker : thr'[u].pc \in OwnPc => conn'[thr'[u].c].buf
    BY <2>1, <2>4, <2>5 DEF IInv, BufInv
  <2>9. \A u, v \in Worker : thr'[u].pc \in OwnPc /\ thr'[v].pc \in OwnPc /\ thr'[u].c = thr'[v].c => u = v
    BY <2>1, <2>4 DEF IInv, BufInv
  <2>10. \A d \in Open' : conn'[d].buf => \E u \in Worker : thr'[u].c = d /\ thr'[u].pc \in OwnPc
    <3> TAKE d \in Open'
    <3> HAVE conn'[d].buf
    <3>1. d # c /\ d \in Conn
      BY <1>2 DEF Open
    <3>2. d \in Open /\ conn[d].buf
      BY <2>5, <3>1 DEF Open
    <3>3. PICK u \in Worker : thr[u].c = d /\ thr[u].pc \in OwnPc
      BY <3>2 DEF IInv, BufInv
    <3> QED BY <1>1, <2>1, <2>3, <3>1, <3>3
  <2>11. \A u \in Worker : thr'[u].pc = "send_wait" => conn'[thr'[u].c].buf
    BY <2>1, <2>5, <2>6 DEF IInv, BufInv
  <2>12. \A d \in Open' : ~conn'[d].dead => conn'[d].wpdu.solong \in 0 .. conn'[d].wpdu.sz
    BY <1>2, <2>5 DEF IInv, BufInv, Open, NoPdu
  <2>13. \A u \in Worker : thr'[u].pc = "send_complete" =>
           \/ /\ ~conn'[thr'[u].c].dead /\ conn'[thr'[u].c].wpdu.solong < conn'[thr'[u].c].wpdu.sz
              /\ conn'[thr'[u].c].fd \in pm'.wfds
           \/ conn'[thr'[u].c].dead /\ thr'[Owner].pc # "accept"
    <3> TAKE u \in Worker
    <3> HAVE thr'[u].pc = "send_complete"
    <3>1. thr[u].pc = "send_complete" /\ thr'[u].c = thr[u].c /\ thr[u].c \in Conn /\ thr[u].c # c
      BY <2>1, <2>3, <2>4
    <3> QED BY <2>5, <2>7, <3>1 DEF IInv, BufInv
  <2>14. \A u \in Worker : thr'[u].pc = "send_signalled" =>
           conn'[thr'[u].c].dead \/ conn'[thr'[u].c].wpdu.solong = conn'[thr'[u].c].wpdu.sz
    BY <2>1, <2>3, <2>4, <2>5 DEF IInv, BufInv
  <2> QED BY <2>8, <2>9, <2>10, <2>11, <2>12, <2>13, <2>14 DEF BufInv
<1> QED BY <1>2, <1>3, <1>5, <1>6 DEF IInv

\* Every step of send, by its branches.
LEMMA SendStep ==
  ASSUME IInv, NEW t \in Worker, Send(t)
  PROVE  IInv'
<1>1. PICK c \in Conn : c = thr[t].c /\ conn[c].st = "open"
  BY DEF Send, Open
<1>2. SendCtx(t, c)
  BY <1>1 DEF Send, SendCtx, Thread
<1>3. CASE SendDead(t, c)
  BY <1>2, <1>3, SendDeadStep
<1>4. CASE SendBlocked(t, c)
  BY <1>2, <1>4, SendBlockedStep
<1>5. CASE SendFirst(t, c)
  BY <1>2, <1>5, SendWholeStep, SendPartStep, SendFailsStep DEF SendFirst
<1>6. CASE RemoveFd(t, c)
  BY <1>2, <1>6, RemoveFdStep
<1>7. CASE ForgetFd(t, c)
  BY <1>2, <1>7, ForgetFdStep
<1>8. CASE SendFailed(t, c)
  BY <1>2, <1>8, FinishStep DEF SendFailed
<1>9. CASE SendComplete(t, c)
  <2>1. ~StillSending(c)
    <3>1. conn[c].dead \/ conn[c].wpdu.solong = conn[c].wpdu.sz
      BY <1>1, <1>9 DEF IInv, BufInv, SendComplete
    <3>2. conn[c].wpdu.sz \in Nat
      <4>1. conn[c].wpdu \in WPdu
        BY DEF IInv, Types, Object
      <4>2. conn[c].wpdu.sz \in RepSizes \cup {0}
        BY <4>1 DEF WPdu
      <4>3. \A x \in RepSizes \cup {0} : x \in Nat
        OBVIOUS
      <4> QED BY <4>2, <4>3, Zenon
    <3> QED BY <3>1, <3>2 DEF StillSending
  <2> QED BY <1>2, <1>9, <2>1, FinishStep DEF SendComplete
<1> QED BY <1>1, <1>3, <1>4, <1>5, <1>6, <1>7, <1>8, <1>9 DEF Send

\* A spurious wakeup in block_remove_fd moves one remover on; what it leaves the poll
\* thread with is no longer said to be current.
LEMMA SpuriousRemovedStep ==
  ASSUME IInv, NEW t \in Thread, SpuriousRemoved(t)
  PROVE  IInv'
<1>1. Types /\ ThreadTypes /\ loop \in Loop
  BY DEF IInv, Types
<1>2. /\ conn' = conn /\ io' = io /\ pm' = pm /\ conns' = conns /\ jobs' = jobs
      /\ thr[t].pc \in Removing /\ thr' = [thr EXCEPT ![t].pc = Removed[@]]
      /\ loop' = [loop EXCEPT !.cut = TRUE]
  BY DEF SpuriousRemoved
<1>3. loop' \in Loop /\ loop'.cut /\ loop'.pc = loop.pc
  BY <1>1, <1>2 DEF Loop
<1>4. PICK q \in AllPc : /\ thr' = [thr EXCEPT ![t].pc = q]
                         /\ \/ thr[t].pc = "send_removing" /\ q = "send_removed"
                            \/ thr[t].pc = "close_removing" /\ q = "close_removed"
  <2>1. CASE thr[t].pc = "send_removing"
    <3>1. Removed[thr[t].pc] = "send_removed" /\ "send_removed" \in AllPc
      BY <2>1 DEF Removed, AllPc, SendPc, OwnPc
    <3>2. thr' = [thr EXCEPT ![t].pc = "send_removed"]
      BY <1>2, <3>1
    <3> QED BY <2>1, <3>1, <3>2
  <2>2. CASE thr[t].pc = "close_removing"
    <3>1. Removed[thr[t].pc] = "close_removed" /\ "close_removed" \in AllPc
      BY <2>2 DEF Removed, AllPc, ClosePc
    <3>2. thr' = [thr EXCEPT ![t].pc = "close_removed"]
      BY <1>2, <3>1
    <3> QED BY <2>2, <3>1, <3>2
  <2> QED BY <1>2, <2>1, <2>2 DEF Removing
<1>5. /\ thr' \in [Thread -> [pc : AllPc, c : Conn \cup {NULL}]]
      /\ \A u \in Thread : thr'[u].c = thr[u].c
      /\ thr'[t].pc = q /\ \A u \in Thread : u # t => thr'[u] = thr[u]
  BY <1>1, <1>4 DEF ThreadTypes, AllPc
<1>6. \A u \in Thread : \/ thr'[u].pc = thr[u].pc
                        \/ thr[u].pc = "send_removing" /\ thr'[u].pc = "send_removed"
                        \/ thr[u].pc = "close_removing" /\ thr'[u].pc = "close_removed"
  BY <1>4, <1>5
<1>7. ThreadTypes'
  <2>1. \A u \in Worker : \/ thr'[u].pc = thr[u].pc
                          \/ thr[u].pc \in SendPc /\ thr'[u].pc \in SendPc
    BY <1>1, <1>6 DEF ThreadTypes, Thread, SendPc, OwnPc, ClosePc
  <2>2. \/ thr'[Owner].pc = thr[Owner].pc
        \/ thr[Owner].pc \in ClosePc /\ thr'[Owner].pc \in ClosePc
    BY <1>1, <1>6 DEF ThreadTypes, Thread, SendPc, OwnPc, ClosePc
  <2> QED BY <1>1, <1>5, <2>1, <2>2, ThreadTypesKept
<1>8. Types'
  BY <1>1, <1>2, <1>3, <1>7 DEF Types
<1>9. SameObjects /\ SameRefs /\ SameDead /\ SameWatch /\ SameBufs /\ SameInput
  BY <1>2, <1>5 DEF SameObjects, SameRefs, SameDead, SameWatch, SameBufs, SameInput
<1>10. /\ NoneEnters(KillPc) /\ NoneEnters(Removing \cup RemovedPc) /\ NoneEnters(Removing)
       /\ NoneLeaves(RemoverPc)
  BY <1>5, <1>6 DEF NoneEnters, NoneLeaves, KillPc, RemoverPc, RemovePc, RemovedPc, Removing
<1>11. /\ NoneEnters(OwnPc) /\ NoneLeaves(OwnPc) /\ NoneEnters({"send_wait"})
       /\ NoneEnters({"send_complete"}) /\ NoneEnters({"send_signalled"})
       /\ NoneEnters(WaitPc) /\ NoneLeaves(WaitPc)
  BY <1>5, <1>6 DEF NoneEnters, NoneLeaves, OwnPc, WaitPc
<1>12. RefInv' /\ KillInv' /\ ByteInv'
  BY <1>1, <1>8, <1>9, <1>10, RefInvKept, KillInvKept, ByteInvKept DEF IInv
<1>13. WatchInv'
  BY <1>1, <1>9, <1>10, WatchInvKept DEF IInv
<1>14. WaitersInv'
  BY <1>2, <1>9, <1>11, WaitersInvKept DEF IInv
<1>15. BufInv'
  <2>1. thr[Owner].pc # "accept" => thr'[Owner].pc # "accept"
    BY <1>6 DEF Thread
  <2> QED BY <1>1, <1>2, <1>9, <1>11, <2>1, BufInvKept DEF IInv
<1>16. LoopInv'
  BY <1>3 DEF LoopInv
<1>17. RemoverWillBeWoken'
  BY <1>2, <1>3, <1>10, WokenKept DEF IInv
<1> QED BY <1>8, <1>12, <1>13, <1>14, <1>15, <1>16, <1>17 DEF IInv

-----------------------------------------------------------------------------
(* The callbacks *)

\* The poll thread is in a callback of c and leaves it in this step.
CbCtx(c) ==
  /\ c \in Conn /\ loop.cur = c /\ conn[c].st = "open" /\ UNCHANGED <<conns, aborted>>
  /\ loop'.r = loop.r /\ loop'.w = loop.w /\ loop'.cut = loop.cut
  /\ \/ loop.pc = "read_cb" /\ loop'.pc = "reads"
     \/ loop.pc = "write_cb" /\ loop'.pc = "writes"

\* A callback returns to its loop: what the poll thread still has in its hands is unchanged.
LEMMA CbReturns ==
  ASSUME IInv, NEW c, CbCtx(c), NoneEnters(RemovedPc),
         \A fd \in Fd : fd # conn[c].fd => pm'.callbacks[fd] = pm.callbacks[fd],
         \A d \in Conn : conn'[d].fd = conn[d].fd,
         \A d \in Conn : d # c => io'[d] = io[d]
  PROVE  LoopInv'
<1> SUFFICES ASSUME ~loop.cut
             PROVE  LoopCurrent'
  BY DEF LoopInv, CbCtx
<1>1. Types /\ c \in Conn /\ loop.cur = c /\ loop.r \in SUBSET Fd /\ pm.callbacks \in [Fd -> Conn \cup {NULL}]
  BY DEF CbCtx, IInv, Types, Loop, Manager
<1>2. \A t \in Thread : thr'[t].pc \in RemovedPc =>
        conn'[thr'[t].c].fd \notin loop'.r \cup loop'.w
  <2> TAKE t \in Thread
  <2> HAVE thr'[t].pc \in RemovedPc
  <2>1. thr[t].pc \in RemovedPc /\ thr'[t].c = thr[t].c
    BY DEF NoneEnters
  <2>2. thr[t].c \in Conn
    BY <1>1, <2>1, HasConn, Places
  <2>3. conn[thr[t].c].fd \notin loop.r \cup loop.w
    BY <2>1 DEF CbCtx, IInv, LoopInv, LoopCurrent
  <2> QED BY <2>1, <2>2, <2>3 DEF CbCtx
<1>3. loop'.pc = "reads" => \A fd \in loop'.r : pm'.callbacks[fd] # NULL /\ Input(pm.callbacks[fd])'
  <2> HAVE loop'.pc = "reads"
  <2> TAKE fd \in loop'.r
  <2>1. loop.pc = "read_cb" /\ fd \in loop.r /\ fd \in Fd
    BY <1>1 DEF CbCtx
  <2>2. fd # conn[c].fd /\ pm.callbacks[fd] # NULL /\ Input(pm.callbacks[fd])
    BY <1>1, <2>1 DEF IInv, LoopInv, LoopCurrent
  <2>3. PICK d \in Conn : d = pm.callbacks[fd]
    BY <1>1, <2>1, <2>2
  <2>4. d # c
    BY <2>1, <2>2, <2>3 DEF IInv, WatchInv
  <2>5. pm'.callbacks[fd] = d /\ io'[d] = io[d]
    BY <2>1, <2>2, <2>3, <2>4
  <2> QED BY <2>2, <2>3, <2>5 DEF Input
<1>4. loop'.pc = "writes" => loop'.r = {}
  BY DEF CbCtx, IInv, LoopInv, LoopCurrent
<1>5. loop'.pc \in {"reads", "writes"}
  BY DEF CbCtx
<1> QED BY <1>2, <1>3, <1>4, <1>5 DEF LoopCurrent, CbPc

\* A connection in a callback that is alive is registered under its descriptor,
\* which no other one has.
LEMMA CbAlive ==
  ASSUME IInv, NEW c, CbCtx(c), ~conn[c].dead
  PROVE  /\ conn[c].fd \in Fd /\ pm.callbacks[conn[c].fd] = c /\ conn[c].fd \in pm.rfds
         /\ \A d \in Open : d # c => conn[d].fd # conn[c].fd
<1>1. c \in Open
  BY DEF CbCtx, Open
<1> QED BY <1>1 DEF IInv, RefInv, WatchInv

\* read_cb and write_cb declare the connection dead: del_callback and a signal.
Declares(c) ==
  /\ \A d \in Conn : d # c => conn'[d] = conn[d] /\ io'[d] = io[d]
  /\ conn'[c].st = conn[c].st /\ conn'[c].fd = conn[c].fd /\ conn'[c].refno = conn[c].refno
  /\ conn'[c].waiters = conn[c].waiters /\ conn'[c].buf = conn[c].buf /\ conn'[c].dead
  /\ pm' = DelBoth(pm, conn[c].fd) /\ SignalComplete(c) /\ jobs' = jobs

\* del_callback for both flags removes the descriptor and its callback.
LEMMA DelBothEffect ==
  ASSUME Types, NEW fd \in Fd, pm' = DelBoth(pm, fd)
  PROVE  /\ pm' \in Manager /\ pm'.rfds = pm.rfds \ {fd} /\ pm'.wfds = pm.wfds \ {fd}
         /\ pm'.pending_change = pm.pending_change /\ pm'.pipe = pm.pipe + 1
         /\ pm'.callbacks[fd] = NULL /\ \A f \in Fd : f # fd => pm'.callbacks[f] = pm.callbacks[f]
<1>1. pm \in Manager
  BY DEF Types
<1> DEFINE q == Unwatch(pm, fd)
<1>2. pm.pipe + 1 \in Nat /\ pm.rfds \ {fd} \in SUBSET Fd /\ pm.wfds \ {fd} \in SUBSET Fd
  BY <1>1 DEF Manager
<1>3. q = [pm EXCEPT !.rfds = pm.rfds \ {fd}, !.wfds = pm.wfds \ {fd}, !.pipe = pm.pipe + 1]
  BY <1>1 DEF Unwatch, Manager
<1>4. /\ q \in Manager /\ q.rfds = pm.rfds \ {fd} /\ q.wfds = pm.wfds \ {fd}
      /\ q.pending_change = pm.pending_change /\ q.pipe = pm.pipe + 1 /\ q.callbacks = pm.callbacks
  BY <1>1, <1>2, <1>3 DEF Manager
<1>5. pm' = [q EXCEPT !.callbacks[fd] = NULL]
  BY DEF DelBoth
<1> HIDE DEF q
<1>6. [q.callbacks EXCEPT ![fd] = NULL] \in [Fd -> Conn \cup {NULL}]
  BY <1>4 DEF Manager
<1>7. pm' \in Manager /\ pm'.callbacks = [q.callbacks EXCEPT ![fd] = NULL] /\ pm'.rfds = q.rfds
      /\ pm'.wfds = q.wfds /\ pm'.pending_change = q.pending_change /\ pm'.pipe = q.pipe
  BY <1>4, <1>5, <1>6 DEF Manager
<1>8. pm'.callbacks[fd] = NULL /\ \A f \in Fd : f # fd => pm'.callbacks[f] = pm.callbacks[f]
  BY <1>1, <1>4, <1>7 DEF Manager
<1> QED BY <1>4, <1>7, <1>8

\* A callback that declares its connection dead: no other thread has, so nobody is
\* removing it, and the sender that owns the buffer is signalled.
LEMMA DeclaresStep ==
  ASSUME IInv, Types', NEW c, CbCtx(c), ~conn[c].dead, Declares(c)
  PROVE  /\ RefInv' /\ KillInv' /\ WatchInv' /\ LoopInv' /\ BufInv' /\ WaitersInv'
         /\ RemoverWillBeWoken'
<1>1. Types /\ c \in Conn /\ conn[c].st = "open" /\ c \in Open
  BY DEF IInv, CbCtx, Open
<1>2. /\ conn[c].fd \in Fd /\ pm.callbacks[conn[c].fd] = c /\ conn[c].fd \in pm.rfds
      /\ \A d \in Open : d # c => conn[d].fd # conn[c].fd
  BY CbAlive
<1>3. /\ pm'.rfds = pm.rfds \ {conn[c].fd} /\ pm'.wfds = pm.wfds \ {conn[c].fd}
      /\ pm'.pending_change = pm.pending_change /\ pm'.pipe = pm.pipe + 1
      /\ pm'.callbacks[conn[c].fd] = NULL
      /\ \A f \in Fd : f # conn[c].fd => pm'.callbacks[f] = pm.callbacks[f]
  <2>1. PICK fd \in Fd : fd = conn[c].fd
    BY <1>2
  <2>2. pm' = DelBoth(pm, fd)
    BY <2>1 DEF Declares
  <2> QED BY <1>1, <2>1, <2>2, DelBothEffect
<1>4. \A u \in Thread :
        /\ thr'[u].c = thr[u].c
        /\ \/ thr'[u] = thr[u] /\ ~(thr[u].c = c /\ thr[u].pc = "send_complete")
           \/ /\ thr[u].c = c /\ thr[u].pc = "send_complete"
              /\ thr'[u].pc = "send_signalled"
  BY <1>1, SignalEffect DEF Declares
<1>5. SameObjects /\ SameRefs
  BY <1>4 DEF SameObjects, SameRefs, Declares, CbCtx
<1>6. \A d \in Conn : /\ conn'[d].st = conn[d].st /\ conn'[d].fd = conn[d].fd
                      /\ conn'[d].waiters = conn[d].waiters /\ conn'[d].buf = conn[d].buf
                      /\ d # c => conn'[d] = conn[d] /\ io'[d] = io[d]
  BY DEF Declares
<1>7. NoneEnters(KillPc) /\ NoneEnters(RemovedPc) /\ NoneEnters(Removing)
      /\ NoneEnters(Removing \cup RemovedPc) /\ NoneLeaves(RemoverPc)
      /\ NoneEnters(WaitPc) /\ NoneLeaves(WaitPc)
  BY <1>4 DEF NoneEnters, NoneLeaves, KillPc, RemoverPc, RemovePc, RemovedPc, Removing, WaitPc
<1>8. RefInv'
  BY <1>1, <1>5, RefInvKept DEF IInv
<1>9. KillInv'
  BY <1>1, <1>5, <1>7, KillInvKept DEF IInv
<1>10. LoopInv'
  BY <1>3, <1>6, <1>7, CbReturns
<1>11. WaitersInv'
  BY <1>5, <1>6, <1>7, WaitersInvKept DEF IInv
<1>12. RemoverWillBeWoken'
  BY <1>3, <1>7, WokenKept DEF IInv, CbCtx
<1>13. WatchInv'
  <2>1. Open' = Open
    BY <1>6 DEF Open
  <2>2. \A fd \in Fd : pm'.callbacks[fd] # NULL =>
          conn'[pm'.callbacks[fd]].st = "open" /\ conn'[pm'.callbacks[fd]].fd = fd
    BY <1>1, <1>3, <1>6 DEF IInv, WatchInv, Types, Manager
  <2>3. \A fd \in pm'.rfds \cup pm'.wfds : pm'.callbacks[fd] # NULL
    <3>1. pm.rfds \in SUBSET Fd /\ pm.wfds \in SUBSET Fd
      BY <1>1 DEF Types, Manager
    <3> QED BY <1>3, <3>1 DEF IInv, WatchInv
  <2>4. \A d \in Open' : ~conn'[d].dead => pm'.callbacks[conn'[d].fd] = d /\ conn'[d].fd \in pm'.rfds
    <3> TAKE d \in Open'
    <3> HAVE ~conn'[d].dead
    <3>1. d \in Open /\ d # c /\ d \in Conn
      BY <2>1 DEF Declares, Open
    <3>2. conn[d].fd \in Fd /\ conn[d].fd # conn[c].fd
      BY <1>2, <3>1 DEF IInv, RefInv
    <3> QED BY <1>3, <1>6, <3>1, <3>2 DEF IInv, WatchInv
  <2>5. \A u \in Thread : thr'[u].pc \in Removing \cup RemovedPc =>
          conn'[thr'[u].c].fd \notin pm'.rfds \cup pm'.wfds
    <3> TAKE u \in Thread
    <3> HAVE thr'[u].pc \in Removing \cup RemovedPc
    <3>1. thr[u].pc \in Removing \cup RemovedPc /\ thr'[u].c = thr[u].c
      BY <1>7 DEF NoneEnters
    <3>2. thr[u].c \in Conn
      BY <1>1, <3>1, HasConn, Places
    <3> QED BY <1>3, <1>6, <3>1, <3>2 DEF IInv, WatchInv
  <2>6. \A d \in Open' : conn'[d].dead
            /\ (\A u \in Thread : thr'[u].pc \in RemoverPc => thr'[u].c # d) =>
          pm'.callbacks[conn'[d].fd] = NULL
    <3> TAKE d \in Open'
    <3> HAVE conn'[d].dead /\ (\A u \in Thread : thr'[u].pc \in RemoverPc => thr'[u].c # d)
    <3>1. d \in Open /\ d \in Conn
      BY <2>1 DEF Open
    <3>2. CASE d = c
      BY <1>3, <1>6, <3>1, <3>2
    <3>3. CASE d # c
      <4>1. \A u \in Thread : thr[u].pc \in RemoverPc => thr[u].c # d
        BY <1>7 DEF NoneLeaves
      <4>2. pm.callbacks[conn[d].fd] = NULL /\ conn'[d] = conn[d]
        BY <1>6, <3>1, <3>3, <4>1 DEF IInv, WatchInv
      <4>3. conn[d].fd \in Fd /\ conn[d].fd # conn[c].fd
        BY <1>2, <3>1, <3>3 DEF IInv, RefInv
      <4> QED BY <1>3, <4>2, <4>3
    <3> QED BY <3>2, <3>3
  <2> QED BY <2>2, <2>3, <2>4, <2>5, <2>6 DEF WatchInv
<1>14. BufInv'
  <2>1. \A u \in Worker : /\ u \in Thread /\ thr'[u].c = thr[u].c
                          /\ \/ thr'[u].pc = thr[u].pc /\ ~(thr[u].c = c /\ thr[u].pc = "send_complete")
                             \/ thr[u].c = c /\ thr[u].pc = "send_complete" /\ thr'[u].pc = "send_signalled"
    BY <1>4 DEF Thread
  <2>2. \A u \in Worker : thr[u].pc \in OwnPc \cup {"send_wait"} => thr[u].c \in Conn
    BY <1>1 DEF Types, ThreadTypes, OwnPc
  <2>3. {"send_complete", "send_signalled"} \subseteq OwnPc /\ "send_wait" \notin OwnPc
    BY DEF OwnPc
  <2>4. \A u \in Worker : thr'[u].pc \in OwnPc <=> thr[u].pc \in OwnPc
    BY <2>1, <2>3
  <2>5. \A u \in Worker : thr'[u].pc \in OwnPc => conn'[thr'[u].c].buf
    BY <1>6, <2>1, <2>2, <2>4 DEF IInv, BufInv
  <2>6. \A u, v \in Worker : thr'[u].pc \in OwnPc /\ thr'[v].pc \in OwnPc /\ thr'[u].c = thr'[v].c => u = v
    BY <2>1, <2>4 DEF IInv, BufInv
  <2>7. \A d \in Open' : conn'[d].buf => \E u \in Worker : thr'[u].c = d /\ thr'[u].pc \in OwnPc
    BY <1>6, <2>1, <2>4 DEF IInv, BufInv, Open
  <2>8. \A u \in Worker : thr'[u].pc = "send_wait" => conn'[thr'[u].c].buf
    BY <1>6, <2>1, <2>2 DEF IInv, BufInv
  <2>9. \A d \in Open' : ~conn'[d].dead => conn'[d].wpdu.solong \in 0 .. conn'[d].wpdu.sz
    BY <1>6 DEF IInv, BufInv, Open, Declares
  <2>10. \A u \in Worker : thr'[u].pc = "send_complete" =>
           \/ /\ ~conn'[thr'[u].c].dead /\ conn'[thr'[u].c].wpdu.solong < conn'[thr'[u].c].wpdu.sz
              /\ conn'[thr'[u].c].fd \in pm'.wfds
           \/ conn'[thr'[u].c].dead /\ thr'[Owner].pc # "accept"
    <3> TAKE u \in Worker
    <3> HAVE thr'[u].pc = "send_complete"
    <3>1. thr[u].pc = "send_complete" /\ thr'[u].c = thr[u].c /\ thr[u].c \in Conn /\ thr[u].c # c /\ u \in Thread
      BY <2>1, <2>2, <2>3
    <3>2. thr[u].c \in Open
      BY <3>1, HeldIsOpen DEF IInv, Open
    <3>3. conn[thr[u].c].fd # conn[c].fd /\ conn'[thr[u].c] = conn[thr[u].c]
      BY <1>2, <1>6, <3>1, <3>2
    <3>4. thr'[Owner].pc = "accept" => thr[Owner].pc = "accept"
      BY <1>4 DEF Thread
    <3>5. \/ /\ ~conn[thr[u].c].dead /\ conn[thr[u].c].wpdu.solong < conn[thr[u].c].wpdu.sz
             /\ conn[thr[u].c].fd \in pm.wfds
          \/ conn[thr[u].c].dead /\ thr[Owner].pc # "accept"
      BY <3>1 DEF IInv, BufInv
    <3> QED BY <1>3, <3>1, <3>3, <3>4, <3>5
  <2>11. \A u \in Worker : thr'[u].pc = "send_signalled" =>
           conn'[thr'[u].c].dead \/ conn'[thr'[u].c].wpdu.solong = conn'[thr'[u].c].wpdu.sz
    <3> TAKE u \in Worker
    <3> HAVE thr'[u].pc = "send_signalled"
    <3>1. CASE thr[u].c = c
      BY <2>1, <3>1 DEF Declares
    <3>2. CASE thr[u].c # c
      <4>1. thr[u].pc = "send_signalled" /\ thr'[u].c = thr[u].c /\ thr[u].c \in Conn
        BY <2>1, <2>2, <2>3, <3>2
      <4> QED BY <1>6, <3>2, <4>1 DEF IInv, BufInv
    <3> QED BY <3>1, <3>2
  <2> QED BY <2>5, <2>6, <2>7, <2>8, <2>9, <2>10, <2>11 DEF BufInv
<1> QED BY <1>8, <1>9, <1>10, <1>11, <1>12, <1>13, <1>14

\* The size and the progress of the PDU that is written on a live connection.
LEMMA WpduRange ==
  ASSUME IInv, NEW c \in Conn, conn[c].st = "open", ~conn[c].dead
  PROVE  /\ conn[c].wpdu \in WPdu /\ conn[c].wpdu.sz \in Nat /\ conn[c].wpdu.sz \in RepSizes \cup {0}
         /\ conn[c].wpdu.solong \in Int /\ 0 <= conn[c].wpdu.solong
         /\ conn[c].wpdu.solong <= conn[c].wpdu.sz
<1>1. conn[c].wpdu \in WPdu
  BY DEF IInv, Types, Object
<1>2. conn[c].wpdu.sz \in RepSizes \cup {0}
  BY <1>1 DEF WPdu
<1>3. \A x \in RepSizes \cup {0} : x \in Nat
  OBVIOUS
<1>4. conn[c].wpdu.sz \in Nat
  BY <1>2, <1>3, Zenon
<1>5. conn[c].wpdu.solong \in 0 .. conn[c].wpdu.sz
  BY DEF IInv, BufInv, Open
<1> QED BY <1>1, <1>2, <1>4, <1>5

\* write_cb with nothing to write.
LEMMA WriteCbIdle ==
  ASSUME IInv, NEW c, CbCtx(c), loop' \in Loop, ~conn[c].dead, conn[c].wpdu.sz = 0,
         pm' = DelWrite(pm, conn[c].fd), UNCHANGED <<conn, io, thr, jobs>>
  PROVE  IInv'
<1>1. Types /\ c \in Conn /\ conn[c].st = "open" /\ c \in Open
  BY DEF IInv, CbCtx, Open
<1>2. /\ conn[c].fd \in Fd /\ pm.callbacks[conn[c].fd] = c /\ conn[c].fd \in pm.rfds
      /\ \A d \in Open : d # c => conn[d].fd # conn[c].fd
  BY CbAlive
<1>3. /\ pm' \in Manager /\ pm'.rfds = pm.rfds /\ pm'.wfds = pm.wfds \ {conn[c].fd}
      /\ pm'.callbacks = pm.callbacks /\ pm'.pending_change = pm.pending_change
  <2>1. pm \in Manager
    BY <1>1 DEF Types
  <2>2. pm' = [pm EXCEPT !.wfds = @ \ {conn[c].fd},
                         !.callbacks = [@ EXCEPT ![conn[c].fd] = pm.callbacks[conn[c].fd]]]
    BY <1>2, <2>1 DEF DelWrite, Manager
  <2>3. [pm.callbacks EXCEPT ![conn[c].fd] = pm.callbacks[conn[c].fd]] = pm.callbacks
    BY <1>2, <2>1 DEF Manager
  <2>4. pm.wfds \ {conn[c].fd} \in SUBSET Fd
    BY <2>1 DEF Manager
  <2> QED BY <2>1, <2>2, <2>3, <2>4 DEF Manager
<1>4. Types'
  BY <1>1, <1>3 DEF Types, ThreadTypes, CbCtx
<1>5. SameObjects /\ SameRefs /\ SameDead /\ SameBufs /\ SameInput
  BY DEF SameObjects, SameRefs, SameDead, SameBufs, SameInput, CbCtx
<1>6. \A P : NoneEnters(P) /\ NoneLeaves(P)
  BY DEF NoneEnters, NoneLeaves
<1>7. RefInv'
  BY <1>1, <1>4, <1>5, RefInvKept DEF IInv
<1>8. KillInv'
  BY <1>1, <1>5, <1>6, KillInvKept DEF IInv
<1>9. LoopInv'
  BY <1>3, <1>6, CbReturns
<1>10. WaitersInv'
  BY <1>5, <1>6, WaitersInvKept DEF IInv
<1>11. ByteInv'
  BY <1>5, ByteInvKept DEF IInv
<1>12. RemoverWillBeWoken'
  BY <1>3, <1>6, WokenKept DEF IInv, CbCtx
<1>13. WatchInv'
  BY <1>3 DEF IInv, WatchInv, Open
<1>14. BufInv'
  <2>1. \A u \in Worker : /\ thr[u].pc = "send_complete" /\ ~conn[thr[u].c].dead
                          /\ conn[thr[u].c].fd \in pm.wfds
                          => conn[thr[u].c].fd \in pm'.wfds
    <3> TAKE u \in Worker
    <3> HAVE /\ thr[u].pc = "send_complete" /\ ~conn[thr[u].c].dead
             /\ conn[thr[u].c].fd \in pm.wfds
    <3>1. thr[u].c \in Conn /\ u \in Thread
      BY <1>1 DEF Types, ThreadTypes, Thread
    <3>2. thr[u].c \in Open
      BY <3>1, HeldIsOpen DEF IInv, Open
    <3>3. conn[thr[u].c].wpdu.solong < conn[thr[u].c].wpdu.sz
      BY DEF IInv, BufInv
    <3>4. thr[u].c # c
      BY <1>1, <3>3, WpduRange
    <3> QED BY <1>2, <1>3, <3>2, <3>4
  <2> QED BY <1>1, <1>5, <1>6, <2>1, BufInvKept DEF IInv
<1> QED BY <1>4, <1>7, <1>8, <1>9, <1>10, <1>11, <1>12, <1>13, <1>14 DEF IInv

\* write_cb writes n bytes.
LEMMA WriteCbWrites ==
  ASSUME IInv, NEW c, CbCtx(c), loop' \in Loop, ~conn[c].dead,
         NEW n \in WriteResults(io[c], conn[c].wpdu.sz - conn[c].wpdu.solong), n >= 0,
         conn' = [conn EXCEPT ![c].wpdu.solong = @ + n],
         io' = [io EXCEPT ![c].room = @ - n],
         IF conn[c].wpdu.solong + n = conn[c].wpdu.sz THEN SignalComplete(c) ELSE UNCHANGED thr,
         pm' = pm, jobs' = jobs
  PROVE  IInv'
<1>1. Types /\ c \in Conn /\ conn[c].st = "open" /\ c \in Open
  BY DEF IInv, CbCtx, Open
<1>2. /\ conn[c].wpdu \in WPdu /\ conn[c].wpdu.sz \in Nat
      /\ conn[c].wpdu.solong \in Int /\ 0 <= conn[c].wpdu.solong
      /\ conn[c].wpdu.solong <= conn[c].wpdu.sz
  BY <1>1, WpduRange
<1>3. conn \in [Conn -> Object] /\ conn[c] \in Object /\ io \in [Conn -> Socket] /\ io[c] \in Socket
  BY <1>1 DEF Types
<1>4. n \in Int /\ 0 <= n /\ n <= conn[c].wpdu.sz - conn[c].wpdu.solong
  <2>1. PICK rest \in Nat : rest = conn[c].wpdu.sz - conn[c].wpdu.solong
    BY <1>2
  <2>2. n \in Int /\ n <= rest
    BY <1>3, <2>1, WriteRange
  <2> QED BY <2>1, <2>2
<1> DEFINE k == conn[c].wpdu.solong + n
           w == [conn[c].wpdu EXCEPT !.solong = k]
           o == [conn[c] EXCEPT !.wpdu = w]
           s == [io[c] EXCEPT !.room = @ - n]
<1>5. k \in Int /\ 0 <= k /\ k <= conn[c].wpdu.sz /\ (conn[c].wpdu.solong = conn[c].wpdu.sz => k = conn[c].wpdu.sz)
  BY <1>2, <1>4
<1>6. conn' = [conn EXCEPT ![c] = o] /\ io' = [io EXCEPT ![c] = s]
  BY <1>3
<1>7. IF k = conn[c].wpdu.sz THEN SignalComplete(c) ELSE UNCHANGED thr
  OBVIOUS
<1> HIDE DEF k
<1>8. w \in WPdu /\ w.solong = k /\ w.sz = conn[c].wpdu.sz
  BY <1>2, <1>5 DEF WPdu
<1> HIDE DEF w
<1>9. /\ o \in Object /\ o.wpdu = w /\ o.st = conn[c].st /\ o.fd = conn[c].fd /\ o.refno = conn[c].refno
      /\ o.dead = conn[c].dead /\ o.waiters = conn[c].waiters /\ o.buf = conn[c].buf
      /\ o.rpdu = conn[c].rpdu
  BY <1>3, <1>8 DEF Object
<1>10. /\ s \in Socket /\ s.inq = io[c].inq /\ s.sent = io[c].sent /\ s.got = io[c].got
       /\ s.eof = io[c].eof /\ s.down = io[c].down
  BY <1>3, <1>4 DEF Socket
<1> HIDE DEF o, s
<1>11. /\ conn' \in [Conn -> Object] /\ io' \in [Conn -> Socket]
       /\ conn'[c] = o /\ io'[c] = s
       /\ \A d \in Conn : d # c => conn'[d] = conn[d] /\ io'[d] = io[d]
  <2>1. conn' \in [Conn -> Object] /\ conn'[c] = o /\ \A d \in Conn : d # c => conn'[d] = conn[d]
    BY <1>1, <1>3, <1>6, <1>9
  <2>2. io' \in [Conn -> Socket] /\ io'[c] = s /\ \A d \in Conn : d # c => io'[d] = io[d]
    BY <1>1, <1>3, <1>6, <1>10
  <2> QED BY <2>1, <2>2
<1>12. /\ ThreadTypes'
       /\ \A u \in Thread :
            /\ thr'[u].c = thr[u].c
            /\ \/ thr'[u] = thr[u] /\ (k = conn[c].wpdu.sz => ~(thr[u].c = c /\ thr[u].pc = "send_complete"))
               \/ /\ thr[u].c = c /\ thr[u].pc = "send_complete" /\ k = conn[c].wpdu.sz
                  /\ thr'[u].pc = "send_signalled"
  <2>1. CASE k = conn[c].wpdu.sz
    BY <1>1, <1>7, <2>1, SignalEffect
  <2>2. CASE k # conn[c].wpdu.sz
    BY <1>1, <1>7, <2>2 DEF Types, ThreadTypes
  <2> QED BY <2>1, <2>2
<1>13. Types'
  BY <1>1, <1>11, <1>12 DEF Types, CbCtx
<1>14. SameObjects /\ SameRefs /\ SameDead /\ SameInput /\ SameWatch
  <2>1. \A d \in Conn : /\ conn'[d].st = conn[d].st /\ conn'[d].fd = conn[d].fd /\ conn'[d].refno = conn[d].refno
                        /\ conn'[d].dead = conn[d].dead /\ conn'[d].rpdu = conn[d].rpdu
                        /\ io'[d].inq = io[d].inq /\ io'[d].sent = io[d].sent /\ io'[d].got = io[d].got
    BY <1>9, <1>10, <1>11
  <2>2. \A d \in Conn : conn[d].st # "open" => io'[d] = io[d]
    BY <1>1, <1>11
  <2> QED BY <1>12, <2>1, <2>2 DEF SameObjects, SameRefs, SameDead, SameInput, SameWatch, CbCtx
<1>15. NoneEnters(KillPc) /\ NoneEnters(RemovedPc) /\ NoneEnters(Removing)
      /\ NoneEnters(Removing \cup RemovedPc) /\ NoneLeaves(RemoverPc)
      /\ NoneEnters(WaitPc) /\ NoneLeaves(WaitPc)
  BY <1>12 DEF NoneEnters, NoneLeaves, KillPc, RemoverPc, RemovePc, RemovedPc, Removing, WaitPc
<1>16. RefInv'
  BY <1>1, <1>13, <1>14, RefInvKept DEF IInv
<1>17. KillInv'
  BY <1>1, <1>14, <1>15, KillInvKept DEF IInv
<1>18. LoopInv'
  <2>1. \A d \in Conn : conn'[d].fd = conn[d].fd
    BY <1>14 DEF SameObjects
  <2> QED BY <1>11, <1>15, <2>1, CbReturns
<1>19. WaitersInv'
  <2>1. \A d \in Conn : conn'[d].waiters = conn[d].waiters
    BY <1>9, <1>11
  <2> QED BY <1>14, <1>15, <2>1, WaitersInvKept DEF IInv
<1>20. ByteInv'
  BY <1>14, ByteInvKept DEF IInv
<1>21. RemoverWillBeWoken'
  BY <1>15, WokenKept DEF IInv, CbCtx
<1>22. WatchInv'
  BY <1>1, <1>14, <1>15, WatchInvKept DEF IInv
<1>23. BufInv'
  <2>1. \A u \in Worker : /\ u \in Thread /\ thr'[u].c = thr[u].c
                          /\ \/ thr'[u].pc = thr[u].pc
                                /\ (k = conn[c].wpdu.sz => ~(thr[u].c = c /\ thr[u].pc = "send_complete"))
                             \/ /\ thr[u].c = c /\ thr[u].pc = "send_complete" /\ k = conn[c].wpdu.sz
                                /\ thr'[u].pc = "send_signalled"
    BY <1>12 DEF Thread
  <2>2. \A u \in Worker : thr[u].pc \in OwnPc \cup {"send_wait"} => thr[u].c \in Conn
    BY <1>1 DEF Types, ThreadTypes, OwnPc
  <2>3. {"send_complete", "send_signalled"} \subseteq OwnPc /\ "send_wait" \notin OwnPc
    BY DEF OwnPc
  <2>4. \A u \in Worker : thr'[u].pc \in OwnPc <=> thr[u].pc \in OwnPc
    BY <2>1, <2>3
  <2>5. \A d \in Conn : /\ conn'[d].buf = conn[d].buf /\ conn'[d].st = conn[d].st
                        /\ conn'[d].dead = conn[d].dead /\ conn'[d].fd = conn[d].fd
                        /\ d # c => conn'[d] = conn[d]
    BY <1>9, <1>11
  <2>6. conn'[c].wpdu.solong = k /\ conn'[c].wpdu.sz = conn[c].wpdu.sz
    BY <1>8, <1>9, <1>11
  <2>7. \A u \in Worker : thr'[u].pc \in OwnPc => conn'[thr'[u].c].buf
    BY <2>1, <2>2, <2>4, <2>5 DEF IInv, BufInv
  <2>8. \A u, v \in Worker : thr'[u].pc \in OwnPc /\ thr'[v].pc \in OwnPc /\ thr'[u].c = thr'[v].c => u = v
    BY <2>1, <2>4 DEF IInv, BufInv
  <2>9. \A d \in Open' : conn'[d].buf => \E u \in Worker : thr'[u].c = d /\ thr'[u].pc \in OwnPc
    BY <2>1, <2>4, <2>5 DEF IInv, BufInv, Open
  <2>10. \A u \in Worker : thr'[u].pc = "send_wait" => conn'[thr'[u].c].buf
    BY <2>1, <2>2, <2>5 DEF IInv, BufInv
  <2>11. \A d \in Open' : ~conn'[d].dead => conn'[d].wpdu.solong \in 0 .. conn'[d].wpdu.sz
    <3> TAKE d \in Open'
    <3> HAVE ~conn'[d].dead
    <3>1. CASE d = c
      BY <1>2, <1>5, <2>6, <3>1
    <3>2. CASE d # c
      BY <2>5, <3>2 DEF IInv, BufInv, Open
    <3> QED BY <3>1, <3>2
  <2>12. \A u \in Worker : thr'[u].pc = "send_complete" =>
           \/ /\ ~conn'[thr'[u].c].dead /\ conn'[thr'[u].c].wpdu.solong < conn'[thr'[u].c].wpdu.sz
              /\ conn'[thr'[u].c].fd \in pm'.wfds
           \/ conn'[thr'[u].c].dead /\ thr'[Owner].pc # "accept"
    <3> TAKE u \in Worker
    <3> HAVE thr'[u].pc = "send_complete"
    <3>1. thr[u].pc = "send_complete" /\ thr'[u].c = thr[u].c /\ thr[u].c \in Conn
          /\ (k = conn[c].wpdu.sz => thr[u].c # c)
      BY <2>1, <2>2, <2>3
    <3>2. thr'[Owner].pc = "accept" => thr[Owner].pc = "accept"
      BY <1>12 DEF Thread
    <3>3. \/ /\ ~conn[thr[u].c].dead /\ conn[thr[u].c].wpdu.solong < conn[thr[u].c].wpdu.sz
             /\ conn[thr[u].c].fd \in pm.wfds
          \/ conn[thr[u].c].dead /\ thr[Owner].pc # "accept"
      BY <3>1 DEF IInv, BufInv
    <3>4. CASE thr[u].c = c
      <4>1. k < conn[c].wpdu.sz
        BY <1>2, <1>5, <3>1, <3>4
      <4> QED BY <2>5, <2>6, <3>1, <3>3, <3>4, <4>1
    <3>5. CASE thr[u].c # c
      BY <2>5, <3>1, <3>2, <3>3, <3>5
    <3> QED BY <3>4, <3>5
  <2>13. \A u \in Worker : thr'[u].pc = "send_signalled" =>
           conn'[thr'[u].c].dead \/ conn'[thr'[u].c].wpdu.solong = conn'[thr'[u].c].wpdu.sz
    <3> TAKE u \in Worker
    <3> HAVE thr'[u].pc = "send_signalled"
    <3>1. CASE thr[u].pc = "send_complete"
      BY <2>1, <2>6, <3>1
    <3>2. CASE thr[u].pc # "send_complete"
      <4>1. thr[u].pc = "send_signalled" /\ thr'[u].c = thr[u].c /\ thr[u].c \in Conn
        BY <2>1, <2>2, <2>3, <3>2
      <4>2. conn[thr[u].c].dead \/ conn[thr[u].c].wpdu.solong = conn[thr[u].c].wpdu.sz
        BY <4>1 DEF IInv, BufInv
      <4>3. CASE thr[u].c = c
        BY <1>5, <2>5, <2>6, <4>1, <4>2, <4>3
      <4>4. CASE thr[u].c # c
        BY <2>5, <4>1, <4>2, <4>4
      <4> QED BY <4>3, <4>4
    <3> QED BY <3>1, <3>2
  <2> QED BY <2>7, <2>8, <2>9, <2>10, <2>11, <2>12, <2>13 DEF BufInv
<1> QED BY <1>13, <1>16, <1>17, <1>18, <1>19, <1>20, <1>21, <1>22, <1>23 DEF IInv

\* A write_cb whose write fails.
LEMMA WriteCbFails ==
  ASSUME IInv, NEW c, CbCtx(c), loop' \in Loop, ~conn[c].dead,
         conn' = [conn EXCEPT ![c].dead = TRUE, ![c].wpdu = [sz |-> 0, solong |-> -1]],
         pm' = DelBoth(pm, conn[c].fd), SignalComplete(c), io' = io, jobs' = jobs
  PROVE  IInv'
<1>1. Types /\ c \in Conn /\ conn[c].st = "open" /\ conn[c].fd \in Fd
  BY CbAlive DEF IInv, CbCtx
<1>2. conn \in [Conn -> Object] /\ conn[c] \in Object
  BY <1>1 DEF Types
<1> DEFINE w == [sz |-> 0, solong |-> -1]
           o == [conn[c] EXCEPT !.dead = TRUE, !.wpdu = w]
<1>3. conn' = [conn EXCEPT ![c] = o]
  BY <1>2
<1>4. w \in WPdu
  BY DEF WPdu
<1> HIDE DEF w
<1>5. /\ o \in Object /\ o.st = conn[c].st /\ o.fd = conn[c].fd /\ o.refno = conn[c].refno /\ o.dead
      /\ o.waiters = conn[c].waiters /\ o.buf = conn[c].buf /\ o.rpdu = conn[c].rpdu
  BY <1>2, <1>4 DEF Object
<1> HIDE DEF o
<1>6. conn' \in [Conn -> Object] /\ conn'[c] = o /\ \A d \in Conn : d # c => conn'[d] = conn[d]
  BY <1>1, <1>2, <1>3, <1>5
<1>7. ThreadTypes'
  BY <1>1, SignalEffect
<1>8. pm' \in Manager
  BY <1>1, DelBothEffect
<1>9. Types'
  BY <1>1, <1>6, <1>7, <1>8 DEF Types, CbCtx
<1>10. Declares(c)
  BY <1>5, <1>6 DEF Declares
<1>11. ByteInv'
  <2>1. SameObjects /\ SameInput
    BY <1>5, <1>6 DEF SameObjects, SameInput
  <2> QED BY <2>1, ByteInvKept DEF IInv
<1> QED BY <1>9, <1>10, <1>11, DeclaresStep DEF IInv

\* write_cb, by its branches: nothing to write, failed, in part, finished.
LEMMA WriteCbStep ==
  ASSUME IInv, WriteCb
  PROVE  IInv'
<1>1. PICK c \in Conn : c = loop.cur /\ conn[c].st = "open" /\ ~conn[c].dead
  BY DEF WriteCb, Open
<1>2. loop \in Loop
  BY DEF IInv, Types
<1>3. /\ loop.pc = "write_cb" /\ conns' = conns /\ jobs' = jobs /\ aborted' = aborted
  BY DEF WriteCb
<1>4. CASE /\ conn[c].wpdu.sz = 0
           /\ pm' = DelWrite(pm, conn[c].fd)
           /\ loop' = [loop EXCEPT !.cur = NULL, !.pc = "writes"]
           /\ UNCHANGED <<conn, io, thr>>
  <2>1. /\ loop' \in Loop /\ loop'.pc = "writes" /\ loop'.r = loop.r /\ loop'.w = loop.w
        /\ loop'.cut = loop.cut
    BY <1>2, <1>4 DEF Loop
  <2>2. CbCtx(c)
    BY <1>1, <1>3, <2>1 DEF CbCtx
  <2> QED BY <1>1, <1>3, <1>4, <2>1, <2>2, WriteCbIdle
<1>5. CASE /\ conn' = [conn EXCEPT ![c].dead = TRUE, ![c].wpdu = [sz |-> 0, solong |-> -1]]
           /\ pm' = DelBoth(pm, conn[c].fd)
           /\ loop' = [loop EXCEPT !.cur = NULL, !.pc = "writes"]
           /\ SignalComplete(c)
           /\ UNCHANGED io
  <2>1. /\ loop' \in Loop /\ loop'.pc = "writes" /\ loop'.r = loop.r /\ loop'.w = loop.w
        /\ loop'.cut = loop.cut
    BY <1>2, <1>5 DEF Loop
  <2>2. CbCtx(c)
    BY <1>1, <1>3, <2>1 DEF CbCtx
  <2> QED BY <1>1, <1>3, <1>5, <2>1, <2>2, WriteCbFails
<1>6. ASSUME NEW n \in WriteResults(io[c], conn[c].wpdu.sz - conn[c].wpdu.solong), n >= 0,
             conn' = [conn EXCEPT ![c].wpdu.solong = @ + n],
             io' = [io EXCEPT ![c].room = @ - n],
             loop' = [loop EXCEPT !.cur = NULL, !.pc = "writes"],
             IF conn[c].wpdu.solong + n = conn[c].wpdu.sz THEN SignalComplete(c) ELSE UNCHANGED thr,
             UNCHANGED pm
      PROVE  IInv'
  <2>1. /\ loop' \in Loop /\ loop'.pc = "writes" /\ loop'.r = loop.r /\ loop'.w = loop.w
        /\ loop'.cut = loop.cut
    BY <1>2, <1>6 DEF Loop
  <2>2. CbCtx(c)
    BY <1>1, <1>3, <2>1 DEF CbCtx
  <2> QED BY <1>1, <1>3, <1>6, <2>1, <2>2, WriteCbWrites
<1> QED BY <1>1, <1>4, <1>5, <1>6 DEF WriteCb

\* What read_cb has after reading, when errno at the end of the stream is as given.
ReadResult(c, eagain) ==
  IF Complete(conn[c].rpdu)
  THEN [ok |-> TRUE, rpdu |-> conn[c].rpdu, inq |-> io[c].inq]
  ELSE readpdu(io[c], conn[c].rpdu, eagain)

\* ReadRange for the connection a read callback is called for.
LEMMA ResultRange ==
  ASSUME IInv, NEW c \in Conn, conn[c].st = "open", NEW e \in BOOLEAN,
         NEW r, r = ReadResult(c, e)
  PROVE  /\ r.ok \in BOOLEAN /\ r.inq \in Nat /\ r.rpdu \in RPdu
         /\ r.rpdu.solong \in 0 .. PduSz
         /\ r.ok => r.inq + r.rpdu.solong = io[c].inq + conn[c].rpdu.solong
<1>1. io[c] \in Socket /\ io[c].inq \in Nat /\ conn[c].rpdu \in RPdu
  BY DEF IInv, Types, Object, Socket
<1>2. conn[c].rpdu.solong \in 0 .. PduSz
  BY DEF IInv, ByteInv, Open
<1>3. CASE Complete(conn[c].rpdu)
  <2>1. r = [ok |-> TRUE, rpdu |-> conn[c].rpdu, inq |-> io[c].inq]
    BY <1>3 DEF ReadResult
  <2>2. r.ok /\ r.rpdu = conn[c].rpdu /\ r.inq = io[c].inq /\ r.ok \in BOOLEAN
    BY <2>1
  <2> QED BY <1>1, <1>2, <2>2
<1>4. CASE ~Complete(conn[c].rpdu)
  <2>1. r = readpdu(io[c], conn[c].rpdu, e)
    BY <1>4 DEF ReadResult
  <2>2. PICK s \in Socket, p \in RPdu : s = io[c] /\ p = conn[c].rpdu
    BY <1>1
  <2>3. p.solong \in 0 .. PduSz
    BY <1>2, <2>2
  <2>4. LET x == readpdu(s, p, e) IN
        /\ x.ok \in BOOLEAN /\ x.inq \in Nat /\ x.rpdu \in RPdu
        /\ x.rpdu.solong \in 0 .. PduSz
        /\ x.ok => x.rpdu.sz = PduSz /\ x.inq + x.rpdu.solong = s.inq + p.solong
    BY <2>3, ReadRange
  <2>5. r = readpdu(s, p, e)
    BY <2>1, <2>2
  <2>6. /\ r.ok \in BOOLEAN /\ r.inq \in Nat /\ r.rpdu \in RPdu
        /\ r.rpdu.solong \in 0 .. PduSz
        /\ r.ok => r.inq + r.rpdu.solong = s.inq + p.solong
    BY <2>4, <2>5
  <2> QED BY <2>2, <2>6
<1> QED BY <1>3, <1>4

\* A step of read_cb that only replaces rpdu_, perhaps with one more reference.
ReadFrame(c) ==
  /\ \A d \in Conn : d # c => conn'[d] = conn[d] /\ io'[d] = io[d]
  /\ conn'[c].st = conn[c].st /\ conn'[c].fd = conn[c].fd /\ conn'[c].dead = conn[c].dead
  /\ conn'[c].waiters = conn[c].waiters /\ conn'[c].buf = conn[c].buf
  /\ conn'[c].wpdu = conn[c].wpdu /\ io'[c].sent = io[c].sent
  /\ UNCHANGED <<pm, thr>>

\* A read that succeeds disturbs only references and bytes.
LEMMA ReadFrameKeeps ==
  ASSUME IInv, NEW c, CbCtx(c), ReadFrame(c)
  PROVE  /\ SameObjects /\ KillInv' /\ WatchInv' /\ LoopInv' /\ BufInv' /\ WaitersInv'
         /\ RemoverWillBeWoken'
<1>1. Types
  BY DEF IInv
<1>2. SameObjects /\ SameDead /\ SameBufs /\ SameWatch /\ (\A d \in Conn : conn'[d].waiters = conn[d].waiters)
  BY DEF SameObjects, SameDead, SameBufs, SameWatch, ReadFrame
<1>3. \A P : NoneEnters(P) /\ NoneLeaves(P)
  BY DEF NoneEnters, NoneLeaves, ReadFrame
<1>4. KillInv'
  BY <1>1, <1>2, <1>3, KillInvKept DEF IInv
<1>5. WatchInv'
  BY <1>1, <1>2, <1>3, WatchInvKept DEF IInv
<1>6. LoopInv'
  BY <1>2, <1>3, CbReturns DEF ReadFrame, SameObjects
<1>7. WaitersInv'
  BY <1>2, <1>3, WaitersInvKept DEF IInv
<1>8. BufInv'
  BY <1>1, <1>2, <1>3, BufInvKept DEF IInv, ReadFrame
<1>9. RemoverWillBeWoken'
  BY <1>3, WokenKept DEF IInv, CbCtx, ReadFrame
<1> QED BY <1>2, <1>4, <1>5, <1>6, <1>7, <1>8, <1>9

\* The request is handed over: the queue holds a reference of its own.
LEMMA RefInvDelivered ==
  ASSUME Types, RefInv, NEW c \in Conn, conn[c].st = "open", SameObjects,
         conns' = conns, thr' = thr, jobs' = Append(jobs, c),
         \A d \in Conn : conn'[d].refno = conn[d].refno + Ind(d = c)
  PROVE  RefInv'
<1>1. jobs \in Seq(Conn)
  BY DEF Types
<1>2. \A d \in Conn : Holders(d)' = Holders(d) + Ind(d = c)
  <2> TAKE d \in Conn
  <2>1. Cardinality(JobsAt(jobs', d)) = Cardinality(JobsAt(jobs, d)) + Ind(d = c)
    BY <1>1, JobAdded DEF Ind
  <2>2. /\ Cardinality(FdsAt(conns, d)) \in Nat /\ Cardinality(JobsAt(jobs, d)) \in Nat
        /\ Cardinality(ThrAt(thr, d)) \in Nat /\ Ind(d = c) \in Nat
    BY <1>1, CountTypes DEF Ind
  <2>3. \A a, b, e, i \in Nat : a + (b + i) + e = (a + b + e) + i
    OBVIOUS
  <2> QED BY <2>1, <2>2, <2>3, HoldersSum
<1>3. \A d \in Conn : IF conn'[d].st = "open" THEN conn'[d].refno = Holders(d)' ELSE Holders(d)' = 0
  <2> TAKE d \in Conn
  <2>1. conn'[d].st = conn[d].st
    BY DEF SameObjects
  <2>2. CASE conn[d].st = "open"
    BY <1>2, <2>1, <2>2 DEF RefInv
  <2>3. CASE conn[d].st # "open"
    <3>1. d # c /\ Holders(d) = 0
      BY <2>3 DEF RefInv
    <3> QED BY <1>2, <2>1, <2>3, <3>1 DEF Ind
  <2> QED BY <2>2, <2>3
<1>4. Open' = Open
  BY DEF Open, SameObjects
<1>5. \A d \in Open' : conn'[d].fd \in Fd
  BY <1>4 DEF RefInv, SameObjects, Open
<1>6. \A d, e \in Open' : conn'[d].fd = conn'[e].fd => d = e
  BY <1>4 DEF RefInv, SameObjects, Open
<1>7. \A fd \in Fd : conns'[fd] # NULL => conn'[conns'[fd]].fd = fd
  BY DEF RefInv, SameObjects, Types
<1>8. thr'[Owner].c # NULL => /\ conn'[thr'[Owner].c].fd \in Fd /\ conn'[thr'[Owner].c].dead
                              /\ conns'[conn'[thr'[Owner].c].fd] = thr'[Owner].c
  <2> HAVE thr'[Owner].c # NULL
  <2>1. thr'[Owner].c = thr[Owner].c
    OBVIOUS
  <2>2. thr[Owner].c \in Conn
    BY <2>1 DEF Types, ThreadTypes
  <2> QED BY <2>1, <2>2 DEF RefInv, SameObjects
<1> QED BY <1>3, <1>5, <1>6, <1>7, <1>8 DEF RefInv

\* A PDU that is complete is handed over with a reference of its own, or kept when the
\* queue is full.
LEMMA GotPduStep ==
  ASSUME IInv, NEW c, CbCtx(c), loop' \in Loop, ~conn[c].dead,
         NEW p \in RPdu, p.solong \in 0 .. PduSz, NEW inq \in Nat,
         inq + p.solong = io[c].inq + conn[c].rpdu.solong,
         got_pdu(c, p, inq), pm' = pm, thr' = thr
  PROVE  IInv'
<1>1. Types /\ c \in Conn /\ conn[c].st = "open"
  BY DEF IInv, CbCtx
<1>2. conn \in [Conn -> Object] /\ conn[c] \in Object /\ io \in [Conn -> Socket] /\ io[c] \in Socket
      /\ jobs \in Seq(Conn)
  BY <1>1 DEF Types
<1>3. io[c].sent = io[c].inq + conn[c].rpdu.solong + io[c].got * PduSz
  BY <1>1 DEF IInv, ByteInv, NoByteLost, Open
<1>4. io[c].inq \in Nat /\ io[c].got \in Int /\ conn[c].refno \in Int /\ conn[c].rpdu.solong \in Int
      /\ p.solong \in Int
  <2>1. conn[c].rpdu.solong \in 0 .. PduSz
    BY <1>1 DEF IInv, ByteInv, Open
  <2>2. io[c].inq \in Nat /\ io[c].got \in Int
    BY <1>2 DEF Socket
  <2>3. conn[c].refno \in Int
    BY <1>2 DEF Object
  <2> QED BY <2>1, <2>2, <2>3
<1>5. CASE Complete(p) /\ Len(jobs) < QueueMax
  <2> DEFINE k == conn[c].refno + 1
             g == io[c].got + 1
             o == [conn[c] EXCEPT !.rpdu = NoPdu, !.refno = k]
             s == [io[c] EXCEPT !.inq = inq, !.got = g]
  <2>13. k \in Int /\ g \in Int
    BY <1>4
  <2>1. conn' = [conn EXCEPT ![c] = o] /\ io' = [io EXCEPT ![c] = s] /\ jobs' = Append(jobs, c)
    <3>1. conn' = [conn EXCEPT ![c].rpdu = NoPdu, ![c].refno = @ + 1]
      BY <1>5 DEF got_pdu
    <3>2. io' = [io EXCEPT ![c].inq = inq, ![c].got = @ + 1] /\ jobs' = Append(jobs, c)
      BY <1>5 DEF got_pdu
    <3>3. conn' = [conn EXCEPT ![c] = o]
      BY <1>2, <3>1
    <3>4. io' = [io EXCEPT ![c] = s]
      BY <1>2, <3>2
    <3> QED BY <3>2, <3>3, <3>4
  <2>2. NoPdu \in RPdu /\ NoPdu.solong = 0
    BY DEF RPdu, NoPdu
  <2> HIDE DEF k, g
  <2>3. /\ o \in Object /\ o.st = conn[c].st /\ o.fd = conn[c].fd /\ o.refno = k
        /\ o.dead = conn[c].dead /\ o.waiters = conn[c].waiters /\ o.buf = conn[c].buf
        /\ o.wpdu = conn[c].wpdu /\ o.rpdu = NoPdu
    BY <1>2, <2>13, <2>2 DEF Object
  <2>4. s \in Socket /\ s.inq = inq /\ s.got = g /\ s.sent = io[c].sent
    BY <1>2, <2>13 DEF Socket
  <2> HIDE DEF o, s
  <2>5. conn' \in [Conn -> Object] /\ conn'[c] = o /\ \A d \in Conn : d # c => conn'[d] = conn[d]
    BY <1>1, <1>2, <2>1, <2>3
  <2>6. io' \in [Conn -> Socket] /\ io'[c] = s /\ \A d \in Conn : d # c => io'[d] = io[d]
    BY <1>1, <1>2, <2>1, <2>4
  <2>7. jobs' \in Seq(Conn)
    BY <1>1, <1>2, <2>1
  <2>8. Types'
    BY <1>1, <2>5, <2>6, <2>7 DEF Types, ThreadTypes, CbCtx
  <2>9. ReadFrame(c)
    BY <2>3, <2>4, <2>5, <2>6 DEF ReadFrame
  <2>10. /\ SameObjects /\ KillInv' /\ WatchInv' /\ LoopInv' /\ BufInv' /\ WaitersInv'
         /\ RemoverWillBeWoken'
    BY <2>9, ReadFrameKeeps
  <2>11. RefInv'
    <3>1. \A d \in Conn : conn'[d].refno = conn[d].refno + Ind(d = c)
      <4> TAKE d \in Conn
      <4>1. conn[d].refno \in Int
        BY <1>2 DEF Object
      <4> QED BY <2>3, <2>5, <4>1 DEF Ind, k
    <3> QED BY <1>1, <2>1, <2>10, <3>1, RefInvDelivered DEF IInv, CbCtx
  <2>12. ByteInv'
    <3>1. p.sz = PduSz /\ p.solong = PduSz
      BY <1>5 DEF Complete, RPdu, NoPdu
    <3>2. io'[c].sent = io'[c].inq + conn'[c].rpdu.solong + io'[c].got * PduSz
      <4>1. io[c].sent = inq + PduSz + io[c].got * PduSz
        BY <1>3, <1>4, <3>1
      <4>2. \A a, z \in Int : (a + 1) * z = a * z + z
        OBVIOUS
      <4>3. (io[c].got + 1) * PduSz = io[c].got * PduSz + PduSz /\ io[c].got * PduSz \in Int
        BY <1>4, <4>2
      <4>4. \A a, b, e, m \in Int : m = e + b => a + b + e = a + 0 + m
        OBVIOUS
      <4>5. io[c].sent = inq + 0 + (io[c].got + 1) * PduSz
        BY <4>1, <4>3, <4>4
      <4> QED BY <2>2, <2>3, <2>4, <2>5, <2>6, <4>5 DEF g
    <3>3. NoByteLost'
      BY <2>3, <2>5, <2>6, <3>2 DEF IInv, ByteInv, NoByteLost, Open
    <3>4. \A d \in Conn : conn'[d].st = "none" => io'[d] = NewSock
      BY <1>1, <2>3, <2>5, <2>6 DEF IInv, ByteInv
    <3>5. \A d \in Open' : conn'[d].rpdu.solong \in 0 .. PduSz
      BY <2>2, <2>3, <2>5 DEF IInv, ByteInv, Open
    <3> QED BY <3>3, <3>4, <3>5 DEF ByteInv
  <2> QED BY <2>8, <2>10, <2>11, <2>12 DEF IInv
<1>6. CASE ~(Complete(p) /\ Len(jobs) < QueueMax)
  <2> DEFINE o == [conn[c] EXCEPT !.rpdu = p]
             s == [io[c] EXCEPT !.inq = inq]
  <2>1. conn' = [conn EXCEPT ![c] = o] /\ io' = [io EXCEPT ![c] = s] /\ jobs' = jobs
    BY <1>2, <1>6 DEF got_pdu
  <2>2. /\ o \in Object /\ o.st = conn[c].st /\ o.fd = conn[c].fd /\ o.refno = conn[c].refno
        /\ o.dead = conn[c].dead /\ o.waiters = conn[c].waiters /\ o.buf = conn[c].buf
        /\ o.wpdu = conn[c].wpdu /\ o.rpdu = p
    BY <1>2 DEF Object
  <2>3. s \in Socket /\ s.inq = inq /\ s.got = io[c].got /\ s.sent = io[c].sent
    BY <1>2, <1>4 DEF Socket
  <2> HIDE DEF o, s
  <2>4. conn' \in [Conn -> Object] /\ conn'[c] = o /\ \A d \in Conn : d # c => conn'[d] = conn[d]
    BY <1>1, <1>2, <2>1, <2>2
  <2>5. io' \in [Conn -> Socket] /\ io'[c] = s /\ \A d \in Conn : d # c => io'[d] = io[d]
    BY <1>1, <1>2, <2>1, <2>3
  <2>6. Types'
    BY <1>1, <2>1, <2>4, <2>5 DEF Types, ThreadTypes, CbCtx
  <2>7. ReadFrame(c)
    BY <2>2, <2>3, <2>4, <2>5 DEF ReadFrame
  <2>8. /\ SameObjects /\ KillInv' /\ WatchInv' /\ LoopInv' /\ BufInv' /\ WaitersInv'
        /\ RemoverWillBeWoken'
    BY <2>7, ReadFrameKeeps
  <2>9. RefInv'
    <3>1. SameRefs
      BY <2>1, <2>2, <2>4 DEF SameRefs, CbCtx
    <3> QED BY <1>1, <2>6, <2>8, <3>1, RefInvKept DEF IInv
  <2>10. ByteInv'
    <3>1. io'[c].sent = io'[c].inq + conn'[c].rpdu.solong + io'[c].got * PduSz
      BY <1>3, <2>2, <2>3, <2>4, <2>5
    <3>2. NoByteLost'
      BY <2>2, <2>4, <2>5, <3>1 DEF IInv, ByteInv, NoByteLost, Open
    <3>3. \A d \in Conn : conn'[d].st = "none" => io'[d] = NewSock
      BY <1>1, <2>2, <2>4, <2>5 DEF IInv, ByteInv
    <3>4. \A d \in Open' : conn'[d].rpdu.solong \in 0 .. PduSz
      BY <2>2, <2>4 DEF IInv, ByteInv, Open
    <3> QED BY <3>2, <3>3, <3>4 DEF ByteInv
  <2> QED BY <2>6, <2>8, <2>9, <2>10 DEF IInv
<1> QED BY <1>5, <1>6

\* A read_cb whose read fails.
LEMMA ReadCbFails ==
  ASSUME IInv, NEW c, CbCtx(c), loop' \in Loop, ~conn[c].dead,
         NEW p \in RPdu, p.solong \in 0 .. PduSz, NEW inq \in Nat,
         io' = [io EXCEPT ![c].inq = inq],
         conn' = [conn EXCEPT ![c].dead = TRUE, ![c].rpdu = p],
         pm' = DelBoth(pm, conn[c].fd), SignalComplete(c), jobs' = jobs
  PROVE  IInv'
<1>1. Types /\ c \in Conn /\ conn[c].st = "open" /\ conn[c].fd \in Fd
  BY CbAlive DEF IInv, CbCtx
<1>2. conn \in [Conn -> Object] /\ conn[c] \in Object /\ io \in [Conn -> Socket] /\ io[c] \in Socket
  BY <1>1 DEF Types
<1> DEFINE o == [conn[c] EXCEPT !.dead = TRUE, !.rpdu = p]
           s == [io[c] EXCEPT !.inq = inq]
<1>3. conn' = [conn EXCEPT ![c] = o] /\ io' = [io EXCEPT ![c] = s]
  BY <1>2
<1>4. /\ o \in Object /\ o.st = conn[c].st /\ o.fd = conn[c].fd /\ o.refno = conn[c].refno /\ o.dead
      /\ o.waiters = conn[c].waiters /\ o.buf = conn[c].buf /\ o.rpdu = p
  BY <1>2 DEF Object
<1>5. s \in Socket
  BY <1>2 DEF Socket
<1> HIDE DEF o, s
<1>6. /\ conn' \in [Conn -> Object] /\ io' \in [Conn -> Socket] /\ conn'[c] = o
      /\ \A d \in Conn : d # c => conn'[d] = conn[d] /\ io'[d] = io[d]
  <2>1. conn' \in [Conn -> Object] /\ conn'[c] = o /\ \A d \in Conn : d # c => conn'[d] = conn[d]
    <3>1. o \in Object
      BY <1>4
    <3> QED BY <1>1, <1>2, <1>3, <3>1
  <2>2. io' \in [Conn -> Socket] /\ \A d \in Conn : d # c => io'[d] = io[d]
    BY <1>1, <1>2, <1>3, <1>5
  <2> QED BY <2>1, <2>2
<1>7. ThreadTypes'
  BY <1>1, SignalEffect
<1>8. pm' \in Manager
  BY <1>1, DelBothEffect
<1>9. Types'
  BY <1>1, <1>6, <1>7, <1>8 DEF Types, CbCtx
<1>10. Declares(c)
  BY <1>4, <1>6 DEF Declares
<1>11. ByteInv'
  <2>1. NoByteLost'
    BY <1>4, <1>6 DEF IInv, ByteInv, NoByteLost, Open
  <2>2. \A d \in Conn : conn'[d].st = "none" => io'[d] = NewSock
    BY <1>1, <1>4, <1>6 DEF IInv, ByteInv
  <2>3. \A d \in Open' : conn'[d].rpdu.solong \in 0 .. PduSz
    BY <1>4, <1>6 DEF IInv, ByteInv, Open
  <2> QED BY <2>1, <2>2, <2>3 DEF ByteInv
<1> QED BY <1>9, <1>10, <1>11, DeclaresStep DEF IInv

\* read_cb, by its branches: dead, failed, read.
LEMMA ReadCbStep ==
  ASSUME IInv, ReadCb
  PROVE  IInv'
<1>1. PICK c \in Conn : c = loop.cur /\ conn[c].st = "open"
  BY DEF ReadCb, Open
<1>2. loop \in Loop /\ Types
  BY DEF IInv, Types
<1>3. loop.pc = "read_cb" /\ conns' = conns /\ aborted' = aborted
  BY DEF ReadCb
<1>4. PICK e, r :
        /\ e \in BOOLEAN /\ r = ReadResult(c, e)
        /\ \/ /\ conn[c].dead
              /\ loop' = [loop EXCEPT !.cur = NULL, !.pc = "reads"]
              /\ UNCHANGED <<conn, io, pm, thr, jobs>>
           \/ /\ ~conn[c].dead /\ r.ok
              /\ loop' = [loop EXCEPT !.cur = NULL, !.pc = "reads"]
              /\ got_pdu(c, r.rpdu, r.inq)
              /\ UNCHANGED <<pm, thr>>
           \/ /\ ~conn[c].dead /\ ~r.ok /\ Input(c)
              /\ loop' = [loop EXCEPT !.cur = NULL, !.pc = "reads"]
              /\ io' = [io EXCEPT ![c].inq = r.inq]
              /\ conn' = [conn EXCEPT ![c].dead = TRUE, ![c].rpdu = r.rpdu]
              /\ pm' = DelBoth(pm, conn[c].fd)
              /\ SignalComplete(c)
              /\ UNCHANGED jobs
  BY <1>1 DEF ReadCb, ReadResult
<1>5. /\ r.ok \in BOOLEAN /\ r.inq \in Nat /\ r.rpdu \in RPdu
      /\ r.rpdu.solong \in 0 .. PduSz
      /\ r.ok => r.inq + r.rpdu.solong = io[c].inq + conn[c].rpdu.solong
  BY <1>1, <1>4, ResultRange
<1>6. CASE /\ conn[c].dead
           /\ loop' = [loop EXCEPT !.cur = NULL, !.pc = "reads"]
           /\ UNCHANGED <<conn, io, pm, thr, jobs>>
  <2>1. /\ loop' \in Loop /\ loop'.pc = "reads" /\ loop'.r = loop.r /\ loop'.w = loop.w
        /\ loop'.cut = loop.cut
    BY <1>2, <1>6 DEF Loop
  <2>2. CbCtx(c)
    BY <1>1, <1>3, <2>1 DEF CbCtx
  <2>3. ReadFrame(c)
    BY <1>6 DEF ReadFrame
  <2>4. /\ SameObjects /\ KillInv' /\ WatchInv' /\ LoopInv' /\ BufInv' /\ WaitersInv'
        /\ RemoverWillBeWoken'
    BY <2>2, <2>3, ReadFrameKeeps
  <2>5. Types'
    BY <1>2, <1>3, <1>6, <2>1 DEF Types, ThreadTypes
  <2>6. SameRefs /\ SameInput
    BY <1>3, <1>6 DEF SameRefs, SameInput
  <2>7. RefInv' /\ ByteInv'
    BY <1>2, <2>4, <2>5, <2>6, RefInvKept, ByteInvKept DEF IInv
  <2> QED BY <2>4, <2>5, <2>7 DEF IInv
<1>7. CASE /\ ~conn[c].dead /\ r.ok
           /\ loop' = [loop EXCEPT !.cur = NULL, !.pc = "reads"]
           /\ got_pdu(c, r.rpdu, r.inq)
           /\ UNCHANGED <<pm, thr>>
  <2>1. /\ loop' \in Loop /\ loop'.pc = "reads" /\ loop'.r = loop.r /\ loop'.w = loop.w
        /\ loop'.cut = loop.cut
    BY <1>2, <1>5, <1>7 DEF Loop
  <2>2. CbCtx(c)
    BY <1>1, <1>3, <2>1 DEF CbCtx
  <2> QED BY <1>5, <1>7, <2>1, <2>2, GotPduStep
<1>8. CASE /\ ~conn[c].dead /\ ~r.ok /\ Input(c)
           /\ loop' = [loop EXCEPT !.cur = NULL, !.pc = "reads"]
           /\ io' = [io EXCEPT ![c].inq = r.inq]
           /\ conn' = [conn EXCEPT ![c].dead = TRUE, ![c].rpdu = r.rpdu]
           /\ pm' = DelBoth(pm, conn[c].fd)
           /\ SignalComplete(c)
           /\ UNCHANGED jobs
  <2>1. /\ loop' \in Loop /\ loop'.pc = "reads" /\ loop'.r = loop.r /\ loop'.w = loop.w
        /\ loop'.cut = loop.cut
    BY <1>2, <1>5, <1>8 DEF Loop
  <2>2. CbCtx(c)
    BY <1>1, <1>3, <2>1 DEF CbCtx
  <2> QED BY <1>5, <1>8, <2>1, <2>2, ReadCbFails
<1> QED BY <1>4, <1>6, <1>7, <1>8

-----------------------------------------------------------------------------
(* The end of the process, and the peers *)

\* A failed assertion, and a step that changes nothing.
LEMMA StillStep ==
  ASSUME IInv, UNCHANGED <<conn, io, pm, loop, thr, conns, jobs>>
  PROVE  IInv'
<1>1. /\ conn' = conn /\ io' = io /\ pm' = pm /\ loop' = loop /\ thr' = thr
      /\ conns' = conns /\ jobs' = jobs
  OBVIOUS
<1>2. Types'
  BY <1>1 DEF IInv, Types, ThreadTypes
<1>3. Looks
  BY <1>1 DEF Looks
<1>4. RefInv' /\ KillInv' /\ WatchInv' /\ BufInv' /\ WaitersInv' /\ ByteInv'
  BY <1>2, <1>3, Looking
<1>5. LoopInv'
  BY <1>1 DEF IInv, LoopInv, LoopCurrent, Input
<1>6. RemoverWillBeWoken'
  BY <1>1 DEF IInv, RemoverWillBeWoken
<1> QED BY <1>2, <1>4, <1>5, <1>6 DEF IInv

\* The peer of c changes its socket: input does not vanish, and what it sends is
\* in the socket.
LEMMA SocketStep ==
  ASSUME IInv, NEW c \in Open, NEW s \in Socket, io' = [io EXCEPT ![c] = s],
         UNCHANGED <<conn, pm, loop, thr, conns, jobs, aborted>>,
         io[c].inq > 0 => s.inq > 0, io[c].eof => s.eof, io[c].down => s.down,
         s.sent - s.inq = io[c].sent - io[c].inq, s.got = io[c].got
  PROVE  IInv'
<1>1. Types /\ c \in Conn /\ conn[c].st = "open" /\ io \in [Conn -> Socket] /\ io[c] \in Socket
  BY DEF IInv, Types, Open
<1>2. /\ conn' = conn /\ pm' = pm /\ loop' = loop /\ thr' = thr /\ conns' = conns /\ jobs' = jobs
      /\ aborted' = aborted
  OBVIOUS
<1>3. io' \in [Conn -> Socket] /\ io'[c] = s /\ \A d \in Conn : d # c => io'[d] = io[d]
  BY <1>1
<1>4. Types'
  BY <1>1, <1>2, <1>3 DEF Types, ThreadTypes
<1>5. SameObjects /\ SameRefs /\ SameDead /\ SameWatch /\ SameBufs
  BY <1>2 DEF SameObjects, SameRefs, SameDead, SameWatch, SameBufs
<1>6. \A P : NoneEnters(P) /\ NoneLeaves(P)
  BY <1>2 DEF NoneEnters, NoneLeaves
<1>7. RefInv'
  BY <1>1, <1>4, <1>5, RefInvKept DEF IInv
<1>8. KillInv'
  BY <1>1, <1>5, <1>6, KillInvKept DEF IInv
<1>9. WatchInv'
  BY <1>1, <1>5, <1>6, WatchInvKept DEF IInv
<1>10. BufInv'
  BY <1>1, <1>2, <1>5, <1>6, BufInvKept DEF IInv
<1>11. WaitersInv'
  BY <1>2, <1>5, <1>6, WaitersInvKept DEF IInv
<1>12. RemoverWillBeWoken'
  BY <1>2 DEF IInv, RemoverWillBeWoken
<1>13. LoopInv'
  <2>1. StillRegistered
    <3> SUFFICES ASSUME NEW fd \in Fd, NEW d \in Conn, pm.callbacks[fd] = d
                 PROVE  /\ pm'.callbacks[fd] = d /\ conn'[d].st = conn[d].st
                        /\ conn'[d].fd = conn[d].fd /\ (Input(d) => Input(d)')
      BY DEF StillRegistered
    <3> QED BY <1>2, <1>3 DEF Input
  <2>2. \A d \in Open : conn[d].fd \in Fd
    BY DEF IInv, RefInv
  <2> QED BY <1>1, <1>2, <1>6, <2>1, <2>2, LoopInvKept DEF IInv
<1>14. ByteInv'
  <2>1. NoByteLost'
    <3> SUFFICES ASSUME NEW d \in Conn, conn'[d].st = "open", ~conn'[d].dead
                 PROVE  io'[d].sent = io'[d].inq + conn'[d].rpdu.solong + io'[d].got * PduSz
      BY DEF NoByteLost, Open
    <3>1. io[d].sent = io[d].inq + conn[d].rpdu.solong + io[d].got * PduSz
      BY <1>2 DEF IInv, ByteInv, NoByteLost, Open
    <3>2. CASE d # c
      BY <1>2, <1>3, <3>1, <3>2
    <3>3. CASE d = c
      <4>1. conn[c].rpdu.solong \in Int /\ s.sent \in Int /\ s.inq \in Int /\ s.got \in Int
            /\ io[c].sent \in Int /\ io[c].inq \in Int
        <5>1. conn[c].rpdu.solong \in 0 .. PduSz
          BY DEF IInv, ByteInv
        <5> QED BY <1>1, <5>1 DEF Socket
      <4> DEFINE x == s.got * PduSz
      <4>2. x \in Int /\ io[c].got * PduSz = x
        BY <4>1
      <4>3. s.sent = s.inq + conn[c].rpdu.solong + x
        <5>1. io[c].sent = io[c].inq + conn[c].rpdu.solong + x
          BY <3>1, <3>3, <4>2
        <5> HIDE DEF x
        <5> QED BY <4>1, <4>2, <5>1
      <4>4. s.sent = s.inq + conn[c].rpdu.solong + s.got * PduSz
        BY <4>3
      <4> QED BY <1>2, <1>3, <3>3, <4>4
    <3> QED BY <3>2, <3>3
  <2>2. \A d \in Conn : conn'[d].st = "none" => io'[d] = NewSock
    BY <1>1, <1>2, <1>3 DEF IInv, ByteInv
  <2>3. \A d \in Open' : conn'[d].rpdu.solong \in 0 .. PduSz
    BY <1>2 DEF IInv, ByteInv, Open
  <2> QED BY <2>1, <2>2, <2>3 DEF ByteInv
<1> QED BY <1>4, <1>7, <1>8, <1>9, <1>10, <1>11, <1>12, <1>13, <1>14 DEF IInv

\* The other end and the network change only the socket.
LEMMA PeerStep ==
  ASSUME IInv, Peer
  PROVE  IInv'
<1>1. PICK c \in Conn : PeerSend(c) \/ PeerDrain(c) \/ PeerClose(c)
  BY DEF Peer
<1>2. io \in [Conn -> Socket] /\ io[c] \in Socket
  BY DEF IInv, Types
<1>3. /\ io[c].inq \in Nat /\ io[c].sent \in Int /\ io[c].room \in Int
      /\ io[c].inq + 1 \in Nat /\ io[c].sent + 1 \in Int /\ io[c].room + 1 \in Int
  BY <1>2 DEF Socket
<1>4. CASE PeerSend(c)
  <2> DEFINE i == io[c].inq + 1
             n == io[c].sent + 1
             s == [io[c] EXCEPT !.inq = i, !.sent = n]
  <2>1. i \in Nat /\ n \in Int /\ i > 0 /\ n - i = io[c].sent - io[c].inq
    BY <1>3
  <2>2. io' = [io EXCEPT ![c] = s] /\ c \in Open
        /\ UNCHANGED <<conn, pm, loop, thr, conns, jobs, aborted>>
    BY <1>2, <1>4 DEF PeerSend
  <2> HIDE DEF i, n
  <2>3. s \in Socket /\ s.inq = i /\ s.sent = n /\ s.eof = io[c].eof /\ s.down = io[c].down
        /\ s.got = io[c].got
    BY <1>2, <2>1 DEF Socket
  <2> HIDE DEF s
  <2> QED BY <2>1, <2>2, <2>3, SocketStep
<1>5. CASE PeerDrain(c)
  <2> DEFINE i == io[c].room + 1
             s == [io[c] EXCEPT !.room = i]
  <2>1. i \in Int
    BY <1>3
  <2>2. io' = [io EXCEPT ![c] = s] /\ c \in Open
        /\ UNCHANGED <<conn, pm, loop, thr, conns, jobs, aborted>>
    BY <1>2, <1>5 DEF PeerDrain
  <2> HIDE DEF i
  <2>3. s \in Socket /\ s.inq = io[c].inq /\ s.sent = io[c].sent /\ s.eof = io[c].eof
        /\ s.down = io[c].down /\ s.got = io[c].got
    BY <1>2, <2>1 DEF Socket
  <2> HIDE DEF s
  <2> QED BY <2>1, <2>2, <2>3, SocketStep
<1>6. CASE PeerClose(c)
  <2> DEFINE s == [io[c] EXCEPT !.eof = TRUE]
  <2>1. io' = [io EXCEPT ![c] = s] /\ c \in Open
        /\ UNCHANGED <<conn, pm, loop, thr, conns, jobs, aborted>>
    BY <1>2, <1>6 DEF PeerClose
  <2>2. s \in Socket /\ s.inq = io[c].inq /\ s.sent = io[c].sent /\ s.eof
        /\ s.down = io[c].down /\ s.got = io[c].got
    BY <1>2 DEF Socket
  <2> HIDE DEF s
  <2> QED BY <2>1, <2>2, SocketStep
<1> QED BY <1>1, <1>4, <1>5, <1>6

-----------------------------------------------------------------------------
(* A worker takes a job *)

\* A worker takes over the reference of the job it takes.
LEMMA TakeJobStep ==
  ASSUME IInv, NEW t \in Worker, TakeJob(t)
  PROVE  IInv'
<1>1. /\ Types /\ jobs \in Seq(Conn) /\ jobs # <<>> /\ t \in Thread
      /\ thr \in [Thread -> [pc : AllPc, c : Conn \cup {NULL}]]
  BY DEF TakeJob, IInv, Types, ThreadTypes, Thread, AllPc
<1>2. PICK c \in Conn : c = Head(jobs) /\ c = jobs[1] /\ 1 \in DOMAIN jobs
  BY <1>1
<1>3. /\ conn' = conn /\ io' = io /\ pm' = pm /\ loop' = loop /\ conns' = conns /\ aborted' = aborted
      /\ jobs' = Tail(jobs) /\ thr[t].pc = "idle"
      /\ thr' = [thr EXCEPT ![t] = [pc |-> "send", c |-> c]]
  BY <1>2 DEF TakeJob
<1>4. thr[t].c = NULL
  BY <1>1, <1>3 DEF Types, ThreadTypes, SendPc, OwnPc
<1>5. /\ thr' \in [Thread -> [pc : AllPc, c : Conn \cup {NULL}]]
      /\ thr'[t].pc = "send" /\ thr'[t].c = c /\ \A u \in Thread : u # t => thr'[u] = thr[u]
  <2>1. [pc |-> "send", c |-> c] \in [pc : AllPc, c : Conn \cup {NULL}]
    BY DEF AllPc, SendPc
  <2> QED BY <1>1, <1>3, <2>1
<1>6. thr'[Owner] = thr[Owner] /\ Owner \in Thread
  BY <1>5 DEF Thread
<1>7. ThreadTypes'
  <2>1. \A u \in Worker : \/ thr'[u].pc = "idle" /\ thr'[u].c = NULL
                          \/ thr'[u].pc \in SendPc /\ thr'[u].c \in Conn
    BY <1>1, <1>5 DEF Types, ThreadTypes, Thread, SendPc
  <2>2. \/ thr'[Owner].pc \in {"accept", "closing", "done"} /\ thr'[Owner].c = NULL
        \/ thr'[Owner].pc \in ClosePc /\ thr'[Owner].c \in Conn
    BY <1>1, <1>6 DEF Types, ThreadTypes
  <2> QED BY <1>5, <2>1, <2>2 DEF ThreadTypes, AllPc
<1>8. Types'
  <2>1. jobs' \in Seq(Conn)
    BY <1>1, <1>3
  <2> QED BY <1>1, <1>3, <1>7, <2>1 DEF Types
<1>9. SameObjects /\ SameDead /\ SameWatch /\ SameBufs /\ SameInput
  BY <1>3 DEF SameObjects, SameDead, SameWatch, SameBufs, SameInput
<1>10. ASSUME NEW P, "send" \notin P, "idle" \notin P
       PROVE  NoneEnters(P) /\ NoneLeaves(P)
  BY <1>3, <1>5, <1>10 DEF NoneEnters, NoneLeaves
<1>11. NoneEnters(KillPc) /\ NoneEnters(Removing \cup RemovedPc) /\ NoneLeaves(RemoverPc)
       /\ NoneEnters(RemovedPc) /\ NoneEnters(Removing)
  BY <1>10 DEF KillPc, RemoverPc, RemovePc, RemovedPc, Removing
<1>12. NoneEnters(OwnPc) /\ NoneLeaves(OwnPc) /\ NoneEnters({"send_wait"})
       /\ NoneEnters({"send_complete"}) /\ NoneEnters({"send_signalled"})
       /\ NoneEnters(WaitPc) /\ NoneLeaves(WaitPc)
  BY <1>10 DEF OwnPc, WaitPc
<1>13. KillInv'
  BY <1>1, <1>9, <1>11, KillInvKept DEF IInv
<1>14. WatchInv'
  BY <1>1, <1>9, <1>11, WatchInvKept DEF IInv
<1>15. BufInv'
  BY <1>1, <1>3, <1>6, <1>9, <1>12, BufInvKept DEF IInv
<1>16. WaitersInv'
  BY <1>3, <1>9, <1>12, WaitersInvKept DEF IInv
<1>17. ByteInv'
  BY <1>9, ByteInvKept DEF IInv
<1>18. RemoverWillBeWoken'
  BY <1>3, <1>11, WokenKept DEF IInv
<1>19. LoopInv'
  <2>1. StillRegistered
    BY <1>3 DEF StillRegistered, Input
  <2>2. \A d \in Open : conn[d].fd \in Fd
    BY DEF IInv, RefInv
  <2> QED BY <1>1, <1>3, <1>11, <2>1, <2>2, LoopInvKept DEF IInv
<1>20. RefInv'
  <2>1. \A d \in Conn : Holders(d)' = Holders(d)
    <3> TAKE d \in Conn
    <3>1. Cardinality(JobsAt(jobs', d)) = Cardinality(JobsAt(jobs, d)) - Ind(c = d)
      BY <1>1, <1>2, <1>3, JobTaken
    <3>2. Cardinality(ThrAt(thr', d)) = Cardinality(ThrAt(thr, d)) + Ind(c = d) - Ind(NULL = d)
      <4>1. \A u \in Worker \ {t} : thr'[u].c = thr[u].c
        BY <1>5 DEF Thread
      <4> QED BY <1>4, <1>5, <4>1, ThreadChanges
    <3>3. Ind(NULL = d) = 0
      BY DEF Ind
    <3>4. /\ Cardinality(FdsAt(conns, d)) \in Nat /\ Cardinality(JobsAt(jobs, d)) \in Nat
          /\ Cardinality(ThrAt(thr, d)) \in Nat /\ Ind(c = d) \in Nat
      BY <1>1, CountTypes DEF Ind
    <3>5. \A a, b, e, i \in Nat : a + (b - i) + (e + i - 0) = a + b + e
      OBVIOUS
    <3>6. Holders(d)' = Cardinality(FdsAt(conns', d)) + Cardinality(JobsAt(jobs', d))
                          + Cardinality(ThrAt(thr', d))
      BY HoldersSum
    <3>7. FdsAt(conns', d) = FdsAt(conns, d)
      BY <1>3
    <3>8. Holders(d)' = Cardinality(FdsAt(conns, d)) + (Cardinality(JobsAt(jobs, d)) - Ind(c = d))
                          + (Cardinality(ThrAt(thr, d)) + Ind(c = d) - 0)
      BY <3>1, <3>2, <3>3, <3>6, <3>7
    <3>9. Holders(d)' = Cardinality(FdsAt(conns, d)) + Cardinality(JobsAt(jobs, d))
                          + Cardinality(ThrAt(thr, d))
      BY <3>4, <3>5, <3>8
    <3> QED BY <3>9, HoldersSum
  <2>2. \A d \in Conn : IF conn'[d].st = "open" THEN conn'[d].refno = Holders(d)' ELSE Holders(d)' = 0
    BY <1>3, <2>1 DEF IInv, RefInv
  <2>3. \A d \in Open' : conn'[d].fd \in Fd
    BY <1>3 DEF IInv, RefInv, Open
  <2>4. \A d, e \in Open' : conn'[d].fd = conn'[e].fd => d = e
    BY <1>3 DEF IInv, RefInv, Open
  <2>5. \A fd \in Fd : conns'[fd] # NULL => conn'[conns'[fd]].fd = fd
    BY <1>3 DEF IInv, RefInv
  <2>6. thr'[Owner].c # NULL => /\ conn'[thr'[Owner].c].fd \in Fd /\ conn'[thr'[Owner].c].dead
                                /\ conns'[conn'[thr'[Owner].c].fd] = thr'[Owner].c
    BY <1>3, <1>6 DEF IInv, RefInv
  <2> QED BY <2>2, <2>3, <2>4, <2>5, <2>6 DEF RefInv
<1> QED BY <1>8, <1>13, <1>14, <1>15, <1>16, <1>17, <1>18, <1>19, <1>20 DEF IInv

-----------------------------------------------------------------------------
(* The owner moves without a connection *)

\* ~tcpsconn begins, and the pool is joined.
LEMMA OwnerMoves ==
  ASSUME IInv, NEW p \in {"closing", "done"}, thr[Owner].pc \in {"accept", "closing"}, Goto(Owner, p),
         UNCHANGED <<conn, io, pm, loop, conns, jobs, aborted>>
  PROVE  IInv'
<1>1. Types /\ Owner \in Thread
  BY DEF IInv, Thread
<1>2. /\ conn' = conn /\ io' = io /\ pm' = pm /\ loop' = loop /\ conns' = conns /\ jobs' = jobs
      /\ aborted' = aborted
  OBVIOUS
<1>3. /\ ThreadTypes' /\ thr'[Owner].pc = p
      /\ \A u \in Thread : thr'[u].c = thr[u].c /\ (u # Owner => thr'[u] = thr[u])
  BY <1>1, GotoEffect
<1>4. Types'
  BY <1>1, <1>2, <1>3 DEF Types
<1>5. SameObjects /\ SameRefs /\ SameDead /\ SameWatch /\ SameBufs /\ SameInput
  BY <1>2, <1>3 DEF SameObjects, SameRefs, SameDead, SameWatch, SameBufs, SameInput
<1>6. ASSUME NEW P, P \cap {"accept", "closing", "done"} = {}
      PROVE  NoneEnters(P) /\ NoneLeaves(P)
  BY <1>3, <1>6 DEF NoneEnters, NoneLeaves
<1>7. NoneEnters(KillPc) /\ NoneEnters(Removing \cup RemovedPc) /\ NoneLeaves(RemoverPc)
      /\ NoneEnters(RemovedPc) /\ NoneEnters(Removing)
  BY <1>6 DEF KillPc, RemoverPc, RemovePc, RemovedPc, Removing
<1>8. NoneEnters(OwnPc) /\ NoneLeaves(OwnPc) /\ NoneEnters({"send_wait"})
      /\ NoneEnters({"send_complete"}) /\ NoneEnters({"send_signalled"})
      /\ NoneEnters(WaitPc) /\ NoneLeaves(WaitPc)
  BY <1>6 DEF OwnPc, WaitPc
<1>9. RefInv' /\ ByteInv'
  BY <1>1, <1>4, <1>5, RefInvKept, ByteInvKept DEF IInv
<1>10. KillInv'
  BY <1>1, <1>5, <1>7, KillInvKept DEF IInv
<1>11. WatchInv'
  BY <1>1, <1>5, <1>7, WatchInvKept DEF IInv
<1>12. BufInv'
  BY <1>1, <1>2, <1>3, <1>5, <1>8, BufInvKept DEF IInv
<1>13. WaitersInv'
  BY <1>2, <1>5, <1>8, WaitersInvKept DEF IInv
<1>14. RemoverWillBeWoken'
  BY <1>2, <1>7, WokenKept DEF IInv
<1>15. LoopInv'
  <2>1. StillRegistered
    BY <1>2 DEF StillRegistered, Input
  <2>2. \A d \in Open : conn[d].fd \in Fd
    BY DEF IInv, RefInv
  <2> QED BY <1>1, <1>2, <1>7, <2>1, <2>2, LoopInvKept DEF IInv
<1> QED BY <1>4, <1>9, <1>10, <1>11, <1>12, <1>13, <1>14, <1>15 DEF IInv

\* closeconn enters block_remove_fd like a failing sender, at most once for a connection.
LEMMA CloseRemoveStep ==
  ASSUME IInv, CloseRemove
  PROVE  IInv'
<1>1. PICK c \in Conn : c = thr[Owner].c /\ conn[c].st = "open"
  BY DEF CloseRemove, Open
<1>2. SendCtx(Owner, c)
  BY <1>1 DEF CloseRemove, SendCtx, Thread
<1>3. RemoveFd(Owner, c) \/ ForgetFd(Owner, c)
  BY <1>1 DEF CloseRemove
<1> QED BY <1>2, <1>3, RemoveFdStep, ForgetFdStep

-----------------------------------------------------------------------------
(* Connections come and go *)

\* What a step that makes and deletes connections does with one of them: it keeps
\* all but its reference count, deletes it (nobody is inside it any more), or
\* makes it on a free descriptor.
Survives(d) ==
  /\ conn'[d].st = conn[d].st /\ conn'[d].fd = conn[d].fd /\ conn'[d].dead = conn[d].dead
  /\ conn'[d].waiters = conn[d].waiters /\ conn'[d].buf = conn[d].buf
  /\ conn'[d].wpdu = conn[d].wpdu /\ conn'[d].rpdu = conn[d].rpdu
  /\ conn[d].st # "deleted" => io'[d] = io[d]
Reaped(d) ==
  /\ conn[d].st = "open" /\ conn[d].dead /\ conn'[d] = NoConn("deleted")
  /\ \A t \in Thread : thr[t].c = d => thr[t].pc \in {"sent", "closed"}
Born(d) ==
  /\ conn[d].st = "none" /\ io'[d] = io[d] /\ conn'[d].fd \in Fd
  /\ conn'[d].st = "open" /\ ~conn'[d].dead /\ conn'[d].waiters = 0 /\ ~conn'[d].buf
  /\ conn'[d].wpdu = NoPdu /\ conn'[d].rpdu = NoPdu
  /\ \A e \in Conn : conn[e].st = "open" => conn[e].fd # conn'[d].fd

Turnover ==
  /\ loop' = loop
  /\ \A d \in Conn : Survives(d) \/ Reaped(d) \/ Born(d)
  /\ \A t \in Thread : \/ thr'[t] = thr[t]
                       \/ /\ thr[t].pc \in {"sent", "closed"}
                          /\ thr'[t].pc \in {"idle", "closing"} /\ thr'[t].c = NULL
  /\ pm'.wfds = pm.wfds /\ pm.rfds \subseteq pm'.rfds
  /\ \A f \in Fd : /\ pm.callbacks[f] # NULL => pm'.callbacks[f] = pm.callbacks[f]
                   /\ pm'.callbacks[f] # pm.callbacks[f] =>
                        Born(pm'.callbacks[f]) /\ conn'[pm'.callbacks[f]].fd = f
                   /\ f \in pm'.rfds \ pm.rfds => pm'.callbacks[f] # pm.callbacks[f]
  /\ \A d \in Conn : Born(d) => pm'.callbacks[conn'[d].fd] = d /\ conn'[d].fd \in pm'.rfds
  /\ pm'.pending_change = pm.pending_change /\ (pm.pipe > 0 => pm'.pipe > 0)

\* Objects that come and go: the parts that do not count references.
LEMMA TurnoverStep ==
  ASSUME IInv, Types', Turnover
  PROVE  /\ KillInv' /\ WatchInv' /\ LoopInv' /\ BufInv' /\ WaitersInv' /\ ByteInv'
         /\ RemoverWillBeWoken'
<1>1. /\ Types /\ RefInv /\ pm.callbacks \in [Fd -> Conn \cup {NULL}]
      /\ pm'.callbacks \in [Fd -> Conn \cup {NULL}]
      /\ pm.rfds \in SUBSET Fd /\ pm.wfds \in SUBSET Fd /\ pm'.rfds \in SUBSET Fd
  BY DEF IInv, Types, Manager
<1>2. \A d \in Conn : conn[d].st = "open" => conn[d].fd \in Fd
  BY <1>1 DEF RefInv, Open
<1>3. Worker \subseteq Thread /\ Owner \in Thread
  BY DEF Thread
\* Whoever is inside send or closeconn after the step was before, on a connection
\* that survives.
<1>4. ASSUME NEW t \in Thread, thr'[t].pc \notin {"idle", "closing"}
      PROVE  thr'[t] = thr[t]
  BY <1>4 DEF Turnover
<1>5. ASSUME NEW t \in Thread, thr[t].pc \in SendPc \cup ClosePc, thr[t].pc \notin {"sent", "closed"}
      PROVE  /\ thr'[t] = thr[t] /\ thr[t].c \in Conn /\ conn[thr[t].c].st = "open"
             /\ Survives(thr[t].c)
  <2>1. thr'[t] = thr[t]
    BY <1>5 DEF Turnover
  <2>2. thr[t].c \in Conn
    BY <1>1, <1>5, HasConn
  <2>3. conn[thr[t].c].st = "open"
    BY <1>1, <2>2, HeldIsOpen
  <2>4. ~Reaped(thr[t].c) /\ ~Born(thr[t].c)
    BY <1>5, <2>3 DEF Reaped, Born
  <2> QED BY <2>1, <2>2, <2>3, <2>4 DEF Turnover
<1>6. /\ KillPc \subseteq SendPc \cup ClosePc /\ OwnPc \subseteq SendPc \cup ClosePc
      /\ WaitPc \subseteq SendPc \cup ClosePc
      /\ KillPc \cap {"sent", "closed", "idle", "closing"} = {}
      /\ OwnPc \cap {"sent", "closed", "idle", "closing"} = {}
      /\ WaitPc \cap {"sent", "closed", "idle", "closing"} = {}
  BY Places DEF KillPc, RemoverPc, RemovePc, Removing, RemovedPc, SendPc, OwnPc, WaitPc
<1>7. ASSUME NEW t \in Thread, thr'[t].pc \in KillPc \cup OwnPc \cup WaitPc
      PROVE  /\ thr'[t] = thr[t] /\ thr[t].c \in Conn /\ conn[thr[t].c].st = "open"
             /\ Survives(thr[t].c)
  BY <1>4, <1>5, <1>6, <1>7
<1>8. ASSUME NEW t \in Thread, thr[t].pc \in KillPc \cup OwnPc \cup WaitPc
      PROVE  thr'[t] = thr[t]
  BY <1>5, <1>6, <1>8
<1>9. \A d \in Conn : Reaped(d) => pm.callbacks[conn[d].fd] = NULL
  <2> TAKE d \in Conn
  <2> HAVE Reaped(d)
  <2>1. d \in Open /\ conn[d].dead
    BY DEF Reaped, Open
  <2>2. \A t \in Thread : thr[t].pc \in RemoverPc => thr[t].c # d
    BY <1>6, Places DEF Reaped
  <2> QED BY <2>1, <2>2 DEF IInv, WatchInv
<1>10. ASSUME NEW f \in Fd, pm.callbacks[f] # NULL
       PROVE  /\ pm.callbacks[f] \in Conn /\ conn[pm.callbacks[f]].st = "open"
              /\ conn[pm.callbacks[f]].fd = f /\ Survives(pm.callbacks[f])
              /\ pm'.callbacks[f] = pm.callbacks[f]
  <2>1. PICK d \in Conn : d = pm.callbacks[f]
    BY <1>1, <1>10
  <2>2. conn[d].st = "open" /\ conn[d].fd = f
    BY <1>10, <2>1 DEF IInv, WatchInv
  <2>3. ~Reaped(d) /\ ~Born(d)
    BY <1>9, <2>1, <2>2 DEF Born
  <2>4. pm'.callbacks[f] = pm.callbacks[f]
    BY <1>10 DEF Turnover
  <2> QED BY <2>1, <2>2, <2>3, <2>4 DEF Turnover
<1>11. KillInv'
  <2>1. \A t \in Thread : thr'[t].pc \in KillPc => conn'[thr'[t].c].dead
    BY <1>7 DEF IInv, KillInv, Survives
  <2>2. \A t, u \in Thread : thr'[t].pc \in KillPc /\ thr'[u].pc \in KillPc /\ thr'[t].c = thr'[u].c => t = u
    BY <1>7 DEF IInv, KillInv
  <2> QED BY <2>1, <2>2 DEF KillInv
<1>12. WatchInv'
  <2>1. \A f \in Fd : pm'.callbacks[f] # NULL =>
          conn'[pm'.callbacks[f]].st = "open" /\ conn'[pm'.callbacks[f]].fd = f
    <3> TAKE f \in Fd
    <3> HAVE pm'.callbacks[f] # NULL
    <3>1. CASE pm.callbacks[f] # NULL
      BY <1>10, <3>1 DEF Survives
    <3>2. CASE pm.callbacks[f] = NULL
      BY <3>2 DEF Turnover, Born
    <3> QED BY <3>1, <3>2
  <2>2. \A f \in pm'.rfds \cup pm'.wfds : pm'.callbacks[f] # NULL
    <3> TAKE f \in pm'.rfds \cup pm'.wfds
    <3>1. f \in Fd
      BY <1>1 DEF Turnover
    <3>2. CASE f \in pm.rfds \cup pm.wfds
      BY <1>10, <3>1, <3>2 DEF IInv, WatchInv
    <3>3. CASE f \notin pm.rfds \cup pm.wfds
      <4>1. pm'.callbacks[f] # pm.callbacks[f]
        BY <3>1, <3>3 DEF Turnover
      <4> QED BY <1>10, <3>1, <4>1
    <3> QED BY <3>2, <3>3
  <2>3. \A d \in Open' : ~conn'[d].dead => pm'.callbacks[conn'[d].fd] = d /\ conn'[d].fd \in pm'.rfds
    <3> TAKE d \in Open'
    <3> HAVE ~conn'[d].dead
    <3>1. d \in Conn /\ conn'[d].st = "open"
      BY DEF Open
    <3>2. CASE Survives(d)
      <4>1. d \in Open /\ ~conn[d].dead /\ conn'[d].fd = conn[d].fd /\ conn[d].fd \in Fd
        BY <1>2, <3>1, <3>2 DEF Survives, Open
      <4>2. pm.callbacks[conn[d].fd] = d /\ conn[d].fd \in pm.rfds
        BY <4>1 DEF IInv, WatchInv
      <4>3. pm'.callbacks[conn[d].fd] = d
        BY <1>10, <3>1, <4>1, <4>2
      <4> QED BY <4>1, <4>2, <4>3 DEF Turnover
    <3>3. CASE Born(d)
      BY <3>1, <3>3 DEF Turnover
    <3>4. ~Reaped(d)
      BY <3>1 DEF Reaped, NoConn
    <3> QED BY <3>1, <3>2, <3>3, <3>4 DEF Turnover
  <2>4. \A t \in Thread : thr'[t].pc \in Removing \cup RemovedPc =>
          conn'[thr'[t].c].fd \notin pm'.rfds \cup pm'.wfds
    <3> TAKE t \in Thread
    <3> HAVE thr'[t].pc \in Removing \cup RemovedPc
    <3>1. /\ thr'[t] = thr[t] /\ thr[t].c \in Conn /\ conn[thr[t].c].st = "open"
          /\ Survives(thr[t].c)
      BY <1>7, Places
    <3>2. PICK f \in Fd : f = conn[thr[t].c].fd
      BY <1>2, <3>1
    <3>3. f \notin pm.rfds \cup pm.wfds
      BY <3>1, <3>2 DEF IInv, WatchInv
    <3>4. pm'.callbacks[f] = pm.callbacks[f]
      BY <3>1, <3>2 DEF Turnover, Born
    <3>5. f \notin pm'.rfds \cup pm'.wfds
      BY <3>3, <3>4 DEF Turnover
    <3> QED BY <3>1, <3>2, <3>5 DEF Survives
  <2>5. \A d \in Open' : conn'[d].dead
            /\ (\A t \in Thread : thr'[t].pc \in RemoverPc => thr'[t].c # d) =>
          pm'.callbacks[conn'[d].fd] = NULL
    <3> TAKE d \in Open'
    <3> HAVE conn'[d].dead /\ (\A t \in Thread : thr'[t].pc \in RemoverPc => thr'[t].c # d)
    <3>1. d \in Conn /\ conn'[d].st = "open"
      BY DEF Open
    <3>2. Survives(d)
      BY <3>1 DEF Turnover, Reaped, Born, NoConn
    <3>3. d \in Open /\ conn[d].dead /\ conn[d].fd \in Fd /\ conn'[d].fd = conn[d].fd
      BY <1>2, <3>1, <3>2 DEF Survives, Open
    <3>4. \A t \in Thread : thr[t].pc \in RemoverPc => thr[t].c # d
      BY <1>8, Places
    <3>5. pm.callbacks[conn[d].fd] = NULL
      BY <3>3, <3>4 DEF IInv, WatchInv
    <3>6. pm'.callbacks[conn[d].fd] = pm.callbacks[conn[d].fd]
      BY <3>1, <3>2, <3>3 DEF Turnover, Born, Survives
    <3> QED BY <3>3, <3>5, <3>6
  <2> QED BY <2>1, <2>2, <2>3, <2>4, <2>5 DEF WatchInv
<1>13. LoopInv'
  <2>1. StillRegistered
    <3> SUFFICES ASSUME NEW f \in Fd, NEW d \in Conn, pm.callbacks[f] = d
                 PROVE  /\ pm'.callbacks[f] = d /\ conn'[d].st = conn[d].st
                        /\ conn'[d].fd = conn[d].fd /\ (Input(d) => Input(d)')
      BY DEF StillRegistered
    <3>1. conn[d].st = "open" /\ Survives(d) /\ pm'.callbacks[f] = d
      BY <1>10
    <3> QED BY <3>1 DEF Survives, Input
  <2>2. NoneEnters(RemovedPc)
    BY <1>7, Places DEF NoneEnters
  <2>3. \A t \in Thread : thr[t].pc \in RemovedPc => conn'[thr[t].c].fd = conn[thr[t].c].fd
    BY <1>5, <1>6, Places DEF Survives
  <2>4. \A d \in Open : conn[d].fd \in Fd
    BY <1>2 DEF Open
  <2>5. loop' = loop
    BY DEF Turnover
  <2> QED BY <1>1, <2>1, <2>2, <2>3, <2>4, <2>5, LoopInvKept DEF IInv
<1>14. BufInv'
  <2>1. \A t \in Worker : thr'[t].pc \in OwnPc => conn'[thr'[t].c].buf
    BY <1>3, <1>7 DEF IInv, BufInv, Survives
  <2>2. \A t, u \in Worker : thr'[t].pc \in OwnPc /\ thr'[u].pc \in OwnPc /\ thr'[t].c = thr'[u].c => t = u
    BY <1>3, <1>7 DEF IInv, BufInv
  <2>3. \A d \in Open' : conn'[d].buf => \E t \in Worker : thr'[t].c = d /\ thr'[t].pc \in OwnPc
    <3> TAKE d \in Open'
    <3> HAVE conn'[d].buf
    <3>1. d \in Conn /\ conn'[d].st = "open"
      BY DEF Open
    <3>2. Survives(d)
      BY <3>1 DEF Turnover, Reaped, Born, NoConn
    <3>3. d \in Open /\ conn[d].buf
      BY <3>1, <3>2 DEF Survives, Open
    <3>4. PICK t \in Worker : thr[t].c = d /\ thr[t].pc \in OwnPc
      BY <3>3 DEF IInv, BufInv
    <3> QED BY <1>3, <1>8, <3>4
  <2>4. \A t \in Worker : thr'[t].pc = "send_wait" => conn'[thr'[t].c].buf
    BY <1>3, <1>7 DEF IInv, BufInv, Survives, WaitPc
  <2>5. \A d \in Open' : ~conn'[d].dead => conn'[d].wpdu.solong \in 0 .. conn'[d].wpdu.sz
    <3> TAKE d \in Open'
    <3> HAVE ~conn'[d].dead
    <3>1. d \in Conn /\ conn'[d].st = "open"
      BY DEF Open
    <3>2. CASE Survives(d)
      BY <3>1, <3>2 DEF Survives, IInv, BufInv, Open
    <3>3. CASE Born(d)
      BY <3>3 DEF Born, NoPdu
    <3>4. ~Reaped(d)
      BY <3>1 DEF Reaped, NoConn
    <3> QED BY <3>1, <3>2, <3>3, <3>4 DEF Turnover
  <2>6. \A t \in Worker : thr'[t].pc = "send_complete" =>
          \/ /\ ~conn'[thr'[t].c].dead /\ conn'[thr'[t].c].wpdu.solong < conn'[thr'[t].c].wpdu.sz
             /\ conn'[thr'[t].c].fd \in pm'.wfds
          \/ conn'[thr'[t].c].dead /\ thr'[Owner].pc # "accept"
    <3> TAKE t \in Worker
    <3> HAVE thr'[t].pc = "send_complete"
    <3>1. thr'[t] = thr[t] /\ Survives(thr[t].c)
      BY <1>3, <1>7 DEF OwnPc
    <3>2. thr[Owner].pc # "accept" => thr'[Owner].pc # "accept"
      BY <1>3 DEF Turnover
    <3>3. pm'.wfds = pm.wfds
      BY DEF Turnover
    <3> DEFINE d == thr[t].c
    <3>4. \/ ~conn[d].dead /\ conn[d].wpdu.solong < conn[d].wpdu.sz /\ conn[d].fd \in pm.wfds
          \/ conn[d].dead /\ thr[Owner].pc # "accept"
      BY <3>1 DEF IInv, BufInv
    <3>5. conn'[d].dead = conn[d].dead /\ conn'[d].wpdu = conn[d].wpdu /\ conn'[d].fd = conn[d].fd
      BY <3>1 DEF Survives
    <3> QED BY <3>1, <3>2, <3>3, <3>4, <3>5
  <2>7. \A t \in Worker : thr'[t].pc = "send_signalled" =>
          conn'[thr'[t].c].dead \/ conn'[thr'[t].c].wpdu.solong = conn'[thr'[t].c].wpdu.sz
    BY <1>3, <1>7 DEF IInv, BufInv, Survives, OwnPc
  <2> QED BY <2>1, <2>2, <2>3, <2>4, <2>5, <2>6, <2>7 DEF BufInv
<1>15. WaitersInv'
  <2>1. \A d \in Open' : conn'[d].waiters = Cardinality(WaitAt(thr', d))
    <3> TAKE d \in Open'
    <3>1. d \in Conn /\ conn'[d].st = "open"
      BY DEF Open
    <3>2. WaitAt(thr', d) = WaitAt(thr, d)
      BY <1>3, <1>7, <1>8 DEF WaitAt
    <3>3. CASE Survives(d)
      <4>1. d \in Open /\ conn'[d].waiters = conn[d].waiters
        BY <3>1, <3>3 DEF Survives, Open
      <4> QED BY <3>2, <4>1, WaitersDef DEF IInv
    <3>4. CASE Born(d)
      <4>1. \A t \in Worker : thr[t].c # d
        BY <1>1, <1>3, <3>1, <3>4, HeldIsOpen DEF Born
      <4>2. WaitAt(thr, d) = {}
        BY <4>1 DEF WaitAt
      <4> QED BY <3>2, <3>4, <4>2, FS_EmptySet DEF Born
    <3>5. ~Reaped(d)
      BY <3>1 DEF Reaped, NoConn
    <3> QED BY <3>1, <3>3, <3>4, <3>5 DEF Turnover
  <2> QED BY <2>1, WaitersDef
<1>16. ByteInv'
  <2>1. NoByteLost'
    <3> SUFFICES ASSUME NEW d \in Conn, conn'[d].st = "open", ~conn'[d].dead
                 PROVE  io'[d].sent = io'[d].inq + conn'[d].rpdu.solong + io'[d].got * PduSz
      BY DEF NoByteLost, Open
    <3>1. CASE Survives(d)
      BY <3>1 DEF Survives, IInv, ByteInv, NoByteLost, Open
    <3>2. CASE Born(d)
      <4>1. io'[d] = NewSock
        BY <3>2 DEF Born, IInv, ByteInv
      <4>2. conn'[d].rpdu = NoPdu
        BY <3>2 DEF Born
      <4> QED BY <4>1, <4>2 DEF NewSock, NoPdu
    <3>3. ~Reaped(d)
      BY DEF Reaped, NoConn
    <3> QED BY <3>1, <3>2, <3>3 DEF Turnover
  <2>2. \A d \in Conn : conn'[d].st = "none" => io'[d] = NewSock
    BY DEF Turnover, Survives, Reaped, Born, NoConn, IInv, ByteInv
  <2>3. \A d \in Open' : conn'[d].rpdu.solong \in 0 .. PduSz
    <3> TAKE d \in Open'
    <3>1. d \in Conn /\ conn'[d].st = "open"
      BY DEF Open
    <3>2. CASE Survives(d)
      BY <3>1, <3>2 DEF Survives, IInv, ByteInv, Open
    <3>3. CASE Born(d)
      BY <3>3 DEF Born, NoPdu
    <3>4. ~Reaped(d)
      BY <3>1 DEF Reaped, NoConn
    <3> QED BY <3>1, <3>2, <3>3, <3>4 DEF Turnover
  <2> QED BY <2>1, <2>2, <2>3 DEF ByteInv
<1>17. RemoverWillBeWoken'
  <2>1. NoneEnters(Removing)
    BY <1>7, Places DEF NoneEnters
  <2> QED BY <2>1, WokenKept DEF IInv, Turnover
<1> QED BY <1>11, <1>12, <1>13, <1>14, <1>15, <1>16, <1>17

\* decref.
LEMMA DroppedIs ==
  ASSUME NEW o \in Object
  PROVE  \/ o.refno = 1 /\ o.dead /\ Dropped(o) = NoConn("deleted")
         \/ /\ ~(o.refno = 1 /\ o.dead) /\ Dropped(o) \in Object /\ Dropped(o).refno = o.refno - 1
            /\ Dropped(o).st = o.st /\ Dropped(o).fd = o.fd /\ Dropped(o).dead = o.dead
            /\ Dropped(o).waiters = o.waiters /\ Dropped(o).buf = o.buf
            /\ Dropped(o).wpdu = o.wpdu /\ Dropped(o).rpdu = o.rpdu
<1>1. CASE o.refno = 1 /\ o.dead
  BY <1>1 DEF Dropped
<1>2. CASE ~(o.refno = 1 /\ o.dead)
  <2> DEFINE k == o.refno - 1
             p == [o EXCEPT !.refno = k]
  <2>1. Dropped(o) = p
    BY <1>2 DEF Dropped
  <2>2. k \in Int
    BY DEF Object
  <2> HIDE DEF k
  <2>3. /\ p \in Object /\ p.refno = k /\ p.st = o.st /\ p.fd = o.fd /\ p.dead = o.dead
        /\ p.waiters = o.waiters /\ p.buf = o.buf /\ p.wpdu = o.wpdu /\ p.rpdu = o.rpdu
    BY <2>2 DEF Object
  <2> QED BY <1>2, <2>1, <2>3 DEF k
<1> QED BY <1>1, <1>2

\* The objects a connection starts and ends as.
LEMMA NoConnType ==
  /\ \A st \in {"none", "open", "deleted"} : NoConn(st) \in Object
  /\ \A fd \in Fd : /\ NewConn(fd) \in Object /\ NewConn(fd).st = "open" /\ NewConn(fd).fd = fd
                    /\ ~NewConn(fd).dead /\ NewConn(fd).refno = 1 /\ NewConn(fd).waiters = 0
                    /\ ~NewConn(fd).buf /\ NewConn(fd).wpdu = NoPdu /\ NewConn(fd).rpdu = NoPdu
<1>1. NoPdu \in WPdu /\ NoPdu \in RPdu
  BY DEF NoPdu, WPdu, RPdu
<1>2. \A st \in {"none", "open", "deleted"} : NoConn(st) \in Object
  BY <1>1 DEF NoConn, Object
<1>3. ASSUME NEW fd \in Fd
      PROVE  /\ NewConn(fd) \in Object /\ NewConn(fd).st = "open" /\ NewConn(fd).fd = fd
             /\ ~NewConn(fd).dead /\ NewConn(fd).refno = 1 /\ NewConn(fd).waiters = 0
             /\ ~NewConn(fd).buf /\ NewConn(fd).wpdu = NoPdu /\ NewConn(fd).rpdu = NoPdu
  <2>1. PICK o \in Object : /\ o = NoConn("open") /\ o.st = "open" /\ ~o.dead /\ o.waiters = 0
                            /\ ~o.buf /\ o.wpdu = NoPdu /\ o.rpdu = NoPdu
    BY <1>2 DEF NoConn
  <2>2. NewConn(fd) = [o EXCEPT !.fd = fd, !.refno = 1]
    BY <2>1 DEF NewConn
  <2>3. fd \in Fd \cup {0} /\ 1 \in Int
    OBVIOUS
  <2>4. NewConn(fd) \in Object /\ NewConn(fd).fd = fd /\ NewConn(fd).refno = 1
    BY <2>1, <2>2, <2>3 DEF Object
  <2>5. /\ NewConn(fd).st = o.st /\ NewConn(fd).dead = o.dead /\ NewConn(fd).waiters = o.waiters
        /\ NewConn(fd).buf = o.buf /\ NewConn(fd).wpdu = o.wpdu /\ NewConn(fd).rpdu = o.rpdu
    BY <2>1, <2>2 DEF Object
  <2> QED BY <2>1, <2>4, <2>5
<1> QED BY <1>2, <1>3

\* The sockets after a step that may have deleted connections.
LEMMA SocketsEffect ==
  ASSUME Types, io' = Sockets(conn')
  PROVE  io' \in [Conn -> Socket] /\ \A d \in Conn : conn'[d].st # "deleted" => io'[d] = io[d]
<1>1. io \in [Conn -> Socket]
  BY DEF Types
<1>2. ASSUME NEW d \in Conn
      PROVE  io'[d] \in Socket /\ (conn'[d].st # "deleted" => io'[d] = io[d])
  <2>1. CASE conn'[d].st = "deleted"
    <3>1. PICK n \in Int : n = io[d].sent
      BY <1>1 DEF Socket
    <3>2. io'[d] = [NewSock EXCEPT !.sent = n]
      BY <2>1, <3>1 DEF Sockets
    <3>3. NewSock \in Socket
      BY DEF NewSock, Socket
    <3> QED BY <2>1, <3>2, <3>3 DEF Socket
  <2>2. CASE conn'[d].st # "deleted"
    BY <1>1, <2>2 DEF Sockets
  <2> QED BY <2>1, <2>2
<1>3. io' \in [Conn -> Socket]
  BY <1>2 DEF Sockets
<1> QED BY <1>2, <1>3

\* A reference to c is dropped; what is deleted is in no table.
LEMMA RefInvDropped ==
  ASSUME Types, Types', RefInv, NEW c \in Conn, conn[c].st = "open",
         \A d \in Conn : d # c => Survives(d) /\ conn'[d].refno = conn[d].refno,
         \/ Reaped(c) /\ conn[c].refno = 1
         \/ Survives(c) /\ conn'[c].refno = conn[c].refno - 1,
         \A d \in Conn : Holders(d)' = Holders(d) - Ind(c = d),
         \A fd \in Fd : conns'[fd] # NULL => conns'[fd] = conns[fd] /\ ~Reaped(conns[fd]),
         thr'[Owner].c # NULL => /\ thr'[Owner].c = thr[Owner].c /\ ~Reaped(thr[Owner].c)
                                 /\ conns' = conns
  PROVE  RefInv'
<1>1. \A d \in Conn : Survives(d) \/ (d = c /\ Reaped(d))
  OBVIOUS
<1>2. \A d \in Conn : IF conn'[d].st = "open" THEN conn'[d].refno = Holders(d)' ELSE Holders(d)' = 0
  <2> TAKE d \in Conn
  <2>1. Holders(d) \in Nat
    BY HeldIsOpen
  <2>2. CASE d # c
    <3>1. Holders(d)' = Holders(d)
      BY <2>1, <2>2 DEF Ind
    <3> QED BY <2>2, <3>1 DEF RefInv, Survives
  <2>3. CASE d = c
    <3>1. Holders(c)' = Holders(c) - 1
      BY <2>3 DEF Ind
    <3>2. conn[c].refno = Holders(c)
      BY DEF RefInv
    <3>3. CASE Reaped(c) /\ conn[c].refno = 1
      BY <2>3, <3>1, <3>2, <3>3 DEF Reaped, NoConn
    <3>4. CASE Survives(c) /\ conn'[c].refno = conn[c].refno - 1
      BY <2>3, <3>1, <3>2, <3>4 DEF Survives
    <3> QED BY <3>3, <3>4
  <2> QED BY <2>2, <2>3
<1>3. ASSUME NEW d \in Open'
      PROVE  d \in Conn /\ Survives(d) /\ d \in Open /\ conn'[d].fd = conn[d].fd
  <2>1. d \in Conn /\ conn'[d].st = "open"
    BY DEF Open
  <2>2. ~Reaped(d)
    BY <2>1 DEF Reaped, NoConn
  <2> QED BY <1>1, <2>1, <2>2 DEF Survives, Open
<1>4. \A d \in Open' : conn'[d].fd \in Fd
  BY <1>3 DEF RefInv
<1>5. \A d, e \in Open' : conn'[d].fd = conn'[e].fd => d = e
  BY <1>3 DEF RefInv
<1>6. \A fd \in Fd : conns'[fd] # NULL => conn'[conns'[fd]].fd = fd
  <2> TAKE fd \in Fd
  <2> HAVE conns'[fd] # NULL
  <2>1. PICK d \in Conn : d = conns[fd] /\ d = conns'[fd]
    BY DEF Types
  <2> QED BY <1>1, <2>1 DEF Survives, RefInv
<1>7. thr'[Owner].c # NULL => /\ conn'[thr'[Owner].c].fd \in Fd /\ conn'[thr'[Owner].c].dead
                              /\ conns'[conn'[thr'[Owner].c].fd] = thr'[Owner].c
  <2> HAVE thr'[Owner].c # NULL
  <2>1. PICK d \in Conn : d = thr'[Owner].c /\ d = thr[Owner].c
    BY DEF Types, ThreadTypes
  <2>2. Survives(d) /\ conns' = conns
    BY <1>1, <2>1
  <2>3. conn[d].fd \in Fd /\ conn[d].dead /\ conns[conn[d].fd] = d
    BY <2>1 DEF RefInv
  <2> QED BY <2>1, <2>2, <2>3 DEF Survives
<1> QED BY <1>2, <1>4, <1>5, <1>6, <1>7 DEF RefInv

\* One thread leaves with a connection whose reference it drops.
LEMMA EndJobStep ==
  ASSUME IInv, NEW t \in Worker, EndJob(t)
  PROVE  IInv'
<1>1. /\ Types /\ RefInv /\ jobs \in Seq(Conn) /\ conn \in [Conn -> Object]
      /\ t \in Thread /\ Owner \in Thread /\ t # Owner
      /\ thr \in [Thread -> [pc : AllPc, c : Conn \cup {NULL}]]
  BY DEF IInv, Types, ThreadTypes, Thread, AllPc
<1>2. PICK c \in Conn : c = thr[t].c
  BY <1>1 DEF EndJob, Types, ThreadTypes
<1>3. conn[c].st = "open" /\ conn[c] \in Object
  BY <1>1, <1>2, HeldIsOpen
<1>4. /\ pm' = pm /\ loop' = loop /\ conns' = conns /\ jobs' = jobs /\ aborted' = aborted
      /\ thr[t].pc = "sent" /\ io' = Sockets(conn')
      /\ conn' = [conn EXCEPT ![c] = Dropped(conn[c])]
      /\ thr' = [thr EXCEPT ![t] = [pc |-> "idle", c |-> NULL]]
  BY <1>1, <1>2 DEF EndJob
<1>5. /\ thr' \in [Thread -> [pc : AllPc, c : Conn \cup {NULL}]]
      /\ thr'[t].pc = "idle" /\ thr'[t].c = NULL /\ \A u \in Thread : u # t => thr'[u] = thr[u]
  <2>1. [pc |-> "idle", c |-> NULL] \in [pc : AllPc, c : Conn \cup {NULL}]
    BY DEF AllPc
  <2> QED BY <1>1, <1>4, <2>1
<1>6. Dropped(conn[c]) \in Object
  BY <1>3, DroppedIs, NoConnType
<1>7. conn' \in [Conn -> Object] /\ conn'[c] = Dropped(conn[c]) /\ \A d \in Conn : d # c => conn'[d] = conn[d]
  BY <1>1, <1>4, <1>6
<1>8. io' \in [Conn -> Socket] /\ \A d \in Conn : conn'[d].st # "deleted" => io'[d] = io[d]
  BY <1>1, <1>4, SocketsEffect
<1>9. Types'
  <2>1. ThreadTypes'
    <3>1. \A u \in Worker : \/ thr'[u].pc = "idle" /\ thr'[u].c = NULL
                            \/ thr'[u].pc \in SendPc /\ thr'[u].c \in Conn
      BY <1>1, <1>5 DEF Types, ThreadTypes, Thread
    <3>2. \/ thr'[Owner].pc \in {"accept", "closing", "done"} /\ thr'[Owner].c = NULL
          \/ thr'[Owner].pc \in ClosePc /\ thr'[Owner].c \in Conn
      BY <1>1, <1>5 DEF Types, ThreadTypes
    <3> QED BY <1>5, <3>1, <3>2 DEF ThreadTypes, AllPc
  <2> QED BY <1>1, <1>4, <1>7, <1>8, <2>1 DEF Types
<1>10. \/ Reaped(c) /\ conn[c].refno = 1
       \/ Survives(c) /\ conn'[c].refno = conn[c].refno - 1
  <2>1. CASE conn[c].refno = 1 /\ conn[c].dead /\ Dropped(conn[c]) = NoConn("deleted")
    <3>1. \A u \in Thread : u # t => thr[u].c # c
      BY <1>1, <1>2, <1>3, <2>1, LoneHolder
    <3> QED BY <1>3, <1>4, <1>7, <2>1, <3>1 DEF Reaped
  <2>2. CASE ~(conn[c].refno = 1 /\ conn[c].dead)
    BY <1>3, <1>7, <1>8, <2>2, DroppedIs DEF Survives
  <2> QED BY <1>3, <2>1, <2>2, DroppedIs
<1>11. \A d \in Conn : d # c => Survives(d)
  BY <1>7, <1>8 DEF Survives
<1>12. Turnover
  <2>1. \A d \in Conn : Survives(d) \/ Reaped(d)
    BY <1>10, <1>11
  <2>2. \A d \in Conn : ~Born(d)
    BY <2>1 DEF Survives, Reaped, Born
  <2> QED BY <1>4, <1>5, <2>1, <2>2 DEF Turnover
<1>13. RefInv'
  <2>1. \A d \in Conn : Holders(d)' = Holders(d) - Ind(c = d)
    <3> TAKE d \in Conn
    <3>1. Cardinality(ThrAt(thr', d)) = Cardinality(ThrAt(thr, d)) + Ind(NULL = d) - Ind(c = d)
      <4>1. \A u \in Worker \ {t} : thr'[u].c = thr[u].c
        BY <1>5 DEF Thread
      <4>2. Ind(NULL = d) = 0 /\ Cardinality(ThrAt(thr, d)) \in Nat
        BY <1>1, CountTypes DEF Ind
      <4>3. CASE d = c
        <5>1. ThrAt(thr', d) = ThrAt(thr, d) \ {t} /\ t \in ThrAt(thr, d)
          BY <1>2, <1>5, <4>1, <4>3 DEF ThrAt
        <5>2. IsFiniteSet(ThrAt(thr, d))
          <6>1. ThrAt(thr, d) \in SUBSET Worker
            BY DEF ThrAt
          <6> QED BY <6>1, FS_Subset
        <5>3. \A S : IsFiniteSet(S) /\ t \in S => Cardinality(S \ {t}) = Cardinality(S) - 1
          BY FS_RemoveElement
        <5>4. Cardinality(ThrAt(thr', d)) = Cardinality(ThrAt(thr, d)) - 1
          BY <5>1, <5>2, <5>3
        <5> QED BY <4>2, <4>3, <5>4 DEF Ind
      <4>4. CASE d # c
        <5>1. ThrAt(thr', d) = ThrAt(thr, d)
          BY <1>2, <1>5, <4>1, <4>4 DEF ThrAt
        <5> QED BY <4>2, <4>4, <5>1 DEF Ind
      <4> QED BY <4>3, <4>4
    <3>2. Ind(NULL = d) = 0
      BY DEF Ind
    <3>3. /\ Cardinality(FdsAt(conns, d)) \in Nat /\ Cardinality(JobsAt(jobs, d)) \in Nat
          /\ Cardinality(ThrAt(thr, d)) \in Nat /\ Ind(c = d) \in Nat
      BY <1>1, CountTypes DEF Ind
    <3>4. \A a, b, e, i \in Nat : a + b + (e + 0 - i) = (a + b + e) - i
      OBVIOUS
    <3>5. Holders(d)' = Cardinality(FdsAt(conns', d)) + Cardinality(JobsAt(jobs', d))
                          + Cardinality(ThrAt(thr', d))
      BY HoldersSum
    <3>6. FdsAt(conns', d) = FdsAt(conns, d) /\ JobsAt(jobs', d) = JobsAt(jobs, d)
      BY <1>4
    <3>7. Holders(d)' = Cardinality(FdsAt(conns, d)) + Cardinality(JobsAt(jobs, d))
                          + (Cardinality(ThrAt(thr, d)) + 0 - Ind(c = d))
      BY <3>1, <3>2, <3>5, <3>6
    <3>8. Holders(d)' = (Cardinality(FdsAt(conns, d)) + Cardinality(JobsAt(jobs, d))
                          + Cardinality(ThrAt(thr, d))) - Ind(c = d)
      BY <3>3, <3>4, <3>7
    <3> QED BY <3>8, HoldersSum
  <2>2. thr'[Owner] = thr[Owner]
    BY <1>1, <1>5
  <2>3. \A d \in Conn : d # c => Survives(d) /\ conn'[d].refno = conn[d].refno
    BY <1>7, <1>11
  <2>4. Reaped(c) => /\ \A fd \in Fd : conns[fd] # c
                     /\ thr[Owner].c # c
    <3> HAVE Reaped(c)
    <3>1. conn[c].refno = 1
      BY <1>10 DEF Survives, Reaped, NoConn
    <3> QED BY <1>1, <1>2, <1>3, <3>1, LoneHolder
  <2>5. \A d \in Conn : Reaped(d) => d = c
    BY <1>11 DEF Survives, Reaped, NoConn
  <2>6. \A fd \in Fd : conns'[fd] # NULL => conns'[fd] = conns[fd] /\ ~Reaped(conns[fd])
    BY <1>1, <1>4, <2>4, <2>5 DEF Types
  <2>7. thr'[Owner].c # NULL => /\ thr'[Owner].c = thr[Owner].c /\ ~Reaped(thr[Owner].c)
                                /\ conns' = conns
    BY <1>1, <1>4, <2>2, <2>4, <2>5
  <2> QED BY <1>1, <1>3, <1>9, <1>10, <2>1, <2>3, <2>6, <2>7, RefInvDropped
<1> QED BY <1>9, <1>12, <1>13, TurnoverStep DEF IInv

\* The end of closing one connection: ~rpcs drops the reference of conns_.
LEMMA EndCloseStep ==
  ASSUME IInv, EndClose
  PROVE  IInv'
<1>1. /\ Types /\ RefInv /\ jobs \in Seq(Conn) /\ conn \in [Conn -> Object]
      /\ conns \in [Fd -> Conn \cup {NULL}] /\ Owner \in Thread /\ Worker \subseteq Thread
      /\ thr \in [Thread -> [pc : AllPc, c : Conn \cup {NULL}]]
  BY DEF IInv, Types, ThreadTypes, Thread, AllPc
<1>2. PICK c \in Conn : c = thr[Owner].c
  BY <1>1 DEF EndClose, Types, ThreadTypes
<1>3. conn[c].st = "open" /\ conn[c] \in Object /\ conn[c].fd \in Fd /\ conns[conn[c].fd] = c
  BY <1>1, <1>2, HeldIsOpen
<1>4. /\ pm' = pm /\ loop' = loop /\ jobs' = jobs /\ aborted' = aborted
      /\ thr[Owner].pc = "closed" /\ io' = Sockets(conn')
      /\ conn' = [conn EXCEPT ![c] = Dropped(conn[c])]
      /\ conns' = [fd \in Fd |-> IF conns[fd] = c THEN NULL ELSE conns[fd]]
      /\ thr' = [thr EXCEPT ![Owner] = [pc |-> "closing", c |-> NULL]]
  BY <1>1, <1>2 DEF EndClose
<1>5. /\ thr' \in [Thread -> [pc : AllPc, c : Conn \cup {NULL}]]
      /\ thr'[Owner].pc = "closing" /\ thr'[Owner].c = NULL
      /\ \A u \in Thread : u # Owner => thr'[u] = thr[u]
      /\ \A u \in Worker : thr'[u] = thr[u]
  <2>1. [pc |-> "closing", c |-> NULL] \in [pc : AllPc, c : Conn \cup {NULL}]
    BY DEF AllPc
  <2> QED BY <1>1, <1>4, <2>1
<1>6. Dropped(conn[c]) \in Object
  BY <1>3, DroppedIs, NoConnType
<1>7. conn' \in [Conn -> Object] /\ conn'[c] = Dropped(conn[c]) /\ \A d \in Conn : d # c => conn'[d] = conn[d]
  BY <1>1, <1>4, <1>6
<1>8. io' \in [Conn -> Socket] /\ \A d \in Conn : conn'[d].st # "deleted" => io'[d] = io[d]
  BY <1>1, <1>4, SocketsEffect
<1>9. /\ conns' \in [Fd -> Conn \cup {NULL}]
      /\ \A fd \in Fd : conns'[fd] = IF conns[fd] = c THEN NULL ELSE conns[fd]
  BY <1>1, <1>4
<1>10. Types'
  <2>1. ThreadTypes'
    <3>1. \A u \in Worker : \/ thr'[u].pc = "idle" /\ thr'[u].c = NULL
                            \/ thr'[u].pc \in SendPc /\ thr'[u].c \in Conn
      BY <1>1, <1>5 DEF Types, ThreadTypes
    <3> QED BY <1>5, <3>1 DEF ThreadTypes, AllPc
  <2> QED BY <1>1, <1>4, <1>7, <1>8, <1>9, <2>1 DEF Types
<1>11. \/ Reaped(c) /\ conn[c].refno = 1
       \/ Survives(c) /\ conn'[c].refno = conn[c].refno - 1
  <2>1. CASE conn[c].refno = 1 /\ conn[c].dead /\ Dropped(conn[c]) = NoConn("deleted")
    <3>1. \A u \in Worker : thr[u].c # c
      BY <1>1, <1>3, <2>1, LoneHolder
    <3> QED BY <1>3, <1>4, <1>7, <2>1, <3>1 DEF Reaped, Thread
  <2>2. CASE ~(conn[c].refno = 1 /\ conn[c].dead)
    BY <1>3, <1>7, <1>8, <2>2, DroppedIs DEF Survives
  <2> QED BY <1>3, <2>1, <2>2, DroppedIs
<1>12. \A d \in Conn : d # c => Survives(d)
  BY <1>7, <1>8 DEF Survives
<1>13. Turnover
  <2>1. \A d \in Conn : Survives(d) \/ Reaped(d)
    BY <1>11, <1>12
  <2>2. \A d \in Conn : ~Born(d)
    BY <2>1 DEF Survives, Reaped, Born
  <2> QED BY <1>4, <1>5, <2>1, <2>2 DEF Turnover
<1>14. RefInv'
  <2>1. \A d \in Conn : Holders(d)' = Holders(d) - Ind(c = d)
    <3> TAKE d \in Conn
    <3>1. Cardinality(FdsAt(conns', d)) = Cardinality(FdsAt(conns, d)) - Ind(c = d)
      <4>1. PICK f \in Fd : f = conn[c].fd
        BY <1>3
      <4>2. FdsAt(conns, d) \in SUBSET Fd /\ FdsAt(conns', d) \in SUBSET Fd /\ IsFiniteSet(Fd)
        BY FdType DEF FdsAt
      <4>3. \A x \in Fd \ {f} : conns[x] # c
        BY <4>1 DEF IInv, RefInv
      <4>4. \A x \in Fd \ {f} : x \in FdsAt(conns, d) <=> x \in FdsAt(conns', d)
        BY <1>9, <4>3 DEF FdsAt
      <4>5. /\ Cardinality(FdsAt(conns, d)) \in Nat
            /\ Cardinality(FdsAt(conns', d)) = Cardinality(FdsAt(conns, d))
                 + Ind(f \in FdsAt(conns', d)) - Ind(f \in FdsAt(conns, d))
        BY <4>2, <4>4, OneChanges
      <4>6. f \notin FdsAt(conns', d) /\ (f \in FdsAt(conns, d) <=> c = d)
        BY <1>3, <1>9, <4>1 DEF FdsAt
      <4>7. Ind(f \in FdsAt(conns', d)) = 0 /\ Ind(f \in FdsAt(conns, d)) = Ind(c = d) /\ Ind(c = d) \in Int
        BY <4>6 DEF Ind
      <4> QED BY <4>5, <4>7
    <3>2. ThrAt(thr', d) = ThrAt(thr, d) /\ JobsAt(jobs', d) = JobsAt(jobs, d)
      BY <1>4, <1>5 DEF ThrAt
    <3>3. /\ Cardinality(FdsAt(conns, d)) \in Nat /\ Cardinality(JobsAt(jobs, d)) \in Nat
          /\ Cardinality(ThrAt(thr, d)) \in Nat /\ Ind(c = d) \in Nat
      BY <1>1, CountTypes DEF Ind
    <3>4. \A a, b, e, i \in Nat : (a - i) + b + e = (a + b + e) - i
      OBVIOUS
    <3>5. Holders(d)' = Cardinality(FdsAt(conns', d)) + Cardinality(JobsAt(jobs', d))
                          + Cardinality(ThrAt(thr', d))
      BY HoldersSum
    <3>6. Holders(d)' = (Cardinality(FdsAt(conns, d)) - Ind(c = d)) + Cardinality(JobsAt(jobs, d))
                          + Cardinality(ThrAt(thr, d))
      BY <3>1, <3>2, <3>5
    <3>7. Holders(d)' = (Cardinality(FdsAt(conns, d)) + Cardinality(JobsAt(jobs, d))
                          + Cardinality(ThrAt(thr, d))) - Ind(c = d)
      BY <3>3, <3>4, <3>6
    <3> QED BY <3>7, HoldersSum
  <2>2. \A d \in Conn : d # c => Survives(d) /\ conn'[d].refno = conn[d].refno
    BY <1>7, <1>12
  <2>3. \A d \in Conn : Reaped(d) => d = c
    BY <1>12 DEF Survives, Reaped, NoConn
  <2>4. \A fd \in Fd : conns'[fd] # NULL => conns'[fd] = conns[fd] /\ ~Reaped(conns[fd])
    <3> TAKE fd \in Fd
    <3> HAVE conns'[fd] # NULL
    <3>1. conns[fd] # c /\ conns'[fd] = conns[fd]
      BY <1>9
    <3>2. conns[fd] \in Conn
      BY <1>1, <3>1
    <3> QED BY <2>3, <3>1, <3>2
  <2> QED BY <1>1, <1>3, <1>5, <1>10, <1>11, <2>1, <2>2, <2>4, RefInvDropped
<1> QED BY <1>10, <1>13, <1>14, TurnoverStep DEF IInv

\* closeconn declares a connection dead, or finds that somebody else did.
LEMMA CloseStep ==
  ASSUME IInv, closeconn
  PROVE  IInv'
<1>1. /\ Types /\ RefInv /\ conn \in [Conn -> Object] /\ io \in [Conn -> Socket]
      /\ conns \in [Fd -> Conn \cup {NULL}] /\ Owner \in Thread /\ Worker \subseteq Thread
      /\ thr \in [Thread -> [pc : AllPc, c : Conn \cup {NULL}]]
  BY DEF IInv, Types, ThreadTypes, Thread, AllPc
<1>2. PICK f \in CloseFds : f = Min(CloseFds)
  <2>1. CloseFds \in SUBSET Nat /\ CloseFds # {}
    BY FdType DEF CloseFds, closeconn
  <2> QED BY <2>1, MinIn
<1>3. f \in Fd /\ conns[f] # NULL
  BY DEF CloseFds
<1>4. PICK c \in Conn : c = conns[f]
  BY <1>1, <1>3
<1>5. conn[c].st = "open" /\ conn[c].fd = f /\ conn[c] \in Object /\ io[c] \in Socket
  BY <1>1, <1>3, <1>4, HeldIsOpen
<1>6. /\ pm' = pm /\ loop' = loop /\ conns' = conns /\ jobs' = jobs /\ aborted' = aborted
      /\ thr[Owner].pc = "closing"
  BY DEF closeconn
<1>7. thr[Owner].c = NULL
  BY <1>1, <1>6 DEF Types, ThreadTypes, ClosePc
\* In both cases
<1>8. ASSUME NEW p \in {"closed", "close_remove"}, thr' = [thr EXCEPT ![Owner] = [pc |-> p, c |-> c]]
      PROVE  /\ ThreadTypes' /\ thr'[Owner].pc = p /\ thr'[Owner].c = c
             /\ \A u \in Worker : thr'[u] = thr[u]
  <2>1. [pc |-> p, c |-> c] \in [pc : AllPc, c : Conn \cup {NULL}] /\ p \in ClosePc
    BY <1>8 DEF AllPc, ClosePc
  <2>2. /\ thr' \in [Thread -> [pc : AllPc, c : Conn \cup {NULL}]]
        /\ thr'[Owner].pc = p /\ thr'[Owner].c = c /\ \A u \in Worker : thr'[u] = thr[u]
    BY <1>1, <1>8, <2>1
  <2>3. \A u \in Worker : \/ thr'[u].pc = "idle" /\ thr'[u].c = NULL
                          \/ thr'[u].pc \in SendPc /\ thr'[u].c \in Conn
    BY <1>1, <2>2 DEF Types, ThreadTypes
  <2> QED BY <2>1, <2>2, <2>3 DEF ThreadTypes, AllPc
<1>9. ASSUME Types', SameObjects, \A d \in Conn : conn'[d].refno = conn[d].refno,
             \A u \in Worker : thr'[u] = thr[u], thr'[Owner].c = c, conn'[c].dead
      PROVE  RefInv'
  <2>1. \A d : ThrAt(thr', d) = ThrAt(thr, d)
    BY <1>9 DEF ThrAt
  <2>2. \A d : Holders(d)' = Holders(d)
    BY <1>6, <2>1, HoldersSum
  <2>3. \A d \in Conn : IF conn'[d].st = "open" THEN conn'[d].refno = Holders(d)' ELSE Holders(d)' = 0
    BY <1>1, <1>9, <2>2 DEF RefInv, SameObjects
  <2>4. \A d \in Open' : conn'[d].fd \in Fd
    BY <1>1, <1>9 DEF RefInv, SameObjects, Open
  <2>5. \A d, e \in Open' : conn'[d].fd = conn'[e].fd => d = e
    BY <1>1, <1>9 DEF RefInv, SameObjects, Open
  <2>6. \A fd \in Fd : conns'[fd] # NULL => conn'[conns'[fd]].fd = fd
    BY <1>1, <1>6, <1>9 DEF RefInv, SameObjects
  <2>7. /\ conn'[thr'[Owner].c].fd \in Fd /\ conn'[thr'[Owner].c].dead
        /\ conns'[conn'[thr'[Owner].c].fd] = thr'[Owner].c
    BY <1>3, <1>4, <1>5, <1>6, <1>9 DEF SameObjects
  <2> QED BY <2>3, <2>4, <2>5, <2>6, <2>7 DEF RefInv
<1>10. CASE conn[c].dead
  <2>1. /\ conn' = conn /\ io' = io
        /\ thr' = [thr EXCEPT ![Owner] = [pc |-> "closed", c |-> c]]
    BY <1>2, <1>4, <1>10 DEF closeconn
  <2>2. /\ ThreadTypes' /\ thr'[Owner].pc = "closed" /\ thr'[Owner].c = c
        /\ \A u \in Worker : thr'[u] = thr[u]
    BY <1>8, <2>1
  <2>3. Types'
    BY <1>1, <1>6, <2>1, <2>2 DEF Types
  <2>4. SameObjects /\ SameDead /\ SameWatch /\ SameBufs /\ SameInput
    BY <1>6, <2>1 DEF SameObjects, SameDead, SameWatch, SameBufs, SameInput
  <2>5. RefInv'
    BY <1>9, <1>10, <2>1, <2>2, <2>3, <2>4
  <2>6. ASSUME NEW P, P \cap {"closed", "closing"} = {}
        PROVE  NoneEnters(P) /\ NoneLeaves(P)
    BY <1>6, <2>2, <2>6 DEF NoneEnters, NoneLeaves, Thread
  <2>7. NoneEnters(KillPc) /\ NoneEnters(Removing \cup RemovedPc) /\ NoneLeaves(RemoverPc)
        /\ NoneEnters(RemovedPc) /\ NoneEnters(Removing)
    BY <2>6 DEF KillPc, RemoverPc, RemovePc, RemovedPc, Removing
  <2>8. NoneEnters(OwnPc) /\ NoneLeaves(OwnPc) /\ NoneEnters({"send_wait"})
        /\ NoneEnters({"send_complete"}) /\ NoneEnters({"send_signalled"})
        /\ NoneEnters(WaitPc) /\ NoneLeaves(WaitPc)
    BY <2>6 DEF OwnPc, WaitPc
  <2>9. KillInv'
    BY <1>1, <2>4, <2>7, KillInvKept DEF IInv
  <2>10. WatchInv'
    BY <1>1, <2>4, <2>7, WatchInvKept DEF IInv
  <2>11. BufInv'
    BY <1>1, <1>6, <2>2, <2>4, <2>8, BufInvKept DEF IInv
  <2>12. WaitersInv'
    BY <2>1, <2>4, <2>8, WaitersInvKept DEF IInv
  <2>13. ByteInv'
    BY <2>4, ByteInvKept DEF IInv
  <2>14. RemoverWillBeWoken'
    BY <1>6, <2>7, WokenKept DEF IInv
  <2>15. LoopInv'
    <3>1. StillRegistered
      BY <1>6, <2>1 DEF StillRegistered, Input
    <3>2. \A d \in Open : conn[d].fd \in Fd
      BY DEF IInv, RefInv
    <3> QED BY <1>1, <1>6, <2>1, <2>7, <3>1, <3>2, LoopInvKept DEF IInv
  <2> QED BY <2>3, <2>5, <2>9, <2>10, <2>11, <2>12, <2>13, <2>14, <2>15 DEF IInv
<1>11. CASE ~conn[c].dead
  <2> DEFINE o == [conn[c] EXCEPT !.dead = TRUE]
             s == [io[c] EXCEPT !.down = TRUE]
  <2>1. /\ conn' = [conn EXCEPT ![c] = o] /\ io' = [io EXCEPT ![c] = s]
        /\ thr' = [thr EXCEPT ![Owner] = [pc |-> "close_remove", c |-> c]]
    BY <1>1, <1>2, <1>4, <1>11 DEF closeconn
  <2>2. /\ o \in Object /\ o.st = conn[c].st /\ o.fd = conn[c].fd /\ o.refno = conn[c].refno /\ o.dead
        /\ o.waiters = conn[c].waiters /\ o.buf = conn[c].buf /\ o.rpdu = conn[c].rpdu
        /\ o.wpdu = conn[c].wpdu
    BY <1>5 DEF Object
  <2>3. s \in Socket /\ s.inq = io[c].inq /\ s.sent = io[c].sent /\ s.got = io[c].got /\ s.down
    BY <1>5 DEF Socket
  <2> HIDE DEF o, s
  <2>4. conn' \in [Conn -> Object] /\ conn'[c] = o /\ \A d \in Conn : d # c => conn'[d] = conn[d]
    BY <1>1, <2>1, <2>2
  <2>5. io' \in [Conn -> Socket] /\ io'[c] = s /\ \A d \in Conn : d # c => io'[d] = io[d]
    BY <1>1, <2>1, <2>3
  <2>6. /\ ThreadTypes' /\ thr'[Owner].pc = "close_remove" /\ thr'[Owner].c = c
        /\ \A u \in Worker : thr'[u] = thr[u]
    BY <1>8, <2>1
  <2>7. Types'
    BY <1>1, <1>6, <2>4, <2>5, <2>6 DEF Types
  <2>8. SameObjects /\ SameBufs /\ SameInput /\ SameWatch
    BY <1>5, <1>6, <2>2, <2>3, <2>4, <2>5 DEF SameObjects, SameBufs, SameInput, SameWatch
  <2>9. \A d \in Conn : conn'[d].refno = conn[d].refno /\ conn'[d].waiters = conn[d].waiters
                        /\ conn'[d].st = conn[d].st /\ conn'[d].fd = conn[d].fd
    BY <2>2, <2>4
  <2>10. RefInv'
    BY <1>9, <2>2, <2>4, <2>6, <2>7, <2>8, <2>9
  <2>11. ASSUME NEW P, P \cap {"close_remove", "closing"} = {}
         PROVE  NoneEnters(P) /\ NoneLeaves(P)
    BY <1>6, <2>6, <2>11 DEF NoneEnters, NoneLeaves, Thread
  <2>12. NoneEnters(Removing \cup RemovedPc) /\ NoneEnters(RemovedPc) /\ NoneEnters(Removing)
         /\ NoneEnters(WaitPc) /\ NoneLeaves(WaitPc)
    BY <2>11 DEF RemovedPc, Removing, WaitPc
  <2>13. WaitersInv'
    BY <2>8, <2>9, <2>12, WaitersInvKept DEF IInv
  <2>14. ByteInv'
    BY <2>8, ByteInvKept DEF IInv
  <2>15. RemoverWillBeWoken'
    BY <1>6, <2>12, WokenKept DEF IInv
  <2>16. LoopInv'
    <3>1. StillRegistered
      <4> SUFFICES ASSUME NEW fd \in Fd, NEW d \in Conn, pm.callbacks[fd] = d
                   PROVE  /\ pm'.callbacks[fd] = d /\ conn'[d].st = conn[d].st
                          /\ conn'[d].fd = conn[d].fd /\ (Input(d) => Input(d)')
        BY DEF StillRegistered
      <4> QED BY <1>6, <2>3, <2>5, <2>9 DEF Input
    <3>2. \A d \in Open : conn[d].fd \in Fd
      BY DEF IInv, RefInv
    <3>3. \A t \in Thread : thr[t].pc \in RemovedPc => conn'[thr[t].c].fd = conn[thr[t].c].fd
      BY <1>1, <2>9, HasConn, Places
    <3> QED BY <1>1, <1>6, <2>12, <3>1, <3>2, <3>3, LoopInvKept DEF IInv
  \* Nobody else has declared it dead.
  <2>17. \A u \in Worker : thr[u].pc \in KillPc => thr[u].c \in Conn /\ thr[u].c # c
    BY <1>1, <1>11, HasConn, Places DEF IInv, KillInv
  <2>18. KillInv'
    <3>1. \A t \in Thread : thr'[t].pc \in KillPc => conn'[thr'[t].c].dead
      BY <1>1, <2>2, <2>4, <2>6, <2>17 DEF IInv, KillInv, Thread
    <3>2. \A t, u \in Thread : thr'[t].pc \in KillPc /\ thr'[u].pc \in KillPc /\ thr'[t].c = thr'[u].c => t = u
      BY <1>1, <2>6, <2>17 DEF IInv, KillInv, Thread
    <3> QED BY <3>1, <3>2 DEF KillInv
  <2>19. WatchInv'
    <3>1. \A fd \in Fd : pm'.callbacks[fd] # NULL =>
            conn'[pm'.callbacks[fd]].st = "open" /\ conn'[pm'.callbacks[fd]].fd = fd
      BY <1>1, <1>6, <2>9 DEF IInv, WatchInv, Types, Manager
    <3>2. \A fd \in pm'.rfds \cup pm'.wfds : pm'.callbacks[fd] # NULL
      BY <1>6 DEF IInv, WatchInv
    <3>3. \A d \in Open' : ~conn'[d].dead => pm'.callbacks[conn'[d].fd] = d /\ conn'[d].fd \in pm'.rfds
      BY <1>6, <2>2, <2>4 DEF IInv, WatchInv, Open
    <3>4. \A t \in Thread : thr'[t].pc \in Removing \cup RemovedPc =>
            conn'[thr'[t].c].fd \notin pm'.rfds \cup pm'.wfds
      <4> TAKE t \in Thread
      <4> HAVE thr'[t].pc \in Removing \cup RemovedPc
      <4>1. thr[t].pc \in Removing \cup RemovedPc /\ thr'[t].c = thr[t].c
        BY <2>12 DEF NoneEnters
      <4>2. thr[t].c \in Conn
        BY <1>1, <4>1, HasConn, Places
      <4> QED BY <1>6, <2>9, <4>1, <4>2 DEF IInv, WatchInv
    <3>5. \A d \in Open' : conn'[d].dead
              /\ (\A t \in Thread : thr'[t].pc \in RemoverPc => thr'[t].c # d) =>
            pm'.callbacks[conn'[d].fd] = NULL
      <4> TAKE d \in Open'
      <4> HAVE conn'[d].dead /\ (\A t \in Thread : thr'[t].pc \in RemoverPc => thr'[t].c # d)
      <4>1. d # c
        BY <1>1, <2>6 DEF RemoverPc, RemovePc
      <4>2. d \in Conn /\ d \in Open /\ conn'[d] = conn[d]
        BY <2>4, <4>1 DEF Open
      <4>3. \A t \in Thread : thr[t].pc \in RemoverPc => thr[t].c # d
        BY <1>6, <2>6 DEF Thread, RemoverPc, RemovePc, Removing, RemovedPc
      <4> QED BY <1>6, <4>2, <4>3 DEF IInv, WatchInv
    <3> QED BY <3>1, <3>2, <3>3, <3>4, <3>5 DEF WatchInv
  <2>20. BufInv'
    <3>1. \A d \in Conn : conn'[d].buf = conn[d].buf /\ conn'[d].wpdu = conn[d].wpdu
      BY <2>8 DEF SameBufs
    <3>2. \A t \in Worker : thr[t].pc \in SendPc => thr[t].c \in Conn
      BY <1>1 DEF Types, ThreadTypes, SendPc, OwnPc
    <3>3. OwnPc \subseteq SendPc /\ {"send_wait", "send_complete", "send_signalled"} \subseteq SendPc
      BY DEF SendPc, OwnPc
    <3>4. \A t \in Worker : thr'[t].pc \in OwnPc => conn'[thr'[t].c].buf
      BY <2>6, <3>1, <3>2, <3>3 DEF IInv, BufInv
    <3>5. \A t, u \in Worker : thr'[t].pc \in OwnPc /\ thr'[u].pc \in OwnPc /\ thr'[t].c = thr'[u].c => t = u
      BY <2>6 DEF IInv, BufInv
    <3>6. \A d \in Open' : conn'[d].buf => \E t \in Worker : thr'[t].c = d /\ thr'[t].pc \in OwnPc
      BY <2>6, <2>9, <3>1 DEF IInv, BufInv, Open
    <3>7. \A t \in Worker : thr'[t].pc = "send_wait" => conn'[thr'[t].c].buf
      BY <2>6, <3>1, <3>2, <3>3 DEF IInv, BufInv
    <3>8. \A d \in Open' : ~conn'[d].dead => conn'[d].wpdu.solong \in 0 .. conn'[d].wpdu.sz
      BY <2>2, <2>4 DEF IInv, BufInv, Open
    <3>9. \A t \in Worker : thr'[t].pc = "send_complete" =>
            \/ /\ ~conn'[thr'[t].c].dead /\ conn'[thr'[t].c].wpdu.solong < conn'[thr'[t].c].wpdu.sz
               /\ conn'[thr'[t].c].fd \in pm'.wfds
            \/ conn'[thr'[t].c].dead /\ thr'[Owner].pc # "accept"
      <4> TAKE t \in Worker
      <4> HAVE thr'[t].pc = "send_complete"
      <4>1. thr[t].pc = "send_complete" /\ thr'[t].c = thr[t].c /\ thr[t].c \in Conn
        BY <2>6, <3>2, <3>3
      <4>2. CASE thr[t].c = c
        BY <2>2, <2>4, <2>6, <4>1, <4>2
      <4>3. CASE thr[t].c # c
        BY <1>6, <2>4, <2>6, <4>1, <4>3 DEF IInv, BufInv
      <4> QED BY <4>2, <4>3
    <3>10. \A t \in Worker : thr'[t].pc = "send_signalled" =>
             conn'[thr'[t].c].dead \/ conn'[thr'[t].c].wpdu.solong = conn'[thr'[t].c].wpdu.sz
      <4> TAKE t \in Worker
      <4> HAVE thr'[t].pc = "send_signalled"
      <4>1. thr[t].pc = "send_signalled" /\ thr'[t].c = thr[t].c /\ thr[t].c \in Conn
        BY <2>6, <3>2, <3>3
      <4> QED BY <2>2, <2>4, <4>1 DEF IInv, BufInv
    <3> QED BY <3>4, <3>5, <3>6, <3>7, <3>8, <3>9, <3>10 DEF BufInv
  <2> QED BY <2>7, <2>10, <2>13, <2>14, <2>15, <2>16, <2>18, <2>19, <2>20 DEF IInv
<1> QED BY <1>10, <1>11

-----------------------------------------------------------------------------
(* A new connection *)

\* There is a free descriptor for a connection that has not been made.
LEMMA FdIsFree ==
  ASSUME IInv, NEW c \in Conn, conn[c].st = "none"
  PROVE  FreeFds # {}
<1> SUFFICES ASSUME FreeFds = {}
             PROVE  FALSE
  OBVIOUS
<1>1. \A fd \in Fd : \E d \in Open : conn[d].fd = fd
  BY DEF FreeFds, OnFd
<1> DEFINE g == [fd \in Fd |-> CHOOSE d \in Open : conn[d].fd = fd]
<1>2. \A fd \in Fd : g[fd] \in Open /\ conn[g[fd]].fd = fd
  BY <1>1
<1> HIDE DEF g
<1>3. Open \in SUBSET Conn /\ c \notin Open
  BY DEF Open
<1>4. IsFiniteSet(Open) /\ Cardinality(Open) <= Cardinality(Conn) /\ Cardinality(Open) # Cardinality(Conn)
  BY <1>3, FS_Subset
<1>5. Cardinality(Open) < Cardinality(Fd) /\ IsFiniteSet(Fd)
  <2>1. Cardinality(Open) \in Nat /\ Cardinality(Conn) \in Nat
    BY <1>4, FS_CardinalityType
  <2> QED BY <1>4, <2>1, FdType
<1>6. g \in [Fd -> Open]
  BY <1>2 DEF g
<1>7. \E x, y \in Fd : x # y /\ g[x] = g[y]
  BY <1>4, <1>5, <1>6, FS_PigeonHole
<1> QED BY <1>2, <1>7

\* add_callback for reading, on a new connection.
LEMMA AddCallbackEffect ==
  ASSUME Types, NEW fd \in Fd, NEW c \in Conn, pm' = add_callback(pm, fd, c, TRUE, FALSE)
  PROVE  /\ pm' \in Manager /\ pm'.rfds = pm.rfds \cup {fd} /\ pm'.wfds = pm.wfds
         /\ pm'.pending_change = pm.pending_change /\ pm'.pipe = pm.pipe + 1
         /\ pm'.callbacks[fd] = c /\ \A f \in Fd : f # fd => pm'.callbacks[f] = pm.callbacks[f]
<1>1. pm \in Manager
  BY DEF Types
<1> DEFINE q == watch_fd(pm, fd, TRUE, FALSE)
<1>2. pm.pipe + 1 \in Nat /\ pm.rfds \cup {fd} \in SUBSET Fd
  BY <1>1 DEF Manager
<1>3. q = [pm EXCEPT !.rfds = pm.rfds \cup {fd}, !.wfds = pm.wfds, !.pipe = pm.pipe + 1]
  BY <1>1 DEF watch_fd, Manager
<1>4. /\ q \in Manager /\ q.rfds = pm.rfds \cup {fd} /\ q.wfds = pm.wfds
      /\ q.pending_change = pm.pending_change /\ q.pipe = pm.pipe + 1 /\ q.callbacks = pm.callbacks
  BY <1>1, <1>2, <1>3 DEF Manager
<1>5. pm' = [q EXCEPT !.callbacks[fd] = c]
  BY DEF add_callback
<1> HIDE DEF q
<1>6. [q.callbacks EXCEPT ![fd] = c] \in [Fd -> Conn \cup {NULL}]
  BY <1>4 DEF Manager
<1>7. pm' \in Manager /\ pm'.callbacks = [q.callbacks EXCEPT ![fd] = c] /\ pm'.rfds = q.rfds
      /\ pm'.wfds = q.wfds /\ pm'.pending_change = q.pending_change /\ pm'.pipe = q.pipe
  BY <1>4, <1>5, <1>6 DEF Manager
<1>8. pm'.callbacks[fd] = c /\ \A f \in Fd : f # fd => pm'.callbacks[f] = pm.callbacks[f]
  BY <1>1, <1>4, <1>7 DEF Manager
<1> QED BY <1>4, <1>7, <1>8

\* accept: a new object on a free descriptor, with the reference of conns_.
LEMMA AcceptStep ==
  ASSUME IInv, NEW c \in Conn, Accept(c)
  PROVE  IInv'
<1>1. /\ Types /\ RefInv /\ jobs \in Seq(Conn) /\ conn \in [Conn -> Object]
      /\ conns \in [Fd -> Conn \cup {NULL}] /\ pm \in Manager
      /\ pm.callbacks \in [Fd -> Conn \cup {NULL}]
  BY DEF IInv, Types, Manager
<1>2. thr[Owner].pc = "accept" /\ conn[c].st = "none" /\ thr[Owner].c = NULL
  BY <1>1 DEF Accept, Types, ThreadTypes, ClosePc
<1>3. PICK fd \in FreeFds : fd = Min(FreeFds)
  <2>1. FreeFds # {} /\ FreeFds \in SUBSET Nat
    BY <1>2, FdIsFree, FdType DEF FreeFds
  <2> QED BY <2>1, MinIn
<1>4. fd \in Fd /\ \A e \in Conn : conn[e].st = "open" => conn[e].fd # fd
  BY DEF FreeFds, OnFd, Open
<1>5. PICK gone \in SUBSET Garbage :
        /\ conn' = [d \in Conn |-> IF d = c THEN NewConn(fd)
                                   ELSE IF d \in gone THEN Dropped(conn[d]) ELSE conn[d]]
        /\ io' = Sockets(conn')
        /\ conns' = [f \in Fd |-> IF f = fd THEN c
                                  ELSE IF conns[f] \in gone THEN NULL ELSE conns[f]]
  BY <1>3 DEF Accept
<1>6. pm' = add_callback(pm, fd, c, TRUE, FALSE) /\ UNCHANGED <<loop, thr, jobs, aborted>>
  BY <1>3 DEF Accept
<1>7. /\ pm' \in Manager /\ pm'.rfds = pm.rfds \cup {fd} /\ pm'.wfds = pm.wfds
      /\ pm'.pending_change = pm.pending_change /\ pm'.pipe = pm.pipe + 1
      /\ pm'.callbacks[fd] = c /\ \A f \in Fd : f # fd => pm'.callbacks[f] = pm.callbacks[f]
  BY <1>1, <1>4, <1>6, AddCallbackEffect
\* What the garbage collection finds: dead, and held by the table alone.
<1>8. ASSUME NEW d \in gone
      PROVE  /\ d \in Conn /\ conn[d].st = "open" /\ conn[d].dead /\ conn[d].refno = 1
             /\ \A t \in Thread : thr[t].c # d
             /\ \A i \in DOMAIN jobs : jobs[i] # d
             /\ Dropped(conn[d]) = NoConn("deleted")
  <2>1. PICK f \in Fd : conns[f] = d
    BY DEF Garbage, Table
  <2>2. d \in Conn /\ conn[d].dead /\ conn[d].refno = 1
    BY DEF Garbage, Table
  <2>3. conn[d].st = "open"
    BY <1>1, <2>1, <2>2, HeldIsOpen
  <2>4. /\ \A u \in Worker : thr[u].c # d
        /\ \A i \in DOMAIN jobs : jobs[i] # d
    BY <1>1, <2>1, <2>2, <2>3, LoneHolder
  <2>5. thr[Owner].c # d
    BY <1>2, <2>2
  <2>6. Dropped(conn[d]) = NoConn("deleted")
    BY <2>2 DEF Dropped
  <2> QED BY <2>2, <2>3, <2>4, <2>5, <2>6 DEF Thread
<1>9. c \notin gone
  BY <1>2, <1>8
<1>10. /\ conn'[c] = NewConn(fd) /\ \A d \in gone : conn'[d] = NoConn("deleted")
       /\ \A d \in Conn : d # c /\ d \notin gone => conn'[d] = conn[d]
  BY <1>5, <1>8, <1>9
<1>11. conn' \in [Conn -> Object]
  <2>1. \A d \in Conn : conn'[d] \in Object
    BY <1>1, <1>4, <1>10, NoConnType
  <2> QED BY <1>5, <2>1
<1>12. io' \in [Conn -> Socket] /\ \A d \in Conn : conn'[d].st # "deleted" => io'[d] = io[d]
  BY <1>1, <1>5, SocketsEffect
<1>13. /\ conns' \in [Fd -> Conn \cup {NULL}] /\ conns'[fd] = c
       /\ \A f \in Fd : f # fd => conns'[f] = IF conns[f] \in gone THEN NULL ELSE conns[f]
  BY <1>1, <1>4, <1>5
<1>14. Types'
  BY <1>1, <1>6, <1>7, <1>11, <1>12, <1>13 DEF Types, ThreadTypes
<1>15. Born(c)
  <2>1. /\ conn'[c].st = "open" /\ conn'[c].fd = fd /\ ~conn'[c].dead /\ conn'[c].waiters = 0
        /\ ~conn'[c].buf /\ conn'[c].wpdu = NoPdu /\ conn'[c].rpdu = NoPdu
    BY <1>4, <1>10, NoConnType
  <2> QED BY <1>2, <1>4, <1>12, <2>1 DEF Born
<1>16. conn'[c].fd = fd /\ conn'[c].refno = 1
  BY <1>4, <1>10, NoConnType
<1>17. \A d \in gone : Reaped(d)
  BY <1>8, <1>10 DEF Reaped
<1>18. \A d \in Conn : d # c /\ d \notin gone => Survives(d)
  BY <1>10, <1>12 DEF Survives
<1>19. \A d \in Conn : Born(d) => d = c
  BY <1>17, <1>18 DEF Born, Survives, Reaped
<1>20. pm.callbacks[fd] = NULL /\ conns[fd] = NULL
  <2>1. pm.callbacks[fd] # NULL =>
          /\ pm.callbacks[fd] \in Conn /\ conn[pm.callbacks[fd]].st = "open"
          /\ conn[pm.callbacks[fd]].fd = fd
    BY <1>1, <1>4 DEF IInv, WatchInv
  <2>2. conns[fd] # NULL => /\ conns[fd] \in Conn /\ conn[conns[fd]].st = "open"
                            /\ conn[conns[fd]].fd = fd
    BY <1>1, <1>4, HeldIsOpen
  <2> QED BY <1>4, <2>1, <2>2
<1>21. Turnover
  <2>1. \A d \in Conn : Survives(d) \/ Reaped(d) \/ Born(d)
    BY <1>15, <1>17, <1>18
  <2>2. \A f \in Fd : /\ pm.callbacks[f] # NULL => pm'.callbacks[f] = pm.callbacks[f]
                      /\ pm'.callbacks[f] # pm.callbacks[f] =>
                           Born(pm'.callbacks[f]) /\ conn'[pm'.callbacks[f]].fd = f
                      /\ f \in pm'.rfds \ pm.rfds => pm'.callbacks[f] # pm.callbacks[f]
    <3> TAKE f \in Fd
    <3>1. CASE f = fd
      BY <1>7, <1>15, <1>16, <1>20, <3>1
    <3>2. CASE f # fd
      BY <1>7, <3>2
    <3> QED BY <3>1, <3>2
  <2>3. \A d \in Conn : Born(d) => pm'.callbacks[conn'[d].fd] = d /\ conn'[d].fd \in pm'.rfds
    BY <1>7, <1>16, <1>19
  <2>4. pm.pipe > 0 => pm'.pipe > 0
    BY <1>1, <1>7 DEF Manager
  <2> QED BY <1>6, <1>7, <2>1, <2>2, <2>3, <2>4 DEF Turnover
<1>22. ASSUME NEW d \in Conn
       PROVE  IF conn'[d].st = "open" THEN conn'[d].refno = Holders(d)' ELSE Holders(d)' = 0
  <2>1. ThrAt(thr', d) = ThrAt(thr, d) /\ JobsAt(jobs', d) = JobsAt(jobs, d)
    BY <1>6
  <2>2. Holders(d)' = Cardinality(FdsAt(conns', d)) + Cardinality(JobsAt(jobs', d))
                        + Cardinality(ThrAt(thr', d))
    BY HoldersSum
  <2>3. Holders(d)' = Cardinality(FdsAt(conns', d)) + Cardinality(JobsAt(jobs, d))
                        + Cardinality(ThrAt(thr, d))
    BY <2>1, <2>2
  <2>4. Holders(d) = Cardinality(FdsAt(conns, d)) + Cardinality(JobsAt(jobs, d))
                       + Cardinality(ThrAt(thr, d))
    BY HoldersSum
  <2>5. \A x : x = {} => Cardinality(x) = 0
    BY FS_EmptySet
  <2>6. CASE d = c
    <3>1. /\ \A t \in Worker : thr[t].c # c
          /\ \A i \in DOMAIN jobs : jobs[i] # c
          /\ \A f \in Fd : conns[f] # c
      BY <1>1, <1>2, HeldIsOpen DEF Thread
    <3>2. ThrAt(thr, c) = {} /\ JobsAt(jobs, c) = {}
      BY <3>1 DEF ThrAt, JobsAt
    <3>3. FdsAt(conns', c) = {fd}
      BY <1>4, <1>13, <3>1 DEF FdsAt
    <3>4. Cardinality(FdsAt(conns', c)) = 1
      BY <3>3, FS_Singleton
    <3>5. Holders(d)' = 1
      BY <2>3, <2>5, <2>6, <3>2, <3>4
    <3> QED BY <1>15, <1>16, <2>6, <3>5 DEF Born
  <2>7. CASE d \in gone
    <3>1. ThrAt(thr, d) = {} /\ JobsAt(jobs, d) = {}
      BY <1>8, <2>7 DEF ThrAt, JobsAt, Thread
    <3>2. FdsAt(conns', d) = {}
      BY <1>4, <1>9, <1>13, <2>7 DEF FdsAt
    <3>3. Holders(d)' = 0
      BY <2>3, <2>5, <3>1, <3>2
    <3> QED BY <1>10, <2>7, <3>3 DEF NoConn
  <2>8. CASE d # c /\ d \notin gone
    <3>1. FdsAt(conns', d) = FdsAt(conns, d)
      <4>1. \A f \in Fd : conns'[f] = d <=> conns[f] = d
        BY <1>4, <1>13, <1>20, <2>8
      <4> QED BY <4>1 DEF FdsAt
    <3>2. Holders(d)' = Holders(d)
      BY <2>3, <2>4, <3>1
    <3> QED BY <1>1, <1>10, <2>8, <3>2 DEF RefInv
  <2> QED BY <2>6, <2>7, <2>8
<1>23. RefInv'
  <2>1. ASSUME NEW d \in Open'
        PROVE  \/ d = c
               \/ d \in Open /\ d \in Conn /\ conn'[d] = conn[d]
    BY <1>10 DEF Open, NoConn
  <2>2. \A d \in Open' : conn'[d].fd \in Fd
    BY <1>1, <1>4, <1>16, <2>1 DEF RefInv
  <2>3. \A d, e \in Open' : conn'[d].fd = conn'[e].fd => d = e
    BY <1>1, <1>4, <1>16, <2>1 DEF RefInv, Open
  <2>4. \A f \in Fd : conns'[f] # NULL => conn'[conns'[f]].fd = f
    <3> TAKE f \in Fd
    <3> HAVE conns'[f] # NULL
    <3>1. CASE f = fd
      BY <1>13, <1>16, <3>1
    <3>2. CASE f # fd
      <4>1. conns'[f] = conns[f] /\ conns[f] \notin gone
        BY <1>13, <3>2
      <4>2. conns[f] \in Conn /\ conn[conns[f]].st = "open" /\ conn[conns[f]].fd = f
        BY <1>1, <4>1, HeldIsOpen
      <4>3. conn'[conns[f]] = conn[conns[f]]
        BY <1>2, <1>10, <4>1, <4>2
      <4> QED BY <4>1, <4>2, <4>3
    <3> QED BY <3>1, <3>2
  <2>5. thr'[Owner].c = NULL
    BY <1>2, <1>6
  <2> QED BY <1>22, <2>2, <2>3, <2>4, <2>5 DEF RefInv
<1> QED BY <1>14, <1>21, <1>23, TurnoverStep DEF IInv

-----------------------------------------------------------------------------
(* The invariant *)

\* The invariant holds before the first connection.
LEMMA InitInv == Init => IInv
<1> SUFFICES ASSUME Init PROVE IInv
  OBVIOUS
<1>1. /\ conn = [c \in Conn |-> NoConn("none")] /\ io = [c \in Conn |-> NewSock]
      /\ conns = [f \in Fd |-> NULL] /\ jobs = <<>>
      /\ pm = [rfds |-> {}, wfds |-> {}, callbacks |-> [f \in Fd |-> NULL],
               pending_change |-> FALSE, pipe |-> 0]
      /\ loop = [pc |-> "top", r |-> {}, w |-> {}, cur |-> NULL, cut |-> FALSE]
      /\ thr = [t \in Thread |-> [pc |-> IF t = Owner THEN "accept" ELSE "idle", c |-> NULL]]
  BY DEF Init
<1>2. \A c \in Conn : conn[c].st = "none" /\ io[c] = NewSock
  BY <1>1 DEF NoConn
<1>3. Open = {}
  BY <1>2 DEF Open
<1>4. /\ \A t \in Worker : thr[t].pc = "idle" /\ thr[t].c = NULL
      /\ thr[Owner].pc = "accept" /\ thr[Owner].c = NULL
      /\ \A t \in Thread : thr[t].pc \in {"idle", "accept"}
  BY <1>1 DEF Thread
<1>5. jobs \in Seq(Conn) /\ DOMAIN jobs = {}
  BY <1>1
<1>6. Types
  <2>1. conn \in [Conn -> Object]
    BY <1>1, NoConnType
  <2>2. NewSock \in Socket
    BY DEF NewSock, Socket
  <2>3. io \in [Conn -> Socket]
    BY <1>1, <2>2
  <2>4. pm \in Manager
    BY <1>1 DEF Manager
  <2>5. loop \in Loop
    BY <1>1 DEF Loop
  <2>6. thr \in [Thread -> [pc : AllPc, c : Conn \cup {NULL}]]
    BY <1>1 DEF AllPc
  <2>7. ThreadTypes
    BY <1>4, <2>6 DEF ThreadTypes, AllPc
  <2>8. conns \in [Fd -> Conn \cup {NULL}]
    BY <1>1
  <2> QED BY <1>5, <2>1, <2>3, <2>4, <2>5, <2>7, <2>8 DEF Types
<1>7. RefInv
  <2>1. ASSUME NEW c \in Conn PROVE Holders(c) = 0
    <3>1. FdsAt(conns, c) = {} /\ JobsAt(jobs, c) = {} /\ ThrAt(thr, c) = {}
      BY <1>1, <1>4, <1>5 DEF FdsAt, JobsAt, ThrAt
    <3>2. \A x : x = {} => Cardinality(x) = 0
      BY FS_EmptySet
    <3>3. Holders(c) = Cardinality(FdsAt(conns, c)) + Cardinality(JobsAt(jobs, c))
                       + Cardinality(ThrAt(thr, c))
      BY HoldersSum
    <3> QED BY <3>1, <3>2, <3>3
  <2> QED BY <1>1, <1>2, <1>3, <1>4, <2>1 DEF RefInv
<1>8. KillInv
  BY <1>4 DEF KillInv, KillPc, RemoverPc, RemovePc, Removing, RemovedPc
<1>9. WatchInv
  BY <1>1, <1>3, <1>4 DEF WatchInv, RemoverPc, RemovePc, Removing, RemovedPc
<1>10. LoopInv
  BY <1>1 DEF LoopInv, LoopCurrent, CbPc
<1>11. BufInv
  BY <1>3, <1>4 DEF BufInv, OwnPc
<1>12. WaitersInv
  BY <1>3 DEF WaitersInv
<1>13. ByteInv
  BY <1>2, <1>3 DEF ByteInv, NoByteLost
<1>14. RemoverWillBeWoken
  BY <1>4 DEF RemoverWillBeWoken, Removing
<1> QED BY <1>6, <1>7, <1>8, <1>9, <1>10, <1>11, <1>12, <1>13, <1>14 DEF IInv

\* Every action keeps the invariant.
LEMMA NextInv == IInv /\ [Next]_vars => IInv'
<1> SUFFICES ASSUME IInv, [Next]_vars PROVE IInv'
  OBVIOUS
<1>1. CASE Poll
  <2>1. WriteCbDead \/ SelectClosed \/ CallbackGone \/ ReadCbNothing => IInv'
    BY StillStep DEF WriteCbDead, SelectClosed, CallbackGone, ReadCbNothing, Abort
  <2> QED BY <1>1, <2>1, LoopTopStep, CopyFdsStep, SelectStep, NextReadStep, NextWriteStep,
             ReadCbStep, WriteCbStep DEF Poll
<1>2. ASSUME NEW t \in Worker, WorkerStep(t) PROVE IInv'
  BY <1>2, TakeJobStep, SendStep, EndJobStep DEF WorkerStep
<1>3. CASE OwnerStep
  <2>1. AcceptCrash => IInv'
    BY StillStep DEF AcceptCrash, Abort
  <2>2. StopAccepting => IInv'
    BY OwnerMoves DEF StopAccepting
  <2>3. JoinPool => IInv'
    BY OwnerMoves DEF JoinPool
  <2> QED BY <1>3, <2>1, <2>2, <2>3, AcceptStep, CloseStep, CloseRemoveStep, EndCloseStep
          DEF OwnerStep, Closing
<1>4. CASE Peer
  BY <1>4, PeerStep
<1>5. ASSUME NEW t \in Thread, SpuriousRemoved(t) PROVE IInv'
  BY <1>5, SpuriousRemovedStep
<1>6. CASE UNCHANGED vars
  <2>1. UNCHANGED <<conn, io, pm, loop, thr, conns, jobs>>
    BY <1>6 DEF vars
  <2> QED BY <2>1, StillStep
<1> QED BY <1>1, <1>2, <1>3, <1>4, <1>5, <1>6 DEF Next

\* The invariant holds in every reachable state.
LEMMA Invariant == Spec => []IInv
BY InitInv, NextInv, PTL DEF Spec

-----------------------------------------------------------------------------
(* The properties *)

\* The reference count of an open connection is the number of places that hold it:
\* every incref of connection.cc is matched by the decref of the same holder.
THEOREM RefsCountedHolds == Spec => []RefsCounted
<1>1. IInv => RefsCounted
  BY DEF IInv, RefInv, RefsCounted, Holders, Open
<1> QED BY <1>1, Invariant, PTL

\* No thread, queue, table or callback entry refers to a deleted connection.  The poll
\* thread, which holds no reference, runs no callback of one in a round in which no
\* spurious wakeup has ended a block_remove_fd (PollMgr::block_remove_fd, del_callback).
THEOREM NoUseAfterDeleteHolds == Spec => []NoUseAfterDelete
<1>1. ASSUME IInv PROVE NoUseAfterDelete
  <2>1. Types /\ RefInv
    BY <1>1 DEF IInv
  <2>2. \A t \in Thread : thr[t].c \in Open \cup {NULL}
    BY <2>1, HeldIsOpen DEF Open
  <2>3. \A fd \in Fd : pm.callbacks[fd] # NULL => pm.callbacks[fd] \in OnFd(fd)
    BY <1>1, <2>1 DEF IInv, WatchInv, Types, Manager, OnFd, Open
  <2>4. Table \subseteq Open
    <3> SUFFICES ASSUME NEW c \in Table PROVE c \in Open
      OBVIOUS
    <3>1. PICK fd \in Fd : conns[fd] = c
      BY DEF Table
    <3>2. c \in Conn /\ c # NULL
      BY DEF Table
    <3> QED BY <2>1, <3>1, <3>2, HeldIsOpen DEF Open
  <2>5. \A i \in DOMAIN jobs : jobs[i] \in Open
    BY <2>1, HeldIsOpen DEF Open
  <2>6. ~loop.cut /\ loop.pc \in CbPc => loop.cur \in Open
    BY <1>1, <2>1 DEF IInv, LoopInv, LoopCurrent, Types, Loop, Open
  <2> QED BY <2>2, <2>3, <2>4, <2>5, <2>6 DEF NoUseAfterDelete, CbPc
<1> QED BY <1>1, Invariant, PTL

\* wpdu_ has exactly one owner while it is in use: connection::send never mixes the
\* bytes of two PDUs.
THEOREM OneSenderOwnsBufHolds == Spec => []OneSenderOwnsBuf
<1>1. ASSUME IInv PROVE OneSenderOwnsBuf
  <2> SUFFICES ASSUME NEW c \in Open
               PROVE  Count(LAMBDA t : InSend(t, c), Worker) = IF conn[c].buf THEN 1 ELSE 0
    BY DEF OneSenderOwnsBuf
  <2> DEFINE S == {t \in Worker : InSend(t, c)}
  <2>1. Count(LAMBDA t : InSend(t, c), Worker) = Cardinality(S)
    BY DEF Count
  <2>2. \A t \in Worker : t \in S <=> thr[t].c = c /\ thr[t].pc \in OwnPc
    BY DEF InSend, OwnPc
  <2>3. S \subseteq Worker
    OBVIOUS
  <2> HIDE DEF S
  <2>4. CASE conn[c].buf
    <3>1. PICK t \in Worker : thr[t].c = c /\ thr[t].pc \in OwnPc
      BY <1>1, <2>4 DEF IInv, BufInv
    <3>2. \A u \in Worker : thr[u].c = c /\ thr[u].pc \in OwnPc => u = t
      BY <1>1, <3>1 DEF IInv, BufInv
    <3>3. S = {t}
      BY <2>2, <2>3, <3>1, <3>2
    <3>4. Cardinality(S) = 1
      BY <3>3, FS_Singleton
    <3> QED BY <2>1, <2>4, <3>4
  <2>5. CASE ~conn[c].buf
    <3>1. \A u \in Worker : ~(thr[u].c = c /\ thr[u].pc \in OwnPc)
      BY <1>1, <2>5 DEF IInv, BufInv
    <3>2. S = {}
      BY <2>2, <2>3, <3>1
    <3>3. Cardinality(S) = 0
      BY <3>2, FS_EmptySet
    <3> QED BY <2>1, <2>5, <3>3
  <2> QED BY <2>4, <2>5
<1> QED BY <1>1, Invariant, PTL

\* The assertions of connection.cc and pollmgr.cc hold where they are evaluated: those
\* of add_callback, of the destructor and of writepdu always; those of select and of the
\* callbacks in a round in which no spurious wakeup has ended a block_remove_fd, but for
\* write_cb's assert(!dead_) while block_remove_fd has not returned.
THEOREM AssertionsHoldHolds == Spec => []AssertionsHold
<1>1. ASSUME IInv PROVE AssertionsHold
  <2>1. /\ Types /\ RefInv /\ pm.callbacks \in [Fd -> Conn \cup {NULL}]
        /\ loop.r \in SUBSET Fd /\ loop.w \in SUBSET Fd /\ loop.cur \in Conn \cup {NULL}
    BY <1>1 DEF IInv, Types, Manager, Loop
  <2>2. \A fd \in Fd : pm.callbacks[fd] # NULL => pm.callbacks[fd] \in OnFd(fd)
    BY <1>1, <2>1 DEF IInv, WatchInv, OnFd, Open
  <2>3. ~loop.cut /\ loop.pc = "select" => \A fd \in loop.r \cup loop.w : OnFd(fd) # {}
    BY <1>1, <2>1, <2>2 DEF IInv, LoopInv, LoopCurrent
  <2>4. ~loop.cut /\ loop.pc = "read_cb" =>
          LET c == loop.cur IN conn[c].dead \/ conn[c].rpdu.sz > 0 \/ Input(c)
    BY <1>1 DEF IInv, LoopInv, LoopCurrent
  <2>5. \A fd \in FreeFds : pm.callbacks[fd] = NULL
    BY <2>2 DEF FreeFds
  <2>6. \A t \in Worker : AtSend(t) /\ ~conn[thr[t].c].dead =>
          pm.callbacks[conn[thr[t].c].fd] \in {NULL, thr[t].c}
    <3> TAKE t \in Worker
    <3> HAVE AtSend(t) /\ ~conn[thr[t].c].dead
    <3>1. thr[t].c \in Conn /\ thr[t].c # NULL /\ t \in Thread
      BY <2>1 DEF AtSend, Types, ThreadTypes, Thread
    <3>2. thr[t].c \in Open
      BY <2>1, <3>1, HeldIsOpen DEF Open
    <3> QED BY <1>1, <3>2 DEF IInv, WatchInv
  <2>7. \A t \in Thread : thr[t].pc \in {"sent", "closed"} =>
          LET s == conn[thr[t].c] IN s.dead /\ s.refno = 1 => ~s.buf
    <3> TAKE t \in Thread
    <3> HAVE thr[t].pc \in {"sent", "closed"}
    <3>1. PICK c \in Conn : c = thr[t].c
      BY <2>1, HasConn DEF SendPc, ClosePc
    <3>2. conn[c].st = "open" /\ c \in Open
      BY <2>1, <3>1, HeldIsOpen DEF Open
    <3>3. ASSUME conn[c].refno = 1, conn[c].buf PROVE FALSE
      <4>1. PICK u \in Worker : thr[u].c = c /\ thr[u].pc \in OwnPc
        BY <1>1, <3>2, <3>3 DEF IInv, BufInv
      <4>2. u # t
        BY <4>1 DEF OwnPc
      <4>3. \A x \in Thread : x # u => thr[x].c # c
        BY <2>1, <3>2, <3>3, <4>1, LoneHolder
      <4> QED BY <3>1, <4>2, <4>3
    <3> QED BY <3>1, <3>3
  <2>8. \A c \in Open : ~conn[c].dead => conn[c].wpdu.solong \in 0 .. conn[c].wpdu.sz
    BY <1>1 DEF IInv, BufInv
  <2>9. ~loop.cut /\ loop.pc = "write_cb" /\ conn[loop.cur].dead =>
          \E t \in Thread : /\ thr[t].c = loop.cur
                            /\ thr[t].pc \in {"send_remove", "send_removing",
                                              "close_remove", "close_removing"}
    <3> HAVE ~loop.cut /\ loop.pc = "write_cb" /\ conn[loop.cur].dead
    <3>1. PICK c \in Conn : c = loop.cur
      BY <1>1, <2>1 DEF IInv, LoopInv, LoopCurrent, CbPc
    <3>2. c \in Open /\ pm.callbacks[conn[c].fd] = c
      BY <1>1, <3>1 DEF IInv, LoopInv, LoopCurrent, CbPc, Open
    <3>3. PICK t \in Thread : thr[t].pc \in RemoverPc /\ thr[t].c = c
      BY <1>1, <3>1, <3>2 DEF IInv, WatchInv
    <3>4. thr[t].pc \notin RemovedPc
      BY <1>1, <3>1, <3>3 DEF IInv, LoopInv, LoopCurrent, CbPc
    <3> QED BY <3>1, <3>3, <3>4 DEF RemoverPc, RemovePc, Removing
  <2> QED BY <2>3, <2>4, <2>5, <2>6, <2>7, <2>8, <2>9 DEF AssertionsHold
<1> QED BY <1>1, Invariant, PTL

\* After the return of block_remove_fd the connection has no entry in the poll manager,
\* so that no later round calls it; and the round under way does not reach it either,
\* unless a spurious wakeup has ended a block_remove_fd in it.
THEOREM NoCallbackAfterRemoveHolds == Spec => []NoCallbackAfterRemove
<1>1. ASSUME IInv PROVE NoCallbackAfterRemove
  <2> SUFFICES ASSUME NEW t \in Thread, thr[t].pc \in {"send_failed", "closed"}, conn[thr[t].c].dead,
                      \A u \in Thread : thr[u].c = thr[t].c =>
                        thr[u].pc \notin {"send_remove", "send_removing", "send_removed"}
               PROVE  LET c == thr[t].c IN
                      /\ pm.callbacks[conn[c].fd] = NULL
                      /\ conn[c].fd \notin pm.rfds \cup pm.wfds
                      /\ ~loop.cut /\ loop.pc \in {"read_cb", "write_cb"} => loop.cur # c
                      /\ ~loop.cut /\ loop.pc = "select" => conn[c].fd \notin loop.r \cup loop.w
    BY DEF NoCallbackAfterRemove, PastRemoval, PollReaches
  <2>1. Types /\ RefInv /\ Owner \in Thread
    BY <1>1 DEF IInv, Thread
  <2>2. PICK c \in Conn : c = thr[t].c
    BY <2>1, HasConn DEF SendPc, ClosePc, OwnPc
  <2>3. c \in Open
    BY <2>1, <2>2, HeldIsOpen DEF Open
  \* The owner is not removing c either.
  <2>4. \A u \in Thread : thr[u].pc \in RemoverPc => thr[u].c # c
    <3> SUFFICES ASSUME NEW u \in Thread, thr[u].pc \in RemoverPc, thr[u].c = c
                 PROVE  FALSE
      OBVIOUS
    <3>1. thr[u].pc \in {"close_remove", "close_removing", "close_removed"}
      BY <2>2 DEF RemoverPc, RemovePc, Removing, RemovedPc
    <3>2. u = Owner
      BY <2>1, <3>1 DEF Types, ThreadTypes, Thread, SendPc, OwnPc
    <3>3. CASE thr[t].pc = "closed"
      <4>1. t = Owner
        BY <2>1, <3>3 DEF Types, ThreadTypes, Thread, SendPc, OwnPc
      <4> QED BY <3>1, <3>2, <3>3, <4>1
    <3>4. CASE thr[t].pc = "send_failed"
      <4>1. thr[t].pc \in KillPc /\ thr[u].pc \in KillPc
        BY <3>4, Places DEF KillPc
      <4>2. t = u
        BY <1>1, <2>2, <4>1 DEF IInv, KillInv
      <4> QED BY <3>1, <3>4, <4>2
    <3> QED BY <3>3, <3>4
  <2>5. pm.callbacks[conn[c].fd] = NULL
    BY <1>1, <2>2, <2>3, <2>4 DEF IInv, WatchInv
  <2>6. conn[c].fd \notin pm.rfds \cup pm.wfds
    BY <1>1, <2>5 DEF IInv, WatchInv
  <2>7. ~loop.cut /\ loop.pc \in {"read_cb", "write_cb"} => loop.cur # c
    BY <1>1, <2>5 DEF IInv, LoopInv, LoopCurrent, CbPc
  <2>8. ~loop.cut /\ loop.pc = "select" => conn[c].fd \notin loop.r \cup loop.w
    BY <1>1, <2>5 DEF IInv, LoopInv, LoopCurrent
  <2> QED BY <2>2, <2>5, <2>6, <2>7, <2>8
<1> QED BY <1>1, Invariant, PTL

\* A connection that is not dead is watched for reading, and a sender that sleeps on
\* send_complete_ is watched for writing until its PDU is out.
THEOREM AliveIsWatchedHolds == Spec => []AliveIsWatched
<1>1. ASSUME IInv PROVE AliveIsWatched
  <2>1. \A c \in Open : ~conn[c].dead => conn[c].fd \in pm.rfds /\ pm.callbacks[conn[c].fd] = c
    BY <1>1 DEF IInv, WatchInv
  <2>2. ASSUME NEW t \in Worker, thr[t].pc = "send_complete"
        PROVE  \/ StillSending(thr[t].c) /\ conn[thr[t].c].fd \in pm.wfds
               \/ conn[thr[t].c].dead /\ thr[Owner].pc # "accept"
    <3>1. Types /\ RefInv /\ t \in Thread
      BY <1>1 DEF IInv, Thread
    <3>2. PICK c \in Conn : c = thr[t].c
      BY <2>2, <3>1 DEF Types, ThreadTypes
    <3>3. c \in Open
      BY <3>1, <3>2, HeldIsOpen DEF Open
    <3>4. CASE /\ ~conn[c].dead /\ conn[c].wpdu.solong < conn[c].wpdu.sz
               /\ conn[c].fd \in pm.wfds
      <4>1. conn[c].wpdu.solong \in 0 .. conn[c].wpdu.sz
        BY <1>1, <3>3, <3>4 DEF IInv, BufInv
      <4>2. conn[c].wpdu.sz \in Nat
        <5>1. conn[c].wpdu \in WPdu
          BY <3>1 DEF Types, Object
        <5>2. conn[c].wpdu.sz \in RepSizes \cup {0}
          BY <5>1 DEF WPdu
        <5>3. \A x \in RepSizes \cup {0} : x \in Nat
          OBVIOUS
        <5> QED BY <5>2, <5>3, Zenon
      <4>3. conn[c].wpdu.solong \in 0 .. conn[c].wpdu.sz - 1
        BY <3>4, <4>1, <4>2
      <4> QED BY <3>2, <3>4, <4>3 DEF StillSending
    <3>5. CASE conn[c].dead /\ thr[Owner].pc # "accept"
      BY <3>2, <3>5
    <3> QED BY <1>1, <2>2, <3>2, <3>4, <3>5 DEF IInv, BufInv
  <2> QED BY <2>1, <2>2 DEF AliveIsWatched
<1> QED BY <1>1, Invariant, PTL

\* Every byte the peer of a live connection has sent is in the socket, in rpdu_ or in
\* a request that was handed over (connection::readpdu, read_cb, rpcs::got_pdu).
THEOREM NoByteLostHolds == Spec => []NoByteLost
<1>1. IInv => NoByteLost
  BY DEF IInv, ByteInv
<1> QED BY <1>1, Invariant, PTL

\* A thread in block_remove_fd has its change pending, and the poll thread does not
\* sleep in select under it.
THEOREM RemoverWillBeWokenHolds == Spec => []RemoverWillBeWoken
<1>1. IInv => RemoverWillBeWoken
  BY DEF IInv
<1> QED BY <1>1, Invariant, PTL

\* waiters_ counts the threads that wait for wpdu_, and they sleep only while it is
\* owned by a sender that will wake them.
THEOREM WaiterWillBeWokenHolds == Spec => []WaiterWillBeWoken
<1>1. ASSUME IInv PROVE WaiterWillBeWoken
  <2>1. \A c \in Open : conn[c].waiters
          = Count(LAMBDA t : thr[t].c = c /\ thr[t].pc \in {"send_wait", "send_woken"}, Worker)
    BY <1>1 DEF IInv, WaitersInv
  <2>2. \A c \in Open : Waiting(c) # {} => conn[c].buf
    BY <1>1 DEF IInv, BufInv, Waiting
  <2> QED BY <2>1, <2>2 DEF WaiterWillBeWoken
<1> QED BY <1>1, Invariant, PTL
=============================================================================
