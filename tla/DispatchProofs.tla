--------------------------- MODULE DispatchProofs ---------------------------
(***************************************************************************)
(* Proofs about Dispatch for any number of connections, clients and        *)
(* workers, any queue capacity and any number of calls and broken          *)
(* connections.                                                            *)
(***************************************************************************)
EXTENDS Dispatch, FiniteSetTheorems, TLAPS

USE DispatchAssumption

-----------------------------------------------------------------------------
(* The invariant of the references *)

Pdu == [k : All, xid : 1 .. MaxCalls]
Record == [st : {"none", "open", "deleted"}, dead : BOOLEAN, cut : BOOLEAN, refno : Nat,
           born : Nat, pdu : Pdu \cup {NULL}]
Job == [c : Conn, pdu : Pdu]
Busy == [pc : {"send_old", "end", "save", "duplicate", "handler", "choose", "send"},
         c : Conn, k : All, xid : 1 .. MaxCalls]
Side == [stale : BOOLEAN, waiting : BOOLEAN, chan : Conn \cup {NULL}, sent : BOOLEAN,
         xid : 0 .. MaxCalls, lost : BOOLEAN]

\* The types of all the state.
Types ==
  /\ conn \in [Conn -> Record]
  /\ table \in SUBSET Conn
  /\ latest \in [Client -> Conn \cup {NULL}]
  /\ window \in [Client -> [1 .. MaxCalls -> {"none", "inprogress", "done"}]]
  /\ jobs \in Seq(Job) /\ Len(jobs) <= QueueMax
  /\ thr \in [Worker -> Busy \cup {Idle}]
  /\ client \in [All -> Side]
  /\ server \in {"starting", "up", "stopping", "crashed"}
  /\ leaked \in [Conn -> Nat]
  /\ cuts \in Nat
  /\ \A k \in All : client[k].waiting => client[k].xid > 0

\* What a thread knows of the client it works for: only clients with a nonce go
\* through conns_ and the window, and past the first of the two the client has an
\* entry in conns_.
ThreadInv ==
  \A t \in Worker :
    /\ thr[t].pc \in {"save", "duplicate"} => thr[t].k \in Client
    /\ thr[t].pc \in {"duplicate", "handler", "choose"} /\ thr[t].k \in Client =>
         latest[thr[t].k] # NULL

\* The count of an open connection is exact; nothing holds one that has not been
\* made or that has been deleted.
RefInv ==
  \A d \in Conn :
    /\ conn[d].st = "open" => conn[d].refno = Holders(d) + leaked[d]
    /\ conn[d].st # "open" => Holders(d) = 0
    /\ conn[d].st = "none" => leaked[d] = 0

DInv == Types /\ ThreadInv /\ RefInv

-----------------------------------------------------------------------------
(* Counting *)

Ind(p) == IF p THEN 1 ELSE 0
LatestAt(lat, d) == {k \in Client : lat[k] = d}
JobsAt(js, d) == {i \in DOMAIN js : js[i].c = d}
ThrAt(th, d) == {t \in Worker : th[t].c = d}

\* Holders is the sum of four counts, before and after a step.
LEMMA HoldersSum ==
  ASSUME NEW d
  PROVE  /\ Holders(d) = Ind(d \in table) + Cardinality(LatestAt(latest, d))
                         + Cardinality(JobsAt(jobs, d)) + Cardinality(ThrAt(thr, d))
         /\ Holders(d)' = Ind(d \in table') + Cardinality(LatestAt(latest', d))
                          + Cardinality(JobsAt(jobs', d)) + Cardinality(ThrAt(thr', d))
BY DEF Holders, Count, Ind, LatestAt, JobsAt, ThrAt

\* Two subsets of a finite set that agree but for one element.
LEMMA OneChanges ==
  ASSUME NEW S, IsFiniteSet(S), NEW A \in SUBSET S, NEW B \in SUBSET S, NEW s \in S,
         \A x \in S \ {s} : x \in A <=> x \in B
  PROVE  /\ Cardinality(A) \in Nat /\ Cardinality(B) \in Nat
         /\ Cardinality(B) = Cardinality(A) + Ind(s \in B) - Ind(s \in A)
<1>1. IsFiniteSet(A) /\ IsFiniteSet(B)
  BY FS_Subset
<1>2. Cardinality(A) \in Nat /\ Cardinality(B) \in Nat
  BY <1>1, FS_CardinalityType
<1>3. CASE s \in A /\ s \notin B
  <2>1. A = B \cup {s}
    BY <1>3
  <2>2. Cardinality(A) = Cardinality(B) + 1
    BY <1>1, <1>3, <2>1, FS_AddElement
  <2> QED BY <1>2, <1>3, <2>2 DEF Ind
<1>4. CASE s \notin A /\ s \in B
  <2>1. B = A \cup {s}
    BY <1>4
  <2>2. Cardinality(B) = Cardinality(A) + 1
    BY <1>1, <1>4, <2>1, FS_AddElement
  <2> QED BY <1>2, <1>4, <2>2 DEF Ind
<1>5. CASE (s \in A) = (s \in B)
  <2>1. A = B
    BY <1>5
  <2> QED BY <1>2, <2>1 DEF Ind
<1> QED BY <1>3, <1>4, <1>5

\* The counts are natural numbers, and one is positive when something is counted.
LEMMA CountTypes ==
  ASSUME NEW lat, NEW js \in Seq(Job), NEW th, NEW d
  PROVE  /\ IsFiniteSet(JobsAt(js, d))
         /\ Cardinality(LatestAt(lat, d)) \in Nat
         /\ Cardinality(JobsAt(js, d)) \in Nat
         /\ Cardinality(ThrAt(th, d)) \in Nat
         /\ \A k \in Client : lat[k] = d => Cardinality(LatestAt(lat, d)) > 0
         /\ \A i \in DOMAIN js : js[i].c = d => Cardinality(JobsAt(js, d)) > 0
         /\ \A t \in Worker : th[t].c = d => Cardinality(ThrAt(th, d)) > 0
<1>1. LatestAt(lat, d) \in SUBSET Client /\ ThrAt(th, d) \in SUBSET Worker
      /\ JobsAt(js, d) \in SUBSET (1 .. Len(js)) /\ Len(js) \in Nat
  BY DEF LatestAt, ThrAt, JobsAt
<1>2. IsFiniteSet(1 .. Len(js))
  BY <1>1, FS_Interval
<1>3. IsFiniteSet(LatestAt(lat, d)) /\ IsFiniteSet(ThrAt(th, d)) /\ IsFiniteSet(JobsAt(js, d))
  BY <1>1, <1>2, FS_Subset
<1>4. \A S : IsFiniteSet(S) => Cardinality(S) \in Nat /\ (Cardinality(S) = 0 <=> S = {})
  BY FS_CardinalityType, FS_EmptySet
<1>5. \A S : IsFiniteSet(S) /\ S # {} => Cardinality(S) > 0
  <2> TAKE S
  <2> HAVE IsFiniteSet(S) /\ S # {}
  <2>1. Cardinality(S) \in Nat /\ Cardinality(S) # 0
    BY <1>4
  <2> QED BY <2>1
<1>6. \A k \in Client : lat[k] = d => LatestAt(lat, d) # {}
  BY DEF LatestAt
<1>7. \A i \in DOMAIN js : js[i].c = d => JobsAt(js, d) # {}
  BY DEF JobsAt
<1>8. \A t \in Worker : th[t].c = d => ThrAt(th, d) # {}
  BY DEF ThrAt
<1> QED BY <1>3, <1>4, <1>5, <1>6, <1>7, <1>8

\* One entry of conns_ changes.
LEMMA LatestChanges ==
  ASSUME NEW lat, NEW lat2, NEW k \in Client, NEW c, NEW d,
         lat2[k] = c, \A x \in Client \ {k} : lat2[x] = lat[x]
  PROVE  Cardinality(LatestAt(lat2, d))
           = Cardinality(LatestAt(lat, d)) + Ind(c = d) - Ind(lat[k] = d)
<1>2. LatestAt(lat, d) \in SUBSET Client /\ LatestAt(lat2, d) \in SUBSET Client
  BY DEF LatestAt
<1>3. \A x \in Client \ {k} : x \in LatestAt(lat, d) <=> x \in LatestAt(lat2, d)
  BY DEF LatestAt
<1>4. Cardinality(LatestAt(lat2, d))
        = Cardinality(LatestAt(lat, d)) + Ind(k \in LatestAt(lat2, d)) - Ind(k \in LatestAt(lat, d))
  BY <1>2, <1>3, OneChanges
<1>5. (k \in LatestAt(lat2, d) <=> c = d) /\ (k \in LatestAt(lat, d) <=> lat[k] = d)
  BY DEF LatestAt
<1> QED BY <1>4, <1>5 DEF Ind

\* One thread changes its connection.
LEMMA ThreadChanges ==
  ASSUME NEW th, NEW th2, NEW t \in Worker, \A u \in Worker \ {t} : th2[u] = th[u], NEW d
  PROVE  Cardinality(ThrAt(th2, d))
           = Cardinality(ThrAt(th, d)) + Ind(th2[t].c = d) - Ind(th[t].c = d)
<1>1. ThrAt(th, d) \in SUBSET Worker /\ ThrAt(th2, d) \in SUBSET Worker
  BY DEF ThrAt
<1>2. \A x \in Worker \ {t} : x \in ThrAt(th, d) <=> x \in ThrAt(th2, d)
  BY DEF ThrAt
<1>3. Cardinality(ThrAt(th2, d))
        = Cardinality(ThrAt(th, d)) + Ind(t \in ThrAt(th2, d)) - Ind(t \in ThrAt(th, d))
  BY <1>1, <1>2, OneChanges
<1>4. (t \in ThrAt(th2, d) <=> th2[t].c = d) /\ (t \in ThrAt(th, d) <=> th[t].c = d)
  BY DEF ThrAt
<1> QED BY <1>3, <1>4 DEF Ind

\* A job joins the queue.
LEMMA JobAdded ==
  ASSUME NEW js \in Seq(Job), NEW j \in Job, NEW d
  PROVE  Cardinality(JobsAt(Append(js, j), d)) = Cardinality(JobsAt(js, d)) + Ind(j.c = d)
<1> DEFINE n == Len(js) + 1
           js2 == Append(js, j)
<1>1. n \in Nat \ {0} /\ DOMAIN js = 1 .. (n - 1) /\ DOMAIN js2 = 1 .. n
      /\ js2[n] = j /\ \A i \in 1 .. (n - 1) : js2[i] = js[i]
  OBVIOUS
<1> HIDE DEF n, js2
<1>2. n \notin JobsAt(js, d)
  BY <1>1 DEF JobsAt
<1>3. CASE j.c = d
  <2>1. JobsAt(js2, d) = JobsAt(js, d) \cup {n}
    <3>1. \A i \in JobsAt(js2, d) : i \in JobsAt(js, d) \cup {n}
      BY <1>1 DEF JobsAt
    <3>2. \A i \in JobsAt(js, d) : i \in JobsAt(js2, d)
      BY <1>1 DEF JobsAt
    <3>3. n \in JobsAt(js2, d)
      BY <1>1, <1>3 DEF JobsAt
    <3> QED BY <3>1, <3>2, <3>3
  <2>2. Cardinality(JobsAt(js2, d)) = Cardinality(JobsAt(js, d)) + 1
    BY <1>2, <2>1, CountTypes, FS_AddElement
  <2> QED BY <1>3, <2>2 DEF Ind, js2
<1>4. CASE j.c # d
  <2>1. JobsAt(js2, d) = JobsAt(js, d)
    BY <1>1, <1>4 DEF JobsAt
  <2>2. Cardinality(JobsAt(js, d)) \in Nat
    BY CountTypes
  <2> QED BY <1>4, <2>1, <2>2 DEF Ind, js2
<1> QED BY <1>3, <1>4

\* A job leaves the queue.
LEMMA JobTaken ==
  ASSUME NEW js \in Seq(Job), js # <<>>, NEW d
  PROVE  Cardinality(JobsAt(Tail(js), d)) = Cardinality(JobsAt(js, d)) - Ind(Head(js).c = d)
<1> DEFINE js2 == Tail(js)
           n == Len(js)
           Rest == JobsAt(js, d) \ {1}
           f == [i \in Rest |-> i - 1]
<1>1. n \in Nat \ {0} /\ DOMAIN js = 1 .. n /\ DOMAIN js2 = 1 .. (n - 1) /\ Head(js) = js[1]
      /\ \A i \in 1 .. (n - 1) : js2[i] = js[i + 1]
  OBVIOUS
<1> HIDE DEF n, js2
<1>2. \A i \in Rest : i \in 2 .. n /\ js[i].c = d
  BY <1>1 DEF JobsAt
<1>3. \A i \in Rest : i - 1 \in JobsAt(js2, d)
  BY <1>1, <1>2 DEF JobsAt
<1>4. \A i \in JobsAt(js2, d) : i + 1 \in Rest /\ (i + 1) - 1 = i
  BY <1>1 DEF JobsAt
<1>5. f \in Bijection(Rest, JobsAt(js2, d))
  <2>1. f \in [Rest -> JobsAt(js2, d)]
    BY <1>3
  <2>2. \A x, y \in Rest : f[x] = f[y] => x = y
    BY <1>2
  <2>3. \A i \in JobsAt(js2, d) : f[i + 1] = i /\ i + 1 \in Rest
    BY <1>4
  <2> QED BY <2>1, <2>2, <2>3 DEF Bijection, Injection, Surjection, IsInjective
<1>6. IsFiniteSet(JobsAt(js, d)) /\ Cardinality(JobsAt(js, d)) \in Nat
  BY CountTypes
<1>7. IsFiniteSet(Rest)
      /\ Cardinality(Rest) = IF 1 \in JobsAt(js, d) THEN Cardinality(JobsAt(js, d)) - 1
                             ELSE Cardinality(JobsAt(js, d))
  BY <1>6, FS_RemoveElement
<1>8. Cardinality(JobsAt(js2, d)) = Cardinality(Rest)
  BY <1>5, <1>7, FS_Bijection DEF ExistsBijection
<1>9. 1 \in JobsAt(js, d) <=> Head(js).c = d
  BY <1>1 DEF JobsAt
<1> QED BY <1>6, <1>7, <1>8, <1>9 DEF Ind, js2

-----------------------------------------------------------------------------
(* Reference counts *)

\* Whatever the table, a job, conns_ or a thread refers to is open, and its count
\* is at least one.
LEMMA HeldIsOpen ==
  ASSUME DInv
  PROVE  /\ \A c \in Conn : Holders(c) \in Nat
         /\ \A c \in table : conn[c].st = "open" /\ Holders(c) > 0
         /\ \A k \in Client : latest[k] # NULL =>
              latest[k] \in Conn /\ conn[latest[k]].st = "open" /\ Holders(latest[k]) > 0
         /\ \A i \in DOMAIN jobs : jobs[i] \in Job /\ conn[jobs[i].c].st = "open"
         /\ \A t \in Worker : thr[t].pc # "idle" =>
              thr[t] \in Busy /\ conn[thr[t].c].st = "open" /\ Holders(thr[t].c) > 0
<1> USE DEF DInv, Types
<1>1. ASSUME NEW c \in Conn
      PROVE  /\ Holders(c) \in Nat
             /\ c \in table => Holders(c) > 0
             /\ \A k \in Client : latest[k] = c => Holders(c) > 0
             /\ \A i \in DOMAIN jobs : jobs[i].c = c => Holders(c) > 0
             /\ \A t \in Worker : thr[t].c = c => Holders(c) > 0
  <2>1. jobs \in Seq(Job)
    OBVIOUS
  <2>2. Ind(c \in table) \in Nat /\ (c \in table => Ind(c \in table) > 0)
    BY DEF Ind
  <2> HIDE DEF DInv, Types
  <2>3. /\ Cardinality(LatestAt(latest, c)) \in Nat
        /\ Cardinality(JobsAt(jobs, c)) \in Nat
        /\ Cardinality(ThrAt(thr, c)) \in Nat
        /\ \A k \in Client : latest[k] = c => Cardinality(LatestAt(latest, c)) > 0
        /\ \A i \in DOMAIN jobs : jobs[i].c = c => Cardinality(JobsAt(jobs, c)) > 0
        /\ \A t \in Worker : thr[t].c = c => Cardinality(ThrAt(thr, c)) > 0
    BY <2>1, CountTypes
  <2> QED BY <2>2, <2>3, HoldersSum
<1>2. \A c \in Conn : Holders(c) > 0 => conn[c].st = "open"
  BY <1>1 DEF RefInv
<1>3. \A c \in table : c \in Conn
  OBVIOUS
<1>4. \A k \in Client : latest[k] # NULL => latest[k] \in Conn
  OBVIOUS
<1>5. \A i \in DOMAIN jobs : jobs[i] \in Job /\ jobs[i].c \in Conn
  <2>1. \A i \in DOMAIN jobs : jobs[i] \in Job
    OBVIOUS
  <2> QED BY <2>1 DEF Job
<1>6. \A t \in Worker : thr[t].pc # "idle" => thr[t] \in Busy /\ thr[t].c \in Conn
  BY DEF Busy, Idle
<1> QED BY <1>1, <1>2, <1>3, <1>4, <1>5, <1>6

\* What decref and incref do.
LEMMA Decref ==
  ASSUME NEW f \in [Conn -> Record], NEW c \in Conn, f[c].refno > 0
  PROVE  /\ decref(f, c) \in [Conn -> Record]
         /\ \A d \in Conn : d # c => decref(f, c)[d] = f[d]
         /\ \/ f[c].refno = 1 /\ decref(f, c)[c] = NoConn("deleted")
            \/ /\ decref(f, c)[c].st = f[c].st /\ decref(f, c)[c].born = f[c].born
               /\ decref(f, c)[c].cut = f[c].cut /\ decref(f, c)[c].dead = f[c].dead
               /\ decref(f, c)[c].pdu = f[c].pdu
               /\ decref(f, c)[c].refno = f[c].refno - 1
<1>1. NoConn("deleted") \in Record
  BY DEF NoConn, Record
<1>2. f[c] \in Record /\ f[c].refno - 1 \in Nat
  BY DEF Record
<1>3. [f[c] EXCEPT !.refno = @ - 1] \in Record
  BY <1>2 DEF Record
<1>4. CASE f[c].refno = 1 /\ f[c].dead
  BY <1>1, <1>4 DEF decref
<1>5. CASE ~(f[c].refno = 1 /\ f[c].dead)
  <2>1. decref(f, c) = [f EXCEPT ![c] = [f[c] EXCEPT !.refno = @ - 1]]
    BY <1>5 DEF decref
  <2>2. decref(f, c)[c] = [f[c] EXCEPT !.refno = @ - 1] /\ decref(f, c) \in [Conn -> Record]
    BY <1>3, <2>1
  <2> QED BY <1>2, <2>1, <2>2 DEF Record
<1> QED BY <1>4, <1>5

LEMMA Incref ==
  ASSUME NEW f \in [Conn -> Record], NEW c \in Conn
  PROVE  /\ incref(f, c) \in [Conn -> Record]
         /\ \A d \in Conn : d # c => incref(f, c)[d] = f[d]
         /\ incref(f, c)[c].st = f[c].st /\ incref(f, c)[c].born = f[c].born
         /\ incref(f, c)[c].cut = f[c].cut /\ incref(f, c)[c].dead = f[c].dead
         /\ incref(f, c)[c].pdu = f[c].pdu /\ incref(f, c)[c].refno = f[c].refno + 1
<1>1. f[c] \in Record /\ f[c].refno + 1 \in Nat
  BY DEF Record
<1>2. incref(f, c) = [f EXCEPT ![c] = [f[c] EXCEPT !.refno = @ + 1]]
  BY DEF incref
<1>3. [f[c] EXCEPT !.refno = @ + 1] \in Record
  BY <1>1 DEF Record
<1> QED BY <1>1, <1>2, <1>3 DEF Record

\* So a reference can be dropped.
LEMMA HeldIsCounted ==
  ASSUME DInv
  PROVE  /\ \A c \in table : conn[c].refno > 0
         /\ \A k \in Client : latest[k] # NULL => conn[latest[k]].refno > 0
         /\ \A t \in Worker : thr[t].pc # "idle" => conn[thr[t].c].refno > 0
<1>1. \A c \in Conn : conn[c].st = "open" /\ Holders(c) > 0 => conn[c].refno > 0
  <2> TAKE c \in Conn
  <2> HAVE conn[c].st = "open" /\ Holders(c) > 0
  <2>1. conn[c].refno = Holders(c) + leaked[c] /\ leaked[c] \in Nat /\ Holders(c) \in Nat
    BY HeldIsOpen DEF DInv, RefInv, Types
  <2> QED BY <2>1
<1>2. \A t \in Worker : thr[t] \in Busy => thr[t].c \in Conn
  BY DEF Busy
<1>3. table \in SUBSET Conn
  BY DEF DInv, Types
<1> QED BY <1>1, <1>2, <1>3, HeldIsOpen

-----------------------------------------------------------------------------
(* The steps keep the types *)

LEMMA InitTypes == Init => Types
<1> SUFFICES ASSUME Init PROVE Types
  OBVIOUS
<1>1. NoConn("none") \in Record
  BY DEF NoConn, Record
<1>2. \A s \in BOOLEAN : NewClient(s) \in Side /\ ~NewClient(s).waiting
  BY DEF NewClient, Side
<1>3. client \in [All -> Side] /\ \A k \in All : ~client[k].waiting
  BY <1>2 DEF Init
<1> QED BY <1>1, <1>3 DEF Init, Types

\* The record of a client after a change of its fields.
LEMMA ClientStepKeepsTypes ==
  ASSUME DInv, NEW k \in All, Call(k) \/ Transmit(k) \/ GiveUp(k)
  PROVE  Types'
<1>1. client[k] \in Side /\ conn \in [Conn -> Record] /\ client \in [All -> Side]
  BY DEF DInv, Types
<1>2. CASE Call(k)
  <2>1. [client[k] EXCEPT !.waiting = TRUE, !.xid = @ + 1] \in Side
    BY <1>1, <1>2 DEF Side, Call
  <2>2. client' = [client EXCEPT ![k] = [client[k] EXCEPT !.waiting = TRUE, !.xid = @ + 1]]
    BY <1>2 DEF Call
  <2>3. client' \in [All -> Side] /\ \A m \in All : client'[m].waiting => client'[m].xid > 0
    BY <1>1, <2>1, <2>2 DEF DInv, Types, Side
  <2> QED BY <1>2, <2>3 DEF Call, DInv, Types
<1>3. CASE Transmit(k)
  <2>1. client[k].chan \in Conn
    BY <1>3 DEF Transmit, Broken, Open
  <2>2. client[k].xid \in 1 .. MaxCalls
    <3>1. client[k].xid > 0
      BY <1>3 DEF Transmit, DInv, Types
    <3>2. client[k].xid \in 0 .. MaxCalls
      BY <1>1 DEF Side
    <3> QED BY <3>1, <3>2
  <2>3. [k |-> k, xid |-> client[k].xid] \in Pdu
    BY <2>2 DEF Pdu
  <2>4. [conn[client[k].chan] EXCEPT !.pdu = [k |-> k, xid |-> client[k].xid]] \in Record
    BY <1>1, <2>1, <2>3 DEF Record
  <2>5. conn' = [conn EXCEPT ![client[k].chan] =
                   [conn[client[k].chan] EXCEPT !.pdu = [k |-> k, xid |-> client[k].xid]]]
    BY <1>3 DEF Transmit
  <2>6. conn' \in [Conn -> Record]
    BY <1>1, <2>1, <2>4, <2>5
  <2>7. client' \in [All -> Side] /\ \A m \in All : client'[m].waiting => client'[m].xid > 0
    <3>1. [client[k] EXCEPT !.sent = TRUE] \in Side
      BY <1>1 DEF Side
    <3>2. client' = [client EXCEPT ![k] = [client[k] EXCEPT !.sent = TRUE]]
      BY <1>3 DEF Transmit
    <3> QED BY <1>1, <3>1, <3>2 DEF DInv, Types, Side
  <2> QED BY <1>3, <2>6, <2>7 DEF Transmit, DInv, Types
<1>4. CASE GiveUp(k)
  <2>1. [client[k] EXCEPT !.waiting = FALSE, !.sent = FALSE, !.lost = FALSE] \in Side
    BY <1>1 DEF Side
  <2>2. client' = [client EXCEPT ![k] =
                     [client[k] EXCEPT !.waiting = FALSE, !.sent = FALSE, !.lost = FALSE]]
    BY <1>4 DEF GiveUp
  <2>3. client' \in [All -> Side] /\ \A m \in All : client'[m].waiting => client'[m].xid > 0
    BY <1>1, <2>1, <2>2 DEF DInv, Types, Side
  <2> QED BY <1>4, <2>3 DEF GiveUp, DInv, Types
<1> QED BY <1>2, <1>3, <1>4

LEMMA ConnectKeepsTypes ==
  ASSUME DInv, NEW k \in All, NEW c \in Conn, Connect(k, c)
  PROVE  Types'
<1>1. client[k] \in Side /\ conn \in [Conn -> Record] /\ client \in [All -> Side]
  BY DEF DInv, Types
<1>2. PICK gone \in SUBSET Garbage, now \in Now, tick \in {0, 1} :
        /\ conn' = [d \in Conn |->
                      IF d = c THEN [NoConn("open") EXCEPT !.refno = 1, !.born = now + tick]
                      ELSE IF d \in gone THEN NoConn("deleted") ELSE conn[d]]
        /\ table' = (table \ gone) \cup {c}
  BY DEF Connect
<1>3. now + tick \in Nat
  <2>1. now \in Nat
    BY <1>1 DEF Now, Record
  <2> QED BY <2>1
<1>4. [NoConn("open") EXCEPT !.refno = 1, !.born = now + tick] \in Record
      /\ NoConn("deleted") \in Record
  BY <1>3 DEF NoConn, Record
<1>5. conn' \in [Conn -> Record]
  BY <1>1, <1>2, <1>4
<1>6. table' \in SUBSET Conn
  BY <1>2 DEF DInv, Types
<1>7. [client[k] EXCEPT !.chan = c, !.sent = FALSE, !.lost = FALSE] \in Side
  BY <1>1 DEF Side
<1>8. client' = [client EXCEPT ![k] = [client[k] EXCEPT !.chan = c, !.sent = FALSE, !.lost = FALSE]]
  BY DEF Connect
<1>9. client' \in [All -> Side] /\ \A m \in All : client'[m].waiting => client'[m].xid > 0
  BY <1>1, <1>7, <1>8 DEF DInv, Types, Side
<1> QED BY <1>5, <1>6, <1>9 DEF Connect, DInv, Types

LEMMA ConnStepKeepsTypes ==
  ASSUME DInv, NEW c \in Conn, Cut(c) \/ Notice(c) \/ got_pdu(c) \/ CloseConn(c)
  PROVE  Types'
<1>1. conn[c] \in Record /\ conn \in [Conn -> Record] /\ jobs \in Seq(Job)
  BY DEF DInv, Types
<1>2. CASE Cut(c)
  <2>1. [conn[c] EXCEPT !.cut = TRUE] \in Record
    BY <1>1 DEF Record
  <2>2. conn' \in [Conn -> Record]
    BY <1>1, <1>2, <2>1 DEF Cut
  <2> QED BY <1>2, <2>2 DEF Cut, DInv, Types
<1>3. CASE Notice(c)
  <2>1. [conn[c] EXCEPT !.dead = TRUE, !.pdu = NULL] \in Record
    BY <1>1 DEF Record
  <2>2. conn' \in [Conn -> Record]
    BY <1>1, <1>3, <2>1 DEF Notice
  <2> QED BY <1>3, <2>2 DEF Notice, DInv, Types
<1>4. CASE got_pdu(c)
  <2>1. incref(conn, c) \in [Conn -> Record]
    BY <1>1, Incref
  <2>2. [incref(conn, c)[c] EXCEPT !.pdu = NULL] \in Record
    BY <2>1 DEF Record
  <2>3. conn' \in [Conn -> Record]
    BY <1>4, <2>1, <2>2 DEF got_pdu
  <2>4. [c |-> c, pdu |-> conn[c].pdu] \in Job
    BY <1>1, <1>4 DEF got_pdu, Record, Job
  <2>5. jobs' \in Seq(Job) /\ Len(jobs') <= QueueMax
    BY <1>1, <1>4, <2>4 DEF got_pdu
  <2> QED BY <1>4, <2>3, <2>5 DEF got_pdu, DInv, Types
<1>5. CASE CloseConn(c)
  <2> DEFINE f == [conn EXCEPT ![c].dead = TRUE, ![c].cut = TRUE, ![c].pdu = NULL]
  <2>1. [conn[c] EXCEPT !.dead = TRUE, !.cut = TRUE, !.pdu = NULL] \in Record
    BY <1>1 DEF Record
  <2>2. f \in [Conn -> Record] /\ f[c].refno = conn[c].refno
    BY <1>1, <2>1 DEF Record
  <2>3. conn[c].refno > 0
    BY <1>5, HeldIsCounted DEF CloseConn
  <2> HIDE DEF f
  <2>4. decref(f, c) \in [Conn -> Record]
    BY <2>2, <2>3, Decref
  <2>5. conn' \in [Conn -> Record]
    BY <1>5, <2>4 DEF CloseConn, f
  <2> QED BY <1>5, <2>5 DEF CloseConn, DInv, Types
<1> QED BY <1>2, <1>3, <1>4, <1>5

\* A thread that changes only its program counter keeps its type.
LEMMA GotoKeepsTypes ==
  ASSUME Types, NEW t \in Worker, thr[t].pc # "idle",
         NEW pc \in {"send_old", "end", "save", "duplicate", "handler", "choose", "send"},
         Goto(t, pc)
  PROVE  /\ thr' \in [Worker -> Busy \cup {Idle}]
         /\ thr'[t] \in Busy /\ thr'[t].pc = pc
         /\ thr'[t].c = thr[t].c /\ thr'[t].k = thr[t].k /\ thr'[t].xid = thr[t].xid
         /\ \A u \in Worker : u # t => thr'[u] = thr[u]
<1>1. thr[t] \in Busy /\ thr \in [Worker -> Busy \cup {Idle}]
  BY DEF Types, Idle
<1>2. [thr[t] EXCEPT !.pc = pc] \in Busy
  BY <1>1 DEF Busy
<1>3. thr' = [thr EXCEPT ![t] = [thr[t] EXCEPT !.pc = pc]]
  BY DEF Goto
<1> QED BY <1>1, <1>2, <1>3 DEF Busy

\* Recording that a call gets no answer.
LEMMA LostKeepsTypes ==
  ASSUME Types, NEW k \in All, NEW x, Lost(k, x)
  PROVE  /\ client' \in [All -> Side]
         /\ \A m \in All : client'[m].waiting => client'[m].xid > 0
<1>1. client[k] \in Side /\ client \in [All -> Side]
  BY DEF Types
<1>2. [client[k] EXCEPT !.lost = @ \/ client[k].xid = x] \in Side
  BY <1>1 DEF Side
<1>3. client' = [client EXCEPT ![k] = [client[k] EXCEPT !.lost = @ \/ client[k].xid = x]]
  BY DEF Lost
<1> QED BY <1>1, <1>2, <1>3 DEF Types, Side

\* The job a thread takes.
LEMMA JobTypes ==
  ASSUME Types, jobs # <<>>
  PROVE  /\ Head(jobs) \in Job /\ Head(jobs).c \in Conn /\ Head(jobs).pdu.k \in All
         /\ Head(jobs).pdu.xid \in 1 .. MaxCalls
         /\ Tail(jobs) \in Seq(Job) /\ Len(Tail(jobs)) <= QueueMax
<1>1. jobs \in Seq(Job) /\ Len(jobs) <= QueueMax
  BY DEF Types
<1>2. Head(jobs) \in Job /\ Tail(jobs) \in Seq(Job) /\ Len(Tail(jobs)) <= QueueMax
  BY <1>1
<1> QED BY <1>2 DEF Job, Pdu

LEMMA TakeJobKeepsTypes ==
  ASSUME DInv, NEW t \in Worker, TakeJob(t)
  PROVE  Types'
<1> DEFINE j == Head(jobs)
           k == j.pdu.k
           At(pc) == thr' = [thr EXCEPT ![t] = [pc |-> pc, c |-> j.c, k |-> k, xid |-> j.pdu.xid]]
<1>1. j.c \in Conn /\ k \in All /\ j.pdu.xid \in 1 .. MaxCalls
      /\ jobs' \in Seq(Job) /\ Len(jobs') <= QueueMax
  BY JobTypes DEF TakeJob, DInv
<1>2. PICK pc \in {"send_old", "end", "handler", "save"} : At(pc)
  BY DEF TakeJob
<1>3. client' = client \/ Lost(k, j.pdu.xid)
  BY DEF TakeJob
<1> HIDE DEF j, k
<1>4. [pc |-> pc, c |-> j.c, k |-> k, xid |-> j.pdu.xid] \in Busy
  BY <1>1 DEF Busy
<1>5. thr' \in [Worker -> Busy \cup {Idle}]
  BY <1>2, <1>4 DEF DInv, Types
<1>6. client' \in [All -> Side] /\ \A m \in All : client'[m].waiting => client'[m].xid > 0
  BY <1>1, <1>3, LostKeepsTypes DEF DInv, Types
<1> QED BY <1>1, <1>5, <1>6 DEF TakeJob, DInv, Types

LEMMA SaveLatestKeepsTypes ==
  ASSUME DInv, NEW t \in Worker, SaveLatest(t)
  PROVE  Types'
<1>1. thr[t] \in Busy /\ thr[t].c \in Conn /\ thr[t].k \in Client
  BY HeldIsOpen DEF SaveLatest, DInv, ThreadInv, Busy
<1>2. thr' \in [Worker -> Busy \cup {Idle}]
  BY GotoKeepsTypes DEF SaveLatest, DInv
<1>3. conn \in [Conn -> Record] /\ latest \in [Client -> Conn \cup {NULL}]
  BY DEF DInv, Types
<1>4. conn' \in [Conn -> Record] /\ latest' \in [Client -> Conn \cup {NULL}]
  <2>1. CASE latest[thr[t].k] = NULL
    <3>1. incref(conn, thr[t].c) \in [Conn -> Record]
      BY <1>1, <1>3, Incref
    <3> QED BY <1>1, <1>3, <2>1, <3>1 DEF SaveLatest
  <2>2. CASE latest[thr[t].k] # NULL
    <3>1. latest[thr[t].k] \in Conn /\ conn[latest[thr[t].k]].refno > 0
      BY <1>1, <1>3, <2>2, HeldIsCounted
    <3>2. decref(conn, latest[thr[t].k]) \in [Conn -> Record]
      BY <1>3, <3>1, Decref
    <3>3. incref(decref(conn, latest[thr[t].k]), thr[t].c) \in [Conn -> Record]
      BY <1>1, <3>2, Incref
    <3> QED BY <1>1, <1>3, <2>2, <3>3 DEF SaveLatest
  <2> QED BY <2>1, <2>2
<1> QED BY <1>2, <1>4 DEF SaveLatest, DInv, Types

LEMMA WindowStepKeepsTypes ==
  ASSUME DInv, NEW t \in Worker, checkduplicate(t) \/ Handler(t)
  PROVE  Types'
<1>1. thr[t] \in Busy /\ thr[t].k \in All /\ thr[t].xid \in 1 .. MaxCalls
  BY HeldIsOpen DEF checkduplicate, Handler, Busy
<1>2. window \in [Client -> [1 .. MaxCalls -> {"none", "inprogress", "done"}]]
  BY DEF DInv, Types
<1>3. CASE checkduplicate(t)
  <2>1. thr' \in [Worker -> Busy \cup {Idle}]
    BY <1>3, GotoKeepsTypes DEF checkduplicate, DInv
  <2>2. thr[t].k \in Client
    BY <1>3 DEF checkduplicate, DInv, ThreadInv
  <2>3. window' \in [Client -> [1 .. MaxCalls -> {"none", "inprogress", "done"}]]
    BY <1>1, <1>2, <1>3, <2>2 DEF checkduplicate
  <2> QED BY <1>3, <2>1, <2>3 DEF checkduplicate, DInv, Types
<1>4. CASE Handler(t)
  <2>1. thr' \in [Worker -> Busy \cup {Idle}]
    BY <1>4, GotoKeepsTypes DEF Handler, DInv
  <2>2. window' \in [Client -> [1 .. MaxCalls -> {"none", "inprogress", "done"}]]
    BY <1>1, <1>2, <1>4 DEF Handler, All
  <2> QED BY <1>4, <2>1, <2>2 DEF Handler, DInv, Types
<1> QED BY <1>3, <1>4

LEMMA ChooseKeepsTypes ==
  ASSUME DInv, NEW t \in Worker, ChooseLatest(t) \/ ChooseNull(t)
  PROVE  Types'
<1>1. thr[t] \in Busy /\ thr[t].c \in Conn /\ thr[t].k \in All /\ thr[t].xid \in 1 .. MaxCalls
      /\ conn[thr[t].c].refno > 0
  BY HeldIsOpen, HeldIsCounted DEF ChooseLatest, ChooseNull, Busy
<1>2. conn \in [Conn -> Record] /\ thr \in [Worker -> Busy \cup {Idle}]
  BY DEF DInv, Types
<1>3. CASE ChooseNull(t)
  BY <1>3 DEF ChooseNull, Crash, DInv, Types
<1>4. CASE /\ Goto(t, "send") /\ UNCHANGED <<conn, table, latest, window, jobs, server, leaked, cuts>>
           /\ thr[t].pc = "choose"
           /\ Lost(thr[t].k, thr[t].xid) \/ UNCHANGED client
  <2>1. thr' \in [Worker -> Busy \cup {Idle}]
    BY <1>4, GotoKeepsTypes DEF DInv
  <2>2. client' \in [All -> Side] /\ \A m \in All : client'[m].waiting => client'[m].xid > 0
    BY <1>1, <1>4, LostKeepsTypes DEF DInv, Types
  <2> QED BY <1>4, <2>1, <2>2 DEF DInv, Types
<1>5. CASE /\ thr[t].k \in Client /\ thr[t].pc = "choose"
           /\ conn' = incref(decref(conn, thr[t].c), latest[thr[t].k])
           /\ thr' = [thr EXCEPT ![t].pc = "send", ![t].c = latest[thr[t].k]]
           /\ UNCHANGED <<client, table, latest, window, jobs, server, leaked, cuts>>
  <2>1. latest[thr[t].k] \in Conn
    BY <1>5 DEF DInv, ThreadInv, Types
  <2>2. decref(conn, thr[t].c) \in [Conn -> Record]
    BY <1>1, <1>2, Decref
  <2>3. conn' \in [Conn -> Record]
    BY <1>5, <2>1, <2>2, Incref
  <2>4. [thr[t] EXCEPT !.pc = "send", !.c = latest[thr[t].k]] \in Busy
    BY <1>1, <2>1 DEF Busy
  <2>5. thr' = [thr EXCEPT ![t] = [thr[t] EXCEPT !.pc = "send", !.c = latest[thr[t].k]]]
    BY <1>5
  <2>6. thr' \in [Worker -> Busy \cup {Idle}]
    BY <1>2, <2>4, <2>5
  <2> QED BY <1>5, <2>3, <2>6 DEF DInv, Types
<1> QED BY <1>3, <1>4, <1>5 DEF ChooseLatest

LEMMA SendKeepsTypes ==
  ASSUME DInv, NEW t \in Worker, Send(t)
  PROVE  Types'
<1>1. thr[t] \in Busy /\ thr[t].c \in Conn /\ thr[t].k \in All
  BY HeldIsOpen DEF Send, Busy
<1>2. conn \in [Conn -> Record] /\ thr \in [Worker -> Busy \cup {Idle}]
      /\ client \in [All -> Side] /\ leaked \in [Conn -> Nat]
  BY DEF DInv, Types
<1>3. conn' \in [Conn -> Record]
  <2>1. \A b \in BOOLEAN : [conn[thr[t].c] EXCEPT !.dead = @ \/ b] \in Record
    BY <1>1, <1>2 DEF Record
  <2>2. conn' = conn \/ \E b \in BOOLEAN :
          conn' = [conn EXCEPT ![thr[t].c] = [conn[thr[t].c] EXCEPT !.dead = @ \/ b]]
    BY DEF Send
  <2> QED BY <1>1, <1>2, <2>1, <2>2
<1>4. client' \in [All -> Side] /\ \A m \in All : client'[m].waiting => client'[m].xid > 0
  <2>1. client' = client \/ client' = [client EXCEPT ![thr[t].k] = Answered(@, thr[t].xid)]
    BY DEF Send
  <2>2. client[thr[t].k] \in Side
    BY <1>1, <1>2
  <2>3. Answered(client[thr[t].k], thr[t].xid) \in Side
        /\ (Answered(client[thr[t].k], thr[t].xid).waiting => client[thr[t].k].waiting)
        /\ Answered(client[thr[t].k], thr[t].xid).xid = client[thr[t].k].xid
    BY <2>2 DEF Answered, Side
  <2>4. \A m \in All : client[m].waiting => client[m].xid > 0
    BY DEF DInv, Types
  <2>5. CASE client' = client
    BY <1>2, <2>4, <2>5
  <2>6. CASE client' = [client EXCEPT ![thr[t].k] = Answered(client[thr[t].k], thr[t].xid)]
    <3>1. client'[thr[t].k] = Answered(client[thr[t].k], thr[t].xid)
          /\ \A m \in All : m # thr[t].k => client'[m] = client[m]
      BY <1>1, <1>2, <2>6
    <3>2. client' \in [All -> Side]
      BY <1>1, <1>2, <2>3, <2>6
    <3> QED BY <1>1, <2>3, <2>4, <3>1, <3>2
  <2> QED BY <2>1, <2>5, <2>6
<1>5. thr' \in [Worker -> Busy \cup {Idle}]
  <2>1. CASE thr' = [thr EXCEPT ![t] = Idle]
    BY <1>2, <2>1
  <2>2. CASE thr[t].pc = "send" /\ Goto(t, "end")
    BY <2>2, GotoKeepsTypes DEF DInv
  <2> QED BY <2>1, <2>2 DEF Send
<1>6. leaked' \in [Conn -> Nat]
  BY <1>1, <1>2 DEF Send
<1> QED BY <1>3, <1>4, <1>5, <1>6 DEF Send, DInv, Types

LEMMA EndKeepsTypes ==
  ASSUME DInv, NEW t \in Worker, End(t)
  PROVE  Types'
<1>1. thr[t] \in Busy /\ thr[t].c \in Conn /\ conn[thr[t].c].refno > 0
  BY HeldIsOpen, HeldIsCounted DEF End, Busy
<1>2. conn \in [Conn -> Record] /\ thr \in [Worker -> Busy \cup {Idle}]
  BY DEF DInv, Types
<1>3. conn' \in [Conn -> Record]
  BY <1>1, <1>2, Decref DEF End
<1>4. thr' \in [Worker -> Busy \cup {Idle}]
  BY <1>2 DEF End
<1> QED BY <1>3, <1>4 DEF End, DInv, Types

LEMMA StepKeepsTypes == DInv /\ [Next]_vars => Types'
<1> SUFFICES ASSUME DInv, [Next]_vars PROVE Types'
  OBVIOUS
<1>1. ASSUME NEW k \in All, Call(k) \/ Transmit(k) \/ GiveUp(k) PROVE Types'
  BY <1>1, ClientStepKeepsTypes
<1>2. ASSUME NEW k \in All, NEW c \in Conn, Connect(k, c) PROVE Types'
  BY <1>2, ConnectKeepsTypes
<1>3. ASSUME NEW c \in Conn, Cut(c) \/ Notice(c) \/ got_pdu(c) \/ CloseConn(c) PROVE Types'
  BY <1>3, ConnStepKeepsTypes
<1>4. ASSUME NEW t \in Worker, dispatch(t) PROVE Types'
  BY <1>4, TakeJobKeepsTypes, SaveLatestKeepsTypes, WindowStepKeepsTypes, ChooseKeepsTypes,
     SendKeepsTypes, EndKeepsTypes DEF dispatch
<1>5. CASE reg1 \/ Stop
  BY <1>5 DEF reg1, Stop, DInv, Types
<1>6. CASE UNCHANGED vars
  BY <1>6 DEF vars, DInv, Types
<1> QED BY <1>1, <1>2, <1>3, <1>4, <1>5, <1>6 DEF Next

-----------------------------------------------------------------------------
(* The steps keep ThreadInv *)

\* A step leaves every thread but one alone, and no entry of conns_ is removed.
LEMMA ThreadInvFrom ==
  ASSUME ThreadInv, NEW t \in Worker, \A u \in Worker : u # t => thr'[u] = thr[u],
         \A k \in Client : latest[k] # NULL => latest'[k] # NULL,
         thr'[t].pc \in {"save", "duplicate"} => thr'[t].k \in Client,
         thr'[t].pc \in {"duplicate", "handler", "choose"} /\ thr'[t].k \in Client =>
           latest'[thr'[t].k] # NULL
  PROVE  ThreadInv'
<1> SUFFICES ASSUME NEW u \in Worker
             PROVE  /\ thr'[u].pc \in {"save", "duplicate"} => thr'[u].k \in Client
                    /\ thr'[u].pc \in {"duplicate", "handler", "choose"} /\ thr'[u].k \in Client =>
                         latest'[thr'[u].k] # NULL
  BY DEF ThreadInv
<1>1. CASE u = t
  BY <1>1
<1>2. CASE u # t
  BY <1>2 DEF ThreadInv
<1> QED BY <1>1, <1>2

LEMMA StepKeepsThreadInv == DInv /\ [Next]_vars => ThreadInv'
<1> SUFFICES ASSUME DInv, [Next]_vars PROVE ThreadInv'
  OBVIOUS
<1>0. ThreadInv /\ latest \in [Client -> Conn \cup {NULL}] /\ thr \in [Worker -> Busy \cup {Idle}]
  BY DEF DInv, Types
<1>1. CASE UNCHANGED <<thr, latest>>
  BY <1>0, <1>1 DEF ThreadInv
<1>2. ASSUME NEW t \in Worker, TakeJob(t) PROVE ThreadInv'
  <2> DEFINE j == Head(jobs)
             k == j.pdu.k
  <2>1. k \in All
    BY <1>2, JobTypes DEF TakeJob, DInv
  <2>2. \E pc \in {"send_old", "end", "handler", "save"} :
          /\ thr' = [thr EXCEPT ![t] = [pc |-> pc, c |-> j.c, k |-> k, xid |-> j.pdu.xid]]
          /\ pc = "handler" => k \in Plain
          /\ pc = "save" => k \notin Plain
    BY <1>2 DEF TakeJob
  <2> HIDE DEF j, k
  <2>3. /\ \A u \in Worker : u # t => thr'[u] = thr[u]
        /\ thr'[t].pc \in {"send_old", "end", "handler", "save"} /\ thr'[t].k = k
        /\ thr'[t].pc = "handler" => k \in Plain
        /\ thr'[t].pc = "save" => k \notin Plain
    BY <1>0, <2>2
  <2>4. latest' = latest
    BY <1>2 DEF TakeJob
  <2> QED BY <1>0, <2>1, <2>3, <2>4, ThreadInvFrom DEF All
<1>3. ASSUME NEW t \in Worker, SaveLatest(t) PROVE ThreadInv'
  <2>1. /\ thr'[t].pc = "duplicate" /\ thr'[t].k = thr[t].k
        /\ \A u \in Worker : u # t => thr'[u] = thr[u]
    BY <1>3, GotoKeepsTypes DEF SaveLatest, DInv
  <2>2. thr[t].k \in Client /\ thr[t].c \in Conn
    BY <1>0, <1>3, HeldIsOpen DEF SaveLatest, ThreadInv, Busy
  <2>3. latest'[thr[t].k] # NULL /\ \A k \in Client : latest[k] # NULL => latest'[k] # NULL
    BY <1>0, <1>3, <2>2 DEF SaveLatest
  <2> QED BY <1>0, <2>1, <2>2, <2>3, ThreadInvFrom
<1>4. ASSUME NEW t \in Worker, checkduplicate(t) \/ Handler(t) PROVE ThreadInv'
  <2>1. /\ thr'[t].pc \notin {"save", "duplicate"} /\ thr'[t].k = thr[t].k
        /\ \A u \in Worker : u # t => thr'[u] = thr[u]
    BY <1>4, GotoKeepsTypes DEF checkduplicate, Handler, DInv
  <2>2. latest' = latest /\ thr[t].pc \in {"duplicate", "handler"}
    BY <1>4 DEF checkduplicate, Handler
  <2>3. thr[t].k \in Client => latest'[thr[t].k] # NULL
    BY <1>0, <2>2 DEF ThreadInv
  <2> QED BY <1>0, <2>1, <2>2, <2>3, ThreadInvFrom
<1>5. ASSUME NEW t \in Worker, ChooseLatest(t) \/ Send(t) \/ End(t) PROVE ThreadInv'
  <2>1. thr[t].pc # "idle" /\ thr[t] \in Busy /\ latest' = latest
    BY <1>5, HeldIsOpen DEF ChooseLatest, Send, End
  <2>2. \/ thr' = [thr EXCEPT ![t].pc = "send"]
        \/ thr' = [thr EXCEPT ![t].pc = "end"]
        \/ thr' = [thr EXCEPT ![t].pc = "send", ![t].c = latest[thr[t].k]]
        \/ thr' = [thr EXCEPT ![t] = Idle]
    BY <1>5 DEF ChooseLatest, Send, End, Goto
  <2>3. thr'[t].pc \in {"send", "end", "idle"} /\ \A u \in Worker : u # t => thr'[u] = thr[u]
    BY <1>0, <2>1, <2>2 DEF Idle, Busy
  <2> QED BY <1>0, <2>1, <2>3, ThreadInvFrom
<1>6. ASSUME NEW t \in Worker, dispatch(t) PROVE ThreadInv'
  <2>1. CASE ChooseNull(t)
    BY <1>1, <2>1 DEF ChooseNull, Crash
  <2> QED BY <1>2, <1>3, <1>4, <1>5, <1>6, <2>1 DEF dispatch
<1>7. ASSUME NEW k \in All, Call(k) \/ Transmit(k) \/ GiveUp(k) \/ \E c \in Conn : Connect(k, c)
      PROVE  ThreadInv'
  BY <1>1, <1>7 DEF Call, Transmit, GiveUp, Connect
<1>8. ASSUME NEW c \in Conn, Cut(c) \/ Notice(c) \/ got_pdu(c) \/ CloseConn(c)
      PROVE  ThreadInv'
  BY <1>1, <1>8 DEF Cut, Notice, got_pdu, CloseConn
<1>9. CASE reg1 \/ Stop \/ UNCHANGED vars
  BY <1>1, <1>9 DEF reg1, Stop, vars
<1> QED BY <1>6, <1>7, <1>8, <1>9 DEF Next

-----------------------------------------------------------------------------
(* The steps keep RefInv *)

\* The counts of one connection: what RefInv says of it, as a relation of numbers.
Exact(st, refno, holders, leaks) ==
  /\ st = "open" => refno = holders + leaks
  /\ st # "open" => holders = 0
  /\ st = "none" => leaks = 0

LEMMA RefInvAt ==
  /\ RefInv <=> \A d \in Conn : Exact(conn[d].st, conn[d].refno, Holders(d), leaked[d])
  /\ RefInv' <=> \A d \in Conn : Exact(conn'[d].st, conn'[d].refno, Holders(d)', leaked'[d])
BY DEF RefInv, Exact

\* A holder gives its reference up; a reference is added.
LEMMA ExactDrop ==
  ASSUME NEW r, NEW h \in Nat, h > 0, NEW l \in Nat, Exact("open", r, h, l), NEW st2, NEW r2,
         \/ r = 1 /\ st2 = "deleted"
         \/ st2 = "open" /\ r2 = r - 1
  PROVE  Exact(st2, r2, h - 1, l)
<1>1. r = h + l
  BY DEF Exact
<1>2. CASE r = 1 /\ st2 = "deleted"
  BY <1>1, <1>2 DEF Exact
<1>3. CASE st2 = "open" /\ r2 = r - 1
  BY <1>1, <1>3 DEF Exact
<1> QED BY <1>2, <1>3

LEMMA ExactAdd ==
  ASSUME NEW r, NEW h \in Nat, NEW l \in Nat, Exact("open", r, h, l)
  PROVE  Exact("open", r + 1, h + 1, l)
BY DEF Exact

\* A step that moves no reference.
LEMMA NoRefMoves ==
  ASSUME RefInv, UNCHANGED <<table, latest, jobs, leaked>>,
         \A t \in Worker : thr'[t].c = thr[t].c,
         \A d \in Conn : conn'[d].st = conn[d].st /\ conn'[d].refno = conn[d].refno
  PROVE  RefInv'
<1>1. \A d \in Conn : Holders(d)' = Holders(d)
  <2> TAKE d \in Conn
  <2>1. ThrAt(thr', d) = ThrAt(thr, d)
    BY DEF ThrAt
  <2> QED BY <2>1, HoldersSum
<1> QED BY <1>1, RefInvAt

\* The change of Holders is the sum of the changes of its parts.
LEMMA Balance ==
  ASSUME Types, Types', NEW d, NEW dt \in Int, NEW dl \in Int, NEW dj \in Int, NEW dw \in Int,
         Ind(d \in table') = Ind(d \in table) + dt,
         Cardinality(LatestAt(latest', d)) = Cardinality(LatestAt(latest, d)) + dl,
         Cardinality(JobsAt(jobs', d)) = Cardinality(JobsAt(jobs, d)) + dj,
         Cardinality(ThrAt(thr', d)) = Cardinality(ThrAt(thr, d)) + dw
  PROVE  /\ Holders(d) \in Nat /\ Holders(d)' \in Nat
         /\ Holders(d)' = Holders(d) + dt + dl + dj + dw
<1>1. jobs \in Seq(Job) /\ jobs' \in Seq(Job)
  BY DEF Types
<1>2. Ind(d \in table) \in Nat /\ Ind(d \in table') \in Nat
  BY DEF Ind
<1>3. Cardinality(LatestAt(latest, d)) \in Nat /\ Cardinality(JobsAt(jobs, d)) \in Nat
      /\ Cardinality(ThrAt(thr, d)) \in Nat
  BY <1>1, CountTypes
<1>4. Cardinality(LatestAt(latest', d)) \in Nat /\ Cardinality(JobsAt(jobs', d)) \in Nat
      /\ Cardinality(ThrAt(thr', d)) \in Nat
  BY <1>1, CountTypes
<1>5. /\ Holders(d) = Ind(d \in table) + Cardinality(LatestAt(latest, d))
                       + Cardinality(JobsAt(jobs, d)) + Cardinality(ThrAt(thr, d))
      /\ Holders(d)' = Ind(d \in table') + Cardinality(LatestAt(latest', d))
                        + Cardinality(JobsAt(jobs', d)) + Cardinality(ThrAt(thr', d))
  BY HoldersSum
<1>6. \A a, b, e, f \in Nat :
        a + b + e + f \in Nat
        /\ (a + dt) + (b + dl) + (e + dj) + (f + dw) = (a + b + e + f) + dt + dl + dj + dw
  OBVIOUS
<1>7. Holders(d) \in Nat /\ Holders(d)' \in Nat
  BY <1>2, <1>3, <1>4, <1>5, <1>6
<1> QED BY <1>2, <1>3, <1>5, <1>6, <1>7

\* A thread exchanges its reference for another one, or drops it.
LEMMA ThreadMoves ==
  ASSUME Types, Types', UNCHANGED <<table, latest, jobs>>, NEW t \in Worker,
         \A u \in Worker : u # t => thr'[u] = thr[u], NEW d
  PROVE  /\ Holders(d) \in Nat /\ Holders(d)' \in Nat
         /\ Holders(d)' = Holders(d) + Ind(thr'[t].c = d) - Ind(thr[t].c = d)
<1>1. jobs \in Seq(Job)
  BY DEF Types
<1>2. Cardinality(LatestAt(latest, d)) \in Nat /\ Cardinality(JobsAt(jobs, d)) \in Nat
      /\ Cardinality(ThrAt(thr, d)) \in Nat
  BY <1>1, CountTypes
<1>3. Cardinality(ThrAt(thr', d))
        = Cardinality(ThrAt(thr, d)) + Ind(thr'[t].c = d) - Ind(thr[t].c = d)
  BY ThreadChanges
<1>4. Ind(thr'[t].c = d) \in Int /\ Ind(thr[t].c = d) \in Int /\ Ind(d \in table) \in Nat
  BY DEF Ind
<1>5. Cardinality(ThrAt(thr', d)) \in Nat
  BY <1>1, CountTypes
<1>6. /\ Holders(d) = Ind(d \in table) + Cardinality(LatestAt(latest, d))
                       + Cardinality(JobsAt(jobs, d)) + Cardinality(ThrAt(thr, d))
      /\ Holders(d)' = Ind(d \in table) + Cardinality(LatestAt(latest, d))
                        + Cardinality(JobsAt(jobs, d)) + Cardinality(ThrAt(thr', d))
  BY HoldersSum
<1>7. \A a, b, e, f, f2 \in Nat, x, y \in Int :
        /\ a + b + e + f \in Nat
        /\ f2 = f + x - y => a + b + e + f2 = (a + b + e + f) + x - y
  OBVIOUS
<1> QED BY <1>2, <1>3, <1>4, <1>5, <1>6, <1>7

LEMMA ConnectKeepsRefInv ==
  ASSUME DInv, Types', NEW k \in All, NEW c \in Conn, Connect(k, c)
  PROVE  RefInv'
<1>1. PICK gone \in SUBSET Garbage, born \in Nat :
        /\ conn' = [d \in Conn |->
                      IF d = c THEN [NoConn("open") EXCEPT !.refno = 1, !.born = born]
                      ELSE IF d \in gone THEN NoConn("deleted") ELSE conn[d]]
        /\ table' = (table \ gone) \cup {c}
  <2>1. \A now \in Now, tick \in {0, 1} : now + tick \in Nat
    BY DEF DInv, Types, Now, Record
  <2> QED BY <2>1 DEF Connect
<1>2. UNCHANGED <<latest, jobs, thr, leaked>> /\ conn[c].st = "none"
  BY DEF Connect
<1>3. c \notin table /\ Holders(c) = 0 /\ leaked[c] = 0
  BY <1>2, HeldIsOpen DEF DInv, RefInv
<1>4. \A d \in gone : d \in table /\ d \in Conn /\ conn[d].refno = 1 /\ conn[d].st = "open" /\ d # c
  BY <1>2, HeldIsOpen DEF Garbage, DInv, Types
<1> SUFFICES ASSUME NEW d \in Conn
             PROVE  Exact(conn'[d].st, conn'[d].refno, Holders(d)', leaked'[d])
  BY RefInvAt
<1>5. Exact(conn[d].st, conn[d].refno, Holders(d), leaked[d])
      /\ Holders(d) \in Nat /\ leaked[d] \in Nat /\ (d \in table => Holders(d) > 0)
  BY HeldIsOpen, RefInvAt DEF DInv, Types
<1>6. ASSUME NEW dt \in Int, Ind(d \in table') = Ind(d \in table) + dt
      PROVE  Holders(d)' = Holders(d) + dt
  <2>1. jobs \in Seq(Job) /\ Types
    BY DEF DInv, Types
  <2>2. Cardinality(LatestAt(latest, d)) \in Nat /\ Cardinality(JobsAt(jobs, d)) \in Nat
        /\ Cardinality(ThrAt(thr, d)) \in Nat
    BY <2>1, CountTypes
  <2>3. /\ Cardinality(LatestAt(latest', d)) = Cardinality(LatestAt(latest, d)) + 0
        /\ Cardinality(JobsAt(jobs', d)) = Cardinality(JobsAt(jobs, d)) + 0
        /\ Cardinality(ThrAt(thr', d)) = Cardinality(ThrAt(thr, d)) + 0
    BY <1>2, <2>2
  <2>4. Holders(d)' = Holders(d) + dt + 0 + 0 + 0
    BY <1>6, <2>1, <2>3, Balance
  <2> QED BY <1>5, <2>4
<1>7. CASE d = c
  <2>1. conn'[d].st = "open" /\ conn'[d].refno = 1
    BY <1>1, <1>7 DEF NoConn
  <2>2. Ind(d \in table') = Ind(d \in table) + 1
    BY <1>1, <1>3, <1>7 DEF Ind
  <2>3. Holders(d)' = Holders(d) + 1
    BY <1>6, <2>2
  <2> QED BY <1>2, <1>3, <1>7, <2>1, <2>3 DEF Exact
<1>8. CASE d \in gone
  <2>1. conn'[d].st = "deleted"
    BY <1>1, <1>4, <1>8 DEF NoConn
  <2>2. Ind(d \in table') = Ind(d \in table) + (-1)
    BY <1>1, <1>4, <1>8 DEF Ind
  <2>3. Holders(d)' = Holders(d) + (-1)
    BY <1>6, <2>2
  <2>4. Holders(d) = 1
    BY <1>4, <1>5, <1>8 DEF Exact
  <2> QED BY <2>1, <2>3, <2>4 DEF Exact
<1>9. CASE d # c /\ d \notin gone
  <2>1. conn'[d] = conn[d] /\ leaked'[d] = leaked[d]
    BY <1>1, <1>2, <1>9
  <2>2. Ind(d \in table') = Ind(d \in table) + 0
    BY <1>1, <1>9 DEF Ind
  <2>3. Holders(d)' = Holders(d) + 0
    BY <1>6, <2>2
  <2> QED BY <1>5, <2>1, <2>3 DEF Exact
<1> QED BY <1>7, <1>8, <1>9

\* Only the table changes.
LEMMA TableMoves ==
  ASSUME Types, Types', UNCHANGED <<latest, jobs, thr>>, NEW d
  PROVE  /\ Holders(d) \in Nat /\ Holders(d)' \in Nat
         /\ Holders(d)' = Holders(d) + Ind(d \in table') - Ind(d \in table)
<1>1. jobs \in Seq(Job)
  BY DEF Types
<1>2. Cardinality(LatestAt(latest, d)) \in Nat /\ Cardinality(JobsAt(jobs, d)) \in Nat
      /\ Cardinality(ThrAt(thr, d)) \in Nat
  BY <1>1, CountTypes
<1>3. Ind(d \in table') \in Nat /\ Ind(d \in table) \in Nat
  BY DEF Ind
<1>4. /\ Holders(d) = Ind(d \in table) + Cardinality(LatestAt(latest, d))
                       + Cardinality(JobsAt(jobs, d)) + Cardinality(ThrAt(thr, d))
      /\ Holders(d)' = Ind(d \in table') + Cardinality(LatestAt(latest, d))
                        + Cardinality(JobsAt(jobs, d)) + Cardinality(ThrAt(thr, d))
  BY HoldersSum
<1>5. \A a, a2, b, e, f \in Nat :
        a + b + e + f \in Nat /\ a2 + b + e + f = (a + b + e + f) + a2 - a
  OBVIOUS
<1> QED BY <1>2, <1>3, <1>4, <1>5

LEMMA got_pduKeepsRefInv ==
  ASSUME DInv, Types', NEW c \in Conn, got_pdu(c)
  PROVE  RefInv'
<1>1. Types /\ jobs \in Seq(Job) /\ conn \in [Conn -> Record]
  BY DEF DInv, Types
<1>2. UNCHANGED <<table, latest, thr, leaked>> /\ conn[c].st = "open"
  BY DEF got_pdu, Open
<1> DEFINE j == [c |-> c, pdu |-> conn[c].pdu]
<1>3. jobs' = Append(jobs, j) /\ j.c = c
  BY DEF got_pdu
<1>4. j \in Job
  BY <1>1 DEF got_pdu, Record, Job
<1> HIDE DEF j
<1>5. /\ \A d \in Conn : d # c => conn'[d] = conn[d]
      /\ conn'[c].st = conn[c].st /\ conn'[c].refno = conn[c].refno + 1
  <2>1. /\ incref(conn, c) \in [Conn -> Record]
        /\ \A d \in Conn : d # c => incref(conn, c)[d] = conn[d]
        /\ incref(conn, c)[c].st = conn[c].st /\ incref(conn, c)[c].refno = conn[c].refno + 1
    BY <1>1, Incref
  <2>2. conn' = [incref(conn, c) EXCEPT ![c] = [incref(conn, c)[c] EXCEPT !.pdu = NULL]]
    BY DEF got_pdu
  <2>3. /\ conn'[c] = [incref(conn, c)[c] EXCEPT !.pdu = NULL]
        /\ \A d \in Conn : d # c => conn'[d] = incref(conn, c)[d]
    BY <2>1, <2>2
  <2>4. [incref(conn, c)[c] EXCEPT !.pdu = NULL].st = incref(conn, c)[c].st
        /\ [incref(conn, c)[c] EXCEPT !.pdu = NULL].refno = incref(conn, c)[c].refno
    BY <2>1 DEF Record
  <2> QED BY <2>1, <2>3, <2>4
<1> SUFFICES ASSUME NEW d \in Conn
             PROVE  Exact(conn'[d].st, conn'[d].refno, Holders(d)', leaked'[d])
  BY RefInvAt
<1>6. Exact(conn[d].st, conn[d].refno, Holders(d), leaked[d])
      /\ Holders(d) \in Nat /\ leaked[d] \in Nat
  BY HeldIsOpen, RefInvAt DEF DInv, Types
<1>7. Cardinality(JobsAt(jobs', d)) = Cardinality(JobsAt(jobs, d)) + Ind(c = d)
  BY <1>1, <1>3, <1>4, JobAdded
<1>8. Cardinality(LatestAt(latest, d)) \in Nat /\ Cardinality(JobsAt(jobs, d)) \in Nat
      /\ Cardinality(ThrAt(thr, d)) \in Nat
  BY <1>1, CountTypes
<1>9. /\ Holders(d) = Ind(d \in table) + Cardinality(LatestAt(latest, d))
                       + Cardinality(JobsAt(jobs, d)) + Cardinality(ThrAt(thr, d))
      /\ Holders(d)' = Ind(d \in table) + Cardinality(LatestAt(latest, d))
                        + (Cardinality(JobsAt(jobs, d)) + Ind(c = d)) + Cardinality(ThrAt(thr, d))
  BY <1>2, <1>7, HoldersSum
<1>10. Holders(d)' = Holders(d) + Ind(c = d)
  <2>1. \A a, b, e, f, i \in Nat : a + b + (e + i) + f = (a + b + e + f) + i
    OBVIOUS
  <2>2. Ind(d \in table) \in Nat /\ Ind(c = d) \in Nat
    BY DEF Ind
  <2> QED BY <1>8, <1>9, <2>1, <2>2
<1>11. CASE d = c
  BY <1>2, <1>5, <1>6, <1>10, <1>11 DEF Exact, Ind
<1>12. CASE d # c
  BY <1>2, <1>5, <1>6, <1>10, <1>12 DEF Exact, Ind
<1> QED BY <1>11, <1>12

LEMMA CloseConnKeepsRefInv ==
  ASSUME DInv, Types', NEW c \in Conn, CloseConn(c)
  PROVE  RefInv'
<1> DEFINE f == [conn EXCEPT ![c].dead = TRUE, ![c].cut = TRUE, ![c].pdu = NULL]
<1>1. conn \in [Conn -> Record] /\ conn[c] \in Record /\ Types
  BY DEF DInv, Types
<1>2. [conn[c] EXCEPT !.dead = TRUE, !.cut = TRUE, !.pdu = NULL] \in Record
  BY <1>1 DEF Record
<1>3. /\ f \in [Conn -> Record] /\ f[c].refno = conn[c].refno /\ f[c].st = conn[c].st
      /\ \A d \in Conn : d # c => f[d] = conn[d]
  BY <1>1, <1>2 DEF Record
<1>4. conn' = decref(f, c)
  BY DEF CloseConn
<1> HIDE DEF f
<1>5. c \in table /\ table' = table \ {c} /\ UNCHANGED <<latest, jobs, thr, leaked>>
  BY DEF CloseConn
<1>6. conn[c].refno > 0
  BY <1>5, HeldIsCounted
<1>7. /\ \A d \in Conn : d # c => conn'[d] = conn[d]
      /\ \/ conn[c].refno = 1 /\ conn'[c] = NoConn("deleted")
         \/ conn'[c].st = conn[c].st /\ conn'[c].refno = conn[c].refno - 1
  BY <1>3, <1>4, <1>6, Decref
<1> SUFFICES ASSUME NEW d \in Conn
             PROVE  Exact(conn'[d].st, conn'[d].refno, Holders(d)', leaked'[d])
  BY RefInvAt
<1>8. Exact(conn[d].st, conn[d].refno, Holders(d), leaked[d])
      /\ Holders(d) \in Nat /\ leaked[d] \in Nat /\ (d \in table => Holders(d) > 0)
  BY HeldIsOpen, RefInvAt DEF DInv, Types
<1>9. Holders(d)' = Holders(d) + Ind(d \in table') - Ind(d \in table)
  BY <1>1, <1>5, TableMoves
<1>10. CASE d = c
  <2>1. Holders(d)' = Holders(d) - 1
    BY <1>5, <1>8, <1>9, <1>10 DEF Ind
  <2>2. conn[d].st = "open"
    BY <1>5, <1>10, HeldIsOpen
  <2>3. \/ conn[d].refno = 1 /\ conn'[d].st = "deleted"
        \/ conn'[d].st = "open" /\ conn'[d].refno = conn[d].refno - 1
    BY <1>7, <1>10, <2>2 DEF NoConn
  <2>4. Exact("open", conn[d].refno, Holders(d), leaked[d]) /\ Holders(d) > 0
    BY <1>5, <1>8, <1>10, <2>2
  <2>5. Exact(conn'[d].st, conn'[d].refno, Holders(d) - 1, leaked[d])
    BY <1>8, <2>3, <2>4, ExactDrop
  <2> QED BY <1>5, <2>1, <2>5
<1>11. CASE d # c
  <2>1. Holders(d)' = Holders(d)
    BY <1>5, <1>8, <1>9, <1>11 DEF Ind
  <2> QED BY <1>5, <1>7, <1>8, <1>11, <2>1
<1> QED BY <1>10, <1>11

LEMMA TakeJobKeepsRefInv ==
  ASSUME DInv, Types', NEW t \in Worker, TakeJob(t)
  PROVE  RefInv'
<1>1. Types /\ jobs \in Seq(Job) /\ jobs # <<>> /\ thr \in [Worker -> Busy \cup {Idle}]
  BY DEF DInv, Types, TakeJob
<1>2. thr[t].pc = "idle" /\ thr[t].c = NULL
  BY <1>1 DEF TakeJob, Busy, Idle
<1>3. UNCHANGED <<conn, table, latest, leaked>> /\ jobs' = Tail(jobs)
  BY DEF TakeJob
<1>4. thr'[t].c = Head(jobs).c /\ \A u \in Worker \ {t} : thr'[u] = thr[u]
  BY <1>1 DEF TakeJob
<1>5. \A d \in Conn : Holders(d)' = Holders(d)
  <2> TAKE d \in Conn
  <2> DEFINE h == Ind(Head(jobs).c = d)
  <2>1. Cardinality(JobsAt(jobs', d)) = Cardinality(JobsAt(jobs, d)) - h
    BY <1>1, <1>3, JobTaken
  <2>2. Cardinality(ThrAt(thr', d)) = Cardinality(ThrAt(thr, d)) + h - Ind(NULL = d)
    <3>1. Cardinality(ThrAt(thr', d))
            = Cardinality(ThrAt(thr, d)) + Ind(thr'[t].c = d) - Ind(thr[t].c = d)
      BY <1>4, ThreadChanges
    <3> QED BY <1>2, <1>4, <3>1
  <2>3. Ind(NULL = d) = 0 /\ h \in Nat /\ Ind(d \in table) \in Nat
    BY DEF Ind
  <2> HIDE DEF h
  <2>4. Cardinality(LatestAt(latest, d)) \in Nat /\ Cardinality(JobsAt(jobs, d)) \in Nat
        /\ Cardinality(ThrAt(thr, d)) \in Nat
    BY <1>1, CountTypes
  <2>5. /\ Holders(d) = Ind(d \in table) + Cardinality(LatestAt(latest, d))
                         + Cardinality(JobsAt(jobs, d)) + Cardinality(ThrAt(thr, d))
        /\ Holders(d)' = Ind(d \in table) + Cardinality(LatestAt(latest, d))
                          + Cardinality(JobsAt(jobs', d)) + Cardinality(ThrAt(thr', d))
    BY <1>3, HoldersSum
  <2>6. \A a, b, e, f, i \in Nat : a + b + (e - i) + (f + i - 0) = a + b + e + f
    OBVIOUS
  <2> QED BY <2>1, <2>2, <2>3, <2>4, <2>5, <2>6
<1> QED BY <1>3, <1>5, RefInvAt DEF DInv

LEMMA SaveLatestKeepsRefInv ==
  ASSUME DInv, Types', NEW t \in Worker, SaveLatest(t)
  PROVE  RefInv'
<1>1. Types /\ conn \in [Conn -> Record] /\ latest \in [Client -> Conn \cup {NULL}]
      /\ jobs \in Seq(Job)
  BY DEF DInv, Types
<1>2. PICK c \in Conn, k \in Client : c = thr[t].c /\ k = thr[t].k
  BY HeldIsOpen DEF SaveLatest, DInv, ThreadInv, Busy
<1>3. thr[t].pc # "idle" /\ conn[c].st = "open"
  BY <1>2, HeldIsOpen DEF SaveLatest
<1>4. UNCHANGED <<table, jobs, leaked>>
  BY DEF SaveLatest
<1>5. \A u \in Worker : thr'[u].c = thr[u].c
  BY <1>1, GotoKeepsTypes DEF SaveLatest
<1>6. CASE UNCHANGED <<conn, latest>>
  BY <1>4, <1>5, <1>6, NoRefMoves DEF DInv
<1>7. CASE latest' = [latest EXCEPT ![k] = c]
           /\ \/ latest[k] = NULL /\ conn' = incref(conn, c)
              \/ /\ latest[k] # NULL /\ latest[k] # c
                 /\ conn' = incref(decref(conn, latest[k]), c)
  <2> SUFFICES ASSUME NEW d \in Conn
               PROVE  Exact(conn'[d].st, conn'[d].refno, Holders(d)', leaked'[d])
    BY RefInvAt
  <2>1. Exact(conn[d].st, conn[d].refno, Holders(d), leaked[d])
        /\ Holders(d) \in Nat /\ leaked[d] \in Nat /\ (latest[k] = d => Holders(d) > 0)
    BY HeldIsOpen, RefInvAt DEF DInv, Types
  <2>2. Cardinality(LatestAt(latest', d))
          = Cardinality(LatestAt(latest, d)) + Ind(c = d) - Ind(latest[k] = d)
    <3>1. latest'[k] = c /\ \A x \in Client \ {k} : latest'[x] = latest[x]
      BY <1>1, <1>7
    <3> QED BY <3>1, LatestChanges
  <2>3. Holders(d)' = Holders(d) + Ind(c = d) - Ind(latest[k] = d)
    <3>1. ThrAt(thr', d) = ThrAt(thr, d)
      BY <1>5 DEF ThrAt
    <3>2. Cardinality(LatestAt(latest, d)) \in Nat /\ Cardinality(JobsAt(jobs, d)) \in Nat
          /\ Cardinality(ThrAt(thr, d)) \in Nat
      BY <1>1, CountTypes
    <3>3. /\ Holders(d) = Ind(d \in table) + Cardinality(LatestAt(latest, d))
                           + Cardinality(JobsAt(jobs, d)) + Cardinality(ThrAt(thr, d))
          /\ Holders(d)' = Ind(d \in table) + Cardinality(LatestAt(latest', d))
                            + Cardinality(JobsAt(jobs, d)) + Cardinality(ThrAt(thr, d))
      BY <1>4, <3>1, HoldersSum
    <3>4. \A a, b, e, f, x, y \in Nat : a + (b + x - y) + e + f = (a + b + e + f) + x - y
      OBVIOUS
    <3>5. Ind(d \in table) \in Nat /\ Ind(c = d) \in Nat /\ Ind(latest[k] = d) \in Nat
      BY DEF Ind
    <3> QED BY <2>2, <3>2, <3>3, <3>4, <3>5
  <2>4. PICK f \in [Conn -> Record] :
          /\ conn' = incref(f, c) /\ f[c] = conn[c]
          /\ d # latest[k] => f[d] = conn[d]
          /\ d = latest[k] => /\ d # c
                              /\ \/ conn[d].refno = 1 /\ f[d].st = "deleted"
                                 \/ f[d].st = conn[d].st /\ f[d].refno = conn[d].refno - 1
    <3>1. CASE latest[k] = NULL
      BY <1>1, <1>7, <3>1
    <3>2. CASE latest[k] # NULL
      <4>1. latest[k] \in Conn /\ conn[latest[k]].refno > 0
        BY <1>1, <3>2, HeldIsCounted
      <4>2. PICK o \in Conn : o = latest[k]
        BY <4>1
      <4>3. /\ decref(conn, o) \in [Conn -> Record]
            /\ \A e \in Conn : e # o => decref(conn, o)[e] = conn[e]
            /\ \/ conn[o].refno = 1 /\ decref(conn, o)[o] = NoConn("deleted")
               \/ decref(conn, o)[o].st = conn[o].st
                  /\ decref(conn, o)[o].refno = conn[o].refno - 1
        BY <1>1, <4>1, <4>2, Decref
      <4>4. conn' = incref(decref(conn, o), c) /\ o # c
        BY <1>7, <3>2, <4>2
      <4>5. NoConn("deleted").st = "deleted"
        BY DEF NoConn
      <4> QED BY <4>2, <4>3, <4>4, <4>5
    <3> QED BY <3>1, <3>2
  <2>5. /\ \A e \in Conn : e # c => conn'[e] = f[e]
        /\ conn'[c].st = f[c].st /\ conn'[c].refno = f[c].refno + 1
    BY <2>4, Incref
  <2>6. CASE d = c
    <3>1. Holders(d)' = Holders(d) + 1
      <4>1. latest[k] # d
        BY <2>4, <2>6
      <4> QED BY <2>1, <2>3, <2>6, <4>1 DEF Ind
    <3>2. conn'[d].st = "open" /\ conn'[d].refno = conn[d].refno + 1
      BY <1>3, <2>4, <2>5, <2>6
    <3>3. Exact("open", conn[d].refno + 1, Holders(d) + 1, leaked[d])
      BY <1>3, <2>1, <2>6, ExactAdd
    <3> QED BY <1>4, <3>1, <3>2, <3>3
  <2>7. CASE d = latest[k] /\ d # c
    <3>1. Holders(d)' = Holders(d) - 1
      BY <2>1, <2>3, <2>7 DEF Ind
    <3>2. conn[d].st = "open"
      BY <2>7, HeldIsOpen
    <3>3. \/ conn[d].refno = 1 /\ conn'[d].st = "deleted"
          \/ conn'[d].st = "open" /\ conn'[d].refno = conn[d].refno - 1
      BY <2>4, <2>5, <2>7, <3>2
    <3>4. Exact("open", conn[d].refno, Holders(d), leaked[d]) /\ Holders(d) > 0
      BY <2>1, <2>7, <3>2
    <3>5. Exact(conn'[d].st, conn'[d].refno, Holders(d) - 1, leaked[d])
      BY <2>1, <3>3, <3>4, ExactDrop
    <3> QED BY <1>4, <3>1, <3>5
  <2>8. CASE d # latest[k] /\ d # c
    <3>1. Holders(d)' = Holders(d)
      BY <2>1, <2>3, <2>8 DEF Ind
    <3>2. conn'[d] = conn[d]
      BY <2>4, <2>5, <2>8
    <3> QED BY <1>4, <2>1, <3>1, <3>2
  <2> QED BY <2>6, <2>7, <2>8
<1>8. Older(c, c) = FALSE
  BY <1>1 DEF Older, Record
<1> QED BY <1>2, <1>6, <1>7, <1>8 DEF SaveLatest

LEMMA ChooseLatestKeepsRefInv ==
  ASSUME DInv, Types', NEW t \in Worker, ChooseLatest(t)
  PROVE  RefInv'
<1>1. Types /\ conn \in [Conn -> Record] /\ thr \in [Worker -> Busy \cup {Idle}]
  BY DEF DInv, Types
<1>2. PICK c \in Conn : c = thr[t].c
  BY HeldIsOpen DEF ChooseLatest, Busy
<1>3. conn[c].st = "open" /\ conn[c].refno > 0 /\ Holders(c) > 0 /\ thr[t] \in Busy
      /\ thr[t].pc = "choose"
  BY <1>2, HeldIsOpen, HeldIsCounted DEF ChooseLatest
<1>4. UNCHANGED <<table, latest, jobs, leaked>>
  BY DEF ChooseLatest
<1>5. CASE Goto(t, "send") /\ UNCHANGED conn
  <2>1. \A u \in Worker : thr'[u].c = thr[u].c
    BY <1>1, <1>3, <1>5, GotoKeepsTypes
  <2> QED BY <1>4, <1>5, <2>1, NoRefMoves DEF DInv
<1>6. CASE /\ thr[t].k \in Client /\ latest[thr[t].k] # c
           /\ conn' = incref(decref(conn, c), latest[thr[t].k])
           /\ thr' = [thr EXCEPT ![t].pc = "send", ![t].c = latest[thr[t].k]]
  <2>1. PICK n \in Conn : n = latest[thr[t].k]
    BY <1>3, <1>6 DEF DInv, ThreadInv, Types
  <2>2. n # c /\ conn' = incref(decref(conn, c), n)
    BY <1>6, <2>1
  <2>3. thr'[t].c = n /\ \A u \in Worker : u # t => thr'[u] = thr[u]
    BY <1>1, <1>3, <1>6, <2>1 DEF Busy
  <2>4. conn[n].st = "open"
    BY <1>6, <2>1, HeldIsOpen
  <2>5. /\ decref(conn, c) \in [Conn -> Record]
        /\ \A e \in Conn : e # c => decref(conn, c)[e] = conn[e]
        /\ \/ conn[c].refno = 1 /\ decref(conn, c)[c].st = "deleted"
           \/ decref(conn, c)[c].st = "open"
              /\ decref(conn, c)[c].refno = conn[c].refno - 1
    BY <1>1, <1>3, Decref DEF NoConn
  <2>6. /\ \A e \in Conn : e # n => conn'[e] = decref(conn, c)[e]
        /\ conn'[n].st = "open" /\ conn'[n].refno = conn[n].refno + 1
    BY <2>2, <2>4, <2>5, Incref
  <2> SUFFICES ASSUME NEW d \in Conn
               PROVE  Exact(conn'[d].st, conn'[d].refno, Holders(d)', leaked'[d])
    BY RefInvAt
  <2>7. Exact(conn[d].st, conn[d].refno, Holders(d), leaked[d])
        /\ Holders(d) \in Nat /\ leaked[d] \in Nat
    BY HeldIsOpen, RefInvAt DEF DInv, Types
  <2>8. Holders(d)' = Holders(d) + Ind(n = d) - Ind(c = d)
    <3>1. Holders(d)' = Holders(d) + Ind(thr'[t].c = d) - Ind(thr[t].c = d)
      BY <1>1, <1>4, <2>3, ThreadMoves
    <3> QED BY <1>2, <2>3, <3>1
  <2>9. CASE d = c
    <3>1. Holders(d)' = Holders(d) - 1
      BY <2>2, <2>7, <2>8, <2>9 DEF Ind
    <3>2. Exact(conn'[d].st, conn'[d].refno, Holders(d) - 1, leaked[d])
      <4>1. \/ conn[d].refno = 1 /\ conn'[d].st = "deleted"
            \/ conn'[d].st = "open" /\ conn'[d].refno = conn[d].refno - 1
        BY <2>2, <2>5, <2>6, <2>9
      <4>2. Exact("open", conn[d].refno, Holders(d), leaked[d]) /\ Holders(d) > 0
        BY <1>3, <2>7, <2>9
      <4> QED BY <2>7, <4>1, <4>2, ExactDrop
    <3> QED BY <1>4, <3>1, <3>2
  <2>10. CASE d = n
    <3>1. Holders(d)' = Holders(d) + 1
      BY <2>2, <2>7, <2>8, <2>10 DEF Ind
    <3>2. Exact("open", conn[d].refno + 1, Holders(d) + 1, leaked[d])
      BY <2>4, <2>7, <2>10, ExactAdd
    <3> QED BY <1>4, <2>6, <2>10, <3>1, <3>2
  <2>11. CASE d # c /\ d # n
    <3>1. Holders(d)' = Holders(d)
      BY <2>7, <2>8, <2>11 DEF Ind
    <3> QED BY <1>4, <2>5, <2>6, <2>7, <2>11, <3>1
  <2> QED BY <2>9, <2>10, <2>11
<1> QED BY <1>2, <1>5, <1>6 DEF ChooseLatest

LEMMA SendKeepsRefInv ==
  ASSUME DInv, Types', NEW t \in Worker, Send(t)
  PROVE  RefInv'
<1>1. Types /\ conn \in [Conn -> Record] /\ thr \in [Worker -> Busy \cup {Idle}]
      /\ leaked \in [Conn -> Nat]
  BY DEF DInv, Types
<1>2. PICK c \in Conn : c = thr[t].c
  BY HeldIsOpen DEF Send, Busy
<1>3. conn[c].st = "open" /\ Holders(c) > 0 /\ thr[t] \in Busy /\ thr[t].pc # "idle"
  BY <1>2, HeldIsOpen DEF Send
<1>4. UNCHANGED <<table, latest, jobs>>
  BY DEF Send
<1>5. \A d \in Conn : conn'[d].st = conn[d].st /\ conn'[d].refno = conn[d].refno
  <2>1. conn' = conn \/ \E b \in BOOLEAN : conn' = [conn EXCEPT ![c] = [conn[c] EXCEPT !.dead = @ \/ b]]
    BY <1>2 DEF Send
  <2> QED BY <1>1, <2>1 DEF Record
<1>6. CASE Goto(t, "end") /\ UNCHANGED leaked
  <2>1. \A u \in Worker : thr'[u].c = thr[u].c
    BY <1>1, <1>3, <1>6, GotoKeepsTypes
  <2> QED BY <1>4, <1>5, <1>6, <2>1, NoRefMoves DEF DInv
<1>7. CASE thr' = [thr EXCEPT ![t] = Idle] /\ leaked' = [leaked EXCEPT ![thr[t].c] = @ + 1]
  <2>1. thr'[t].c = NULL /\ \A u \in Worker : u # t => thr'[u] = thr[u]
    BY <1>1, <1>7 DEF Idle
  <2>2. leaked'[c] = leaked[c] + 1 /\ \A d \in Conn : d # c => leaked'[d] = leaked[d]
    BY <1>1, <1>2, <1>7
  <2> SUFFICES ASSUME NEW d \in Conn
               PROVE  Exact(conn'[d].st, conn'[d].refno, Holders(d)', leaked'[d])
    BY RefInvAt
  <2>3. Exact(conn[d].st, conn[d].refno, Holders(d), leaked[d])
        /\ Holders(d) \in Nat /\ leaked[d] \in Nat
    BY HeldIsOpen, RefInvAt DEF DInv, Types
  <2>4. Holders(d)' = Holders(d) + Ind(NULL = d) - Ind(c = d)
    <3>1. Holders(d)' = Holders(d) + Ind(thr'[t].c = d) - Ind(thr[t].c = d)
      BY <1>1, <1>4, <2>1, ThreadMoves
    <3> QED BY <1>2, <2>1, <3>1
  <2>5. CASE d = c
    <3>1. Holders(d)' = Holders(d) - 1
      BY <2>3, <2>4, <2>5 DEF Ind
    <3> QED BY <1>3, <1>5, <2>2, <2>3, <2>5, <3>1 DEF Exact
  <2>6. CASE d # c
    <3>1. Holders(d)' = Holders(d)
      BY <2>3, <2>4, <2>6 DEF Ind
    <3> QED BY <1>5, <2>2, <2>3, <2>6, <3>1
  <2> QED BY <2>5, <2>6
<1> QED BY <1>6, <1>7 DEF Send

LEMMA EndKeepsRefInv ==
  ASSUME DInv, Types', NEW t \in Worker, End(t)
  PROVE  RefInv'
<1>1. Types /\ conn \in [Conn -> Record] /\ thr \in [Worker -> Busy \cup {Idle}]
  BY DEF DInv, Types
<1>2. PICK c \in Conn : c = thr[t].c
  BY HeldIsOpen DEF End, Busy
<1>3. conn[c].st = "open" /\ conn[c].refno > 0 /\ Holders(c) > 0
  BY <1>2, HeldIsOpen, HeldIsCounted DEF End
<1>4. UNCHANGED <<table, latest, jobs, leaked>> /\ conn' = decref(conn, c)
  BY <1>2 DEF End
<1>5. thr'[t].c = NULL /\ \A u \in Worker : u # t => thr'[u] = thr[u]
  BY <1>1 DEF End, Idle
<1>6. /\ \A e \in Conn : e # c => conn'[e] = conn[e]
      /\ \/ conn[c].refno = 1 /\ conn'[c].st = "deleted"
         \/ conn'[c].st = "open" /\ conn'[c].refno = conn[c].refno - 1
  BY <1>1, <1>3, <1>4, Decref DEF NoConn
<1> SUFFICES ASSUME NEW d \in Conn
             PROVE  Exact(conn'[d].st, conn'[d].refno, Holders(d)', leaked'[d])
  BY RefInvAt
<1>7. Exact(conn[d].st, conn[d].refno, Holders(d), leaked[d])
      /\ Holders(d) \in Nat /\ leaked[d] \in Nat
  BY HeldIsOpen, RefInvAt DEF DInv, Types
<1>8. Holders(d)' = Holders(d) + Ind(NULL = d) - Ind(c = d)
  <2>1. Holders(d)' = Holders(d) + Ind(thr'[t].c = d) - Ind(thr[t].c = d)
    BY <1>1, <1>4, <1>5, ThreadMoves
  <2> QED BY <1>2, <1>5, <2>1
<1>9. CASE d = c
  <2>1. Holders(d)' = Holders(d) - 1
    BY <1>7, <1>8, <1>9 DEF Ind
  <2>2. Exact("open", conn[d].refno, Holders(d), leaked[d]) /\ Holders(d) > 0
    BY <1>3, <1>7, <1>9
  <2>3. Exact(conn'[d].st, conn'[d].refno, Holders(d) - 1, leaked[d])
    BY <1>6, <1>7, <1>9, <2>2, ExactDrop
  <2> QED BY <1>4, <2>1, <2>3
<1>10. CASE d # c
  <2>1. Holders(d)' = Holders(d)
    BY <1>7, <1>8, <1>10 DEF Ind
  <2> QED BY <1>4, <1>6, <1>7, <1>10, <2>1
<1> QED BY <1>9, <1>10

-----------------------------------------------------------------------------
(* The invariant *)

LEMMA InitDInv == Init => DInv
<1> SUFFICES ASSUME Init PROVE DInv
  OBVIOUS
<1>1. Types
  BY InitTypes
<1>2. ThreadInv
  BY DEF Init, ThreadInv, Idle
<1>3. RefInv
  <2> SUFFICES ASSUME NEW d \in Conn
               PROVE  Exact(conn[d].st, conn[d].refno, Holders(d), leaked[d])
    BY RefInvAt
  <2>1. conn[d].st = "none" /\ leaked[d] = 0
    BY DEF Init, NoConn
  <2>2. LatestAt(latest, d) = {} /\ JobsAt(jobs, d) = {} /\ ThrAt(thr, d) = {} /\ Ind(d \in table) = 0
    BY DEF Init, LatestAt, JobsAt, ThrAt, Ind, Idle
  <2>3. Cardinality({}) = 0
    BY FS_EmptySet
  <2>4. Holders(d) = 0
    BY <2>2, <2>3, HoldersSum
  <2> QED BY <2>1, <2>4 DEF Exact
<1> QED BY <1>1, <1>2, <1>3 DEF DInv

\* The steps that leave every reference where it is.
LEMMA OtherStepKeepsRefInv ==
  ASSUME DInv,
         \/ \E k \in All : Call(k) \/ Transmit(k) \/ GiveUp(k)
         \/ \E c \in Conn : Cut(c) \/ Notice(c)
         \/ \E t \in Worker : checkduplicate(t) \/ Handler(t) \/ ChooseNull(t)
         \/ reg1 \/ Stop \/ UNCHANGED vars
  PROVE  RefInv'
<1>1. RefInv /\ conn \in [Conn -> Record]
  BY DEF DInv, Types
<1>2. UNCHANGED <<table, latest, jobs, leaked>>
  BY DEF Call, Transmit, GiveUp, Cut, Notice, checkduplicate, Handler, ChooseNull, Crash, reg1,
         Stop, vars
<1>3. \A t \in Worker : thr'[t].c = thr[t].c
  <2>1. CASE thr' = thr
    BY <2>1
  <2>2. ASSUME NEW t \in Worker, checkduplicate(t) \/ Handler(t) PROVE \A u \in Worker : thr'[u].c = thr[u].c
    BY <2>2, GotoKeepsTypes DEF checkduplicate, Handler, DInv
  <2> QED BY <2>1, <2>2 DEF Call, Transmit, GiveUp, Cut, Notice, ChooseNull, Crash, reg1, Stop, vars
<1>4. \A d \in Conn : conn'[d].st = conn[d].st /\ conn'[d].refno = conn[d].refno
  <2>1. CASE conn' = conn
    BY <2>1
  <2>3. ASSUME NEW k \in All, Transmit(k)
        PROVE  \A d \in Conn : conn'[d].st = conn[d].st /\ conn'[d].refno = conn[d].refno
    <3>1. client[k].chan \in Conn
      BY <2>3 DEF Transmit, Broken, Open
    <3>2. conn' = [conn EXCEPT ![client[k].chan] =
                     [conn[client[k].chan] EXCEPT !.pdu = [k |-> k, xid |-> client[k].xid]]]
      BY <2>3 DEF Transmit
    <3> QED BY <1>1, <3>1, <3>2 DEF Record
  <2>4. ASSUME NEW c \in Conn, Cut(c) \/ Notice(c)
        PROVE  \A d \in Conn : conn'[d].st = conn[d].st /\ conn'[d].refno = conn[d].refno
    <3>1. \/ conn' = [conn EXCEPT ![c] = [conn[c] EXCEPT !.cut = TRUE]]
          \/ conn' = [conn EXCEPT ![c] = [conn[c] EXCEPT !.dead = TRUE, !.pdu = NULL]]
      BY <2>4 DEF Cut, Notice
    <3>2. conn[c] \in Record
      BY <1>1
    <3>3. [conn[c] EXCEPT !.cut = TRUE].st = conn[c].st
          /\ [conn[c] EXCEPT !.cut = TRUE].refno = conn[c].refno
          /\ [conn[c] EXCEPT !.dead = TRUE, !.pdu = NULL].st = conn[c].st
          /\ [conn[c] EXCEPT !.dead = TRUE, !.pdu = NULL].refno = conn[c].refno
      BY <3>2 DEF Record
    <3>4. conn'[c].st = conn[c].st /\ conn'[c].refno = conn[c].refno
          /\ \A d \in Conn : d # c => conn'[d] = conn[d]
      BY <1>1, <3>1, <3>3
    <3> QED BY <3>4
  <2> QED BY <2>1, <2>3, <2>4 DEF Call, GiveUp, checkduplicate, Handler, ChooseNull, Crash, reg1,
                                  Stop, vars
<1> QED BY <1>1, <1>2, <1>3, <1>4, NoRefMoves

LEMMA StepKeepsDInv == DInv /\ [Next]_vars => DInv'
<1> SUFFICES ASSUME DInv, [Next]_vars PROVE DInv'
  OBVIOUS
<1>1. Types' /\ ThreadInv'
  BY StepKeepsTypes, StepKeepsThreadInv
<1>2. RefInv'
  <2>1. ASSUME NEW k \in All, NEW c \in Conn, Connect(k, c) PROVE RefInv'
    BY <1>1, <2>1, ConnectKeepsRefInv
  <2>2. ASSUME NEW c \in Conn, got_pdu(c) \/ CloseConn(c) PROVE RefInv'
    BY <1>1, <2>2, got_pduKeepsRefInv, CloseConnKeepsRefInv
  <2>3. ASSUME NEW t \in Worker,
               TakeJob(t) \/ SaveLatest(t) \/ ChooseLatest(t) \/ Send(t) \/ End(t)
        PROVE  RefInv'
    BY <1>1, <2>3, TakeJobKeepsRefInv, SaveLatestKeepsRefInv, ChooseLatestKeepsRefInv,
       SendKeepsRefInv, EndKeepsRefInv
  <2>4. CASE \/ \E k \in All : Call(k) \/ Transmit(k) \/ GiveUp(k)
             \/ \E c \in Conn : Cut(c) \/ Notice(c)
             \/ \E t \in Worker : checkduplicate(t) \/ Handler(t) \/ ChooseNull(t)
             \/ reg1 \/ Stop \/ UNCHANGED vars
    BY <2>4, OtherStepKeepsRefInv
  <2> QED BY <2>1, <2>2, <2>3, <2>4 DEF Next, dispatch
<1> QED BY <1>1, <1>2 DEF DInv

\* The invariant holds in every reachable state.
LEMMA ReferencesInductive == Spec => []DInv
<1> QED BY InitDInv, StepKeepsDInv, PTL DEF Spec

-----------------------------------------------------------------------------
(* The invariant of the answers *)

\* The clients: each has a connection of its own; a PDU waits only on an open one.
SideInv ==
  /\ \A k \in All : client[k].sent => client[k].waiting
  /\ \A k \in All : client[k].chan # NULL => conn[client[k].chan].st # "none"
  /\ \A j, k \in All : client[j].chan # NULL /\ client[j].chan = client[k].chan => j = k
  /\ \A c \in Conn : conn[c].pdu # NULL => conn[c].st = "open"

\* A call that the window calls in progress has a thread in its handler.
ProgressInv ==
  \A k \in Client : \A x \in 1 .. MaxCalls : window[k][x] = "inprogress" =>
    \E t \in Worker : thr[t].pc = "handler" /\ thr[t].k = k /\ thr[t].xid = x

\* What the server has of client k came in on its present connection, or on one
\* that was broken before that one was made.
Passed(k, d) ==
  \/ d = client[k].chan
  \/ conn[d].cut /\ (client[k].chan \in Open => conn[d].born <= conn[client[k].chan].born)

PassedInv ==
  /\ \A c \in Conn : conn[c].pdu # NULL => Passed(conn[c].pdu.k, c)
  /\ \A i \in DOMAIN jobs : Passed(jobs[i].pdu.k, jobs[i].c)
  /\ \A t \in Worker : thr[t].pc # "idle" => Passed(thr[t].k, thr[t].c)
  /\ \A k \in Client : latest[k] # NULL => Passed(k, latest[k])

\* The client waits for an answer that must come on the connection it has.
Awaits(k) == /\ client[k].waiting /\ client[k].sent /\ ~client[k].lost
             /\ ~Broken(k) /\ ~conn[client[k].chan].dead

\* conns_ has taken notice of the client's connection.
Saved(k) == k \in Client /\ latest[k] # NULL /\ conn[latest[k]].born >= conn[client[k].chan].born

Works(t, k) == thr[t].k = k /\ thr[t].xid = client[k].xid

\* Where the answer will come from: the request in the socket, the queue or a thread
\* of its own, or the thread that was at work on it already and will find the new
\* connection in conns_; and the exception of AnsweredWhenQuiet.
Expected(k) ==
  LET c == client[k].chan
      req == [k |-> k, xid |-> client[k].xid]
  IN  \/ conn[c].pdu = req
      \/ \E i \in DOMAIN jobs : jobs[i].c = c /\ jobs[i].pdu = req
      \/ \E t \in Worker : /\ Works(t, k) /\ thr[t].c = c
                           /\ \/ thr[t].pc \in {"send_old", "save", "handler", "choose", "send"}
                              \/ thr[t].pc = "duplicate" /\ Saved(k)
      \/ Saved(k) /\ \E t \in Worker : Works(t, k) /\ thr[t].pc \in {"handler", "choose"}
      \/ Saved(k) /\ latest[k] # c

AnswerInv == \A k \in All : Awaits(k) => Expected(k)

QInv == DInv /\ SideInv /\ ProgressInv /\ PassedInv /\ AnswerInv

-----------------------------------------------------------------------------
(* What a step does to a connection, a job, a thread and a client *)

\* The record r of a connection may become s in a step that neither makes the
\* connection nor puts a PDU on it or takes one from it.
Later(r, s) ==
  /\ r.st # "none" => s.st # "none"
  /\ s.st = "open" => r.st = "open" /\ s.born = r.born /\ (r.cut => s.cut) /\ (r.dead => s.dead)
  /\ \/ s.pdu = r.pdu /\ s.st = r.st
     \/ s.pdu = NULL /\ (s.st = "open" => s.dead)

\* Counting references changes nothing else while the connection lives.
LEMMA DecrefLater ==
  ASSUME NEW f \in [Conn -> Record], NEW c \in Conn, f[c].refno > 0
  PROVE  \A d \in Conn : Later(f[d], decref(f, c)[d])
<1>1. NoConn("deleted").st = "deleted" /\ NoConn("deleted").pdu = NULL
  BY DEF NoConn
<1> QED BY <1>1, Decref DEF Later

LEMMA IncrefLater ==
  ASSUME NEW f \in [Conn -> Record], NEW c \in Conn
  PROVE  \A d \in Conn : Later(f[d], incref(f, c)[d])
<1> QED BY Incref DEF Later

LEMMA LaterTransitive ==
  ASSUME NEW q \in Record, NEW r \in Record, NEW s \in Record, Later(q, r), Later(r, s)
  PROVE  Later(q, s)
<1> QED BY DEF Later

\* The three steps that do more to one connection: it is made, the client writes
\* its request to it, and the server takes the request in.
LEMMA ConnectDoes ==
  ASSUME DInv, NEW k \in All, NEW c \in Conn, Connect(k, c)
  PROVE  /\ conn[c].st = "none" /\ conn'[c].st = "open" /\ conn'[c].pdu = NULL
         /\ client[k].waiting /\ Broken(k)
         /\ client'[k].chan = c /\ ~client'[k].sent
         /\ \A m \in All : m # k => client'[m] = client[m]
         /\ \A d \in Conn : d # c => Later(conn[d], conn'[d])
         /\ \A d \in Conn : conn[d].born <= conn'[c].born
<1>1. client[k] \in Side /\ conn \in [Conn -> Record] /\ client \in [All -> Side]
  BY DEF DInv, Types
<1>2. PICK gone \in SUBSET Garbage, now \in Now, tick \in {0, 1} :
        /\ Garbage # {} => gone # {}
        /\ \A b \in Now : b <= now
        /\ conn' = [d \in Conn |->
                      IF d = c THEN [NoConn("open") EXCEPT !.refno = 1, !.born = now + tick]
                      ELSE IF d \in gone THEN NoConn("deleted") ELSE conn[d]]
        /\ table' = (table \ gone) \cup {c}
  BY DEF Connect
<1>3. now \in Nat /\ \A d \in Conn : conn[d].born \in Nat /\ conn[d].born <= now
  BY <1>1, <1>2 DEF Now, Record
<1>4. conn'[c] = [NoConn("open") EXCEPT !.refno = 1, !.born = now + tick]
  BY <1>2
<1>5. conn'[c].st = "open" /\ conn'[c].pdu = NULL /\ conn'[c].born = now + tick
  BY <1>4 DEF NoConn
<1>6. \A d \in Conn : conn[d].born <= conn'[c].born
  BY <1>3, <1>5
<1>7. \A d \in Conn : d # c => conn'[d] = conn[d] \/ conn'[d] = NoConn("deleted")
  BY <1>2
<1>8. NoConn("deleted").st = "deleted" /\ NoConn("deleted").pdu = NULL
  BY DEF NoConn
<1>9. \A d \in Conn : d # c => Later(conn[d], conn'[d])
  BY <1>7, <1>8 DEF Later
<1>10. client' = [client EXCEPT ![k] = [client[k] EXCEPT !.chan = c, !.sent = FALSE, !.lost = FALSE]]
  BY DEF Connect
<1>11. client'[k].chan = c /\ ~client'[k].sent /\ \A m \in All : m # k => client'[m] = client[m]
  BY <1>1, <1>10 DEF Side
<1> QED BY <1>5, <1>6, <1>9, <1>11 DEF Connect

LEMMA TransmitDoes ==
  ASSUME DInv, NEW k \in All, Transmit(k)
  PROVE  /\ client[k].waiting /\ client[k].chan \in Open /\ ~conn[client[k].chan].cut
         /\ client'[k] = [client[k] EXCEPT !.sent = TRUE]
         /\ client'[k].chan = client[k].chan /\ client'[k].xid = client[k].xid /\ client'[k].waiting
         /\ \A m \in All : m # k => client'[m] = client[m]
         /\ \A d \in Conn : d # client[k].chan => conn'[d] = conn[d]
         /\ conn'[client[k].chan] =
              [conn[client[k].chan] EXCEPT !.pdu = [k |-> k, xid |-> client[k].xid]]
         /\ conn'[client[k].chan].pdu = [k |-> k, xid |-> client[k].xid]
         /\ conn'[client[k].chan].st = "open"
<1>1. client[k] \in Side /\ conn \in [Conn -> Record] /\ client \in [All -> Side]
  BY DEF DInv, Types
<1>2. client[k].chan \in Open /\ ~conn[client[k].chan].cut /\ client[k].chan \in Conn
  BY DEF Transmit, Broken, Open
<1>3. client' = [client EXCEPT ![k] = [client[k] EXCEPT !.sent = TRUE]]
  BY DEF Transmit
<1>4. conn' = [conn EXCEPT ![client[k].chan] =
                 [conn[client[k].chan] EXCEPT !.pdu = [k |-> k, xid |-> client[k].xid]]]
  BY DEF Transmit
<1>5. /\ client'[k] = [client[k] EXCEPT !.sent = TRUE]
      /\ \A m \in All : m # k => client'[m] = client[m]
  BY <1>1, <1>3
<1>6. client'[k].chan = client[k].chan /\ client'[k].xid = client[k].xid
      /\ client'[k].waiting = client[k].waiting
  BY <1>1, <1>5 DEF Side
<1>7. /\ conn'[client[k].chan] =
           [conn[client[k].chan] EXCEPT !.pdu = [k |-> k, xid |-> client[k].xid]]
      /\ \A d \in Conn : d # client[k].chan => conn'[d] = conn[d]
  BY <1>1, <1>2, <1>4
<1>8. conn[client[k].chan] \in Record /\ conn[client[k].chan].st = "open"
  BY <1>1, <1>2 DEF Open
<1>9. conn'[client[k].chan].pdu = [k |-> k, xid |-> client[k].xid] /\ conn'[client[k].chan].st = "open"
  BY <1>7, <1>8 DEF Record
<1> QED BY <1>2, <1>5, <1>6, <1>7, <1>9 DEF Transmit

LEMMA got_pduDoes ==
  ASSUME DInv, NEW c \in Conn, got_pdu(c)
  PROVE  /\ conn[c].st = "open" /\ ~conn[c].dead /\ conn[c].pdu # NULL /\ conn[c].pdu \in Pdu
         /\ conn'[c].st = "open" /\ conn'[c].pdu = NULL
         /\ conn'[c].born = conn[c].born /\ conn'[c].cut = conn[c].cut /\ conn'[c].dead = conn[c].dead
         /\ \A d \in Conn : d # c => conn'[d] = conn[d]
<1>1. conn[c] \in Record /\ conn \in [Conn -> Record]
  BY DEF DInv, Types
<1>2. incref(conn, c) \in [Conn -> Record]
  BY <1>1, Incref
<1> DEFINE f == incref(conn, c)
<1>3. /\ f[c].st = conn[c].st /\ f[c].born = conn[c].born /\ f[c].cut = conn[c].cut
      /\ f[c].dead = conn[c].dead /\ \A d \in Conn : d # c => f[d] = conn[d]
  BY <1>1, Incref
<1>4. conn' = [f EXCEPT ![c] = [f[c] EXCEPT !.pdu = NULL]]
  BY DEF got_pdu
<1> HIDE DEF f
<1>5. f \in [Conn -> Record] /\ f[c] \in Record
  BY <1>2 DEF f
<1>6. conn'[c] = [f[c] EXCEPT !.pdu = NULL] /\ \A d \in Conn : d # c => conn'[d] = f[d]
  BY <1>4, <1>5
<1>7. /\ conn'[c].st = f[c].st /\ conn'[c].pdu = NULL /\ conn'[c].born = f[c].born
      /\ conn'[c].cut = f[c].cut /\ conn'[c].dead = f[c].dead
  BY <1>5, <1>6 DEF Record
<1>8. conn[c].pdu # NULL /\ conn[c].pdu \in Pdu /\ conn[c].st = "open" /\ ~conn[c].dead
  BY <1>1 DEF got_pdu, Open, Record
<1> QED BY <1>3, <1>6, <1>7, <1>8

\* What any step does to a connection.
LEMMA ConnFrame ==
  ASSUME DInv, [Next]_vars, NEW d \in Conn
  PROVE  \/ Later(conn[d], conn'[d])
         \/ \E k \in All : Connect(k, d)
         \/ \E k \in All : Transmit(k) /\ d = client[k].chan
         \/ got_pdu(d)
<1>0. conn \in [Conn -> Record]
  BY DEF DInv, Types
<1>1. ASSUME conn' = conn PROVE Later(conn[d], conn'[d])
  BY <1>1 DEF Later
<1>2. ASSUME NEW k \in All, NEW c \in Conn, Connect(k, c), d # c PROVE Later(conn[d], conn'[d])
  BY <1>2, ConnectDoes
<1>3. ASSUME NEW k \in All, Transmit(k), d # client[k].chan PROVE Later(conn[d], conn'[d])
  BY <1>3, TransmitDoes DEF Later
<1>4. ASSUME NEW c \in Conn, got_pdu(c), d # c PROVE Later(conn[d], conn'[d])
  BY <1>4, got_pduDoes DEF Later
<1>5. ASSUME NEW c \in Conn, Cut(c) \/ Notice(c) PROVE Later(conn[d], conn'[d])
  <2>1. \/ conn' = [conn EXCEPT ![c] = [conn[c] EXCEPT !.cut = TRUE]]
        \/ conn' = [conn EXCEPT ![c] = [conn[c] EXCEPT !.dead = TRUE, !.pdu = NULL]]
    BY <1>5 DEF Cut, Notice
  <2>2. conn[c] \in Record
    BY <1>0
  <2>3. Later(conn[c], [conn[c] EXCEPT !.cut = TRUE])
    BY <2>2 DEF Later, Record
  <2>4. Later(conn[c], [conn[c] EXCEPT !.dead = TRUE, !.pdu = NULL])
    BY <2>2 DEF Later, Record
  <2>5. conn'[c] \in {[conn[c] EXCEPT !.cut = TRUE], [conn[c] EXCEPT !.dead = TRUE, !.pdu = NULL]}
        /\ (d # c => conn'[d] = conn[d])
    BY <1>0, <2>1
  <2>6. Later(conn[d], conn[d])
    BY DEF Later
  <2> QED BY <2>3, <2>4, <2>5, <2>6
<1>6. ASSUME NEW c \in Conn, CloseConn(c) PROVE Later(conn[d], conn'[d])
  <2> DEFINE f == [conn EXCEPT ![c].dead = TRUE, ![c].cut = TRUE, ![c].pdu = NULL]
  <2>1. [conn[c] EXCEPT !.dead = TRUE, !.cut = TRUE, !.pdu = NULL] \in Record
    BY <1>0 DEF Record
  <2>2. f = [conn EXCEPT ![c] = [conn[c] EXCEPT !.dead = TRUE, !.cut = TRUE, !.pdu = NULL]]
    OBVIOUS
  <2> HIDE DEF f
  <2>3. f \in [Conn -> Record] /\ (d # c => f[d] = conn[d])
        /\ f[c] = [conn[c] EXCEPT !.dead = TRUE, !.cut = TRUE, !.pdu = NULL]
    BY <1>0, <2>1, <2>2
  <2>4. f[c].refno = conn[c].refno /\ Later(conn[c], f[c])
    BY <1>0, <2>3 DEF Record, Later
  <2>5. conn[c].refno > 0
    BY <1>6, HeldIsCounted DEF CloseConn
  <2>6. Later(f[d], decref(f, c)[d]) /\ decref(f, c) \in [Conn -> Record]
    BY <2>3, <2>4, <2>5, DecrefLater, Decref
  <2>7. Later(conn[d], f[d])
    <3>1. CASE d # c
      BY <2>3, <3>1 DEF Later
    <3> QED BY <2>4, <3>1
  <2>8. conn' = decref(f, c)
    BY <1>6 DEF CloseConn, f
  <2> QED BY <1>0, <2>3, <2>6, <2>7, <2>8, LaterTransitive
<1>7. ASSUME NEW t \in Worker, SaveLatest(t) PROVE Later(conn[d], conn'[d])
  <2>1. thr[t].c \in Conn /\ thr[t].k \in Client
    BY <1>7, HeldIsOpen DEF SaveLatest, DInv, ThreadInv, Busy
  <2>2. PICK o : o = latest[thr[t].k]
    OBVIOUS
  <2>3. o \in Conn \cup {NULL}
    BY <2>1, <2>2 DEF DInv, Types
  <2>4. CASE conn' = incref(conn, thr[t].c)
    BY <1>0, <2>1, <2>4, IncrefLater
  <2>5. CASE o # NULL /\ conn' = incref(decref(conn, o), thr[t].c)
    <3>1. conn[o].refno > 0 /\ o \in Conn
      BY <2>1, <2>2, <2>3, <2>5, HeldIsCounted
    <3>2. decref(conn, o) \in [Conn -> Record] /\ Later(conn[d], decref(conn, o)[d])
      BY <1>0, <3>1, Decref, DecrefLater
    <3> DEFINE g == decref(conn, o)
    <3> HIDE DEF g
    <3>3. g \in [Conn -> Record] /\ Later(conn[d], g[d]) /\ conn' = incref(g, thr[t].c)
      BY <2>5, <3>2 DEF g
    <3>4. Later(g[d], conn'[d]) /\ conn' \in [Conn -> Record]
      BY <2>1, <3>3, IncrefLater, Incref
    <3>5. conn[d] \in Record /\ g[d] \in Record /\ conn'[d] \in Record
      BY <1>0, <3>3, <3>4
    <3> QED BY <3>3, <3>4, <3>5, LaterTransitive
  <2> QED BY <1>1, <1>7, <2>2, <2>4, <2>5 DEF SaveLatest
<1>8. ASSUME NEW t \in Worker, ChooseLatest(t) PROVE Later(conn[d], conn'[d])
  <2>1. thr[t].c \in Conn /\ conn[thr[t].c].refno > 0
    BY <1>8, HeldIsOpen, HeldIsCounted DEF ChooseLatest, Busy
  <2>2. CASE /\ thr[t].k \in Client /\ latest[thr[t].k] \in Conn
             /\ conn' = incref(decref(conn, thr[t].c), latest[thr[t].k])
    <3> DEFINE g == decref(conn, thr[t].c)
    <3>1. g \in [Conn -> Record] /\ Later(conn[d], g[d])
      BY <1>0, <2>1, Decref, DecrefLater
    <3> HIDE DEF g
    <3>2. conn' = incref(g, latest[thr[t].k])
      BY <2>2 DEF g
    <3>3. Later(g[d], conn'[d]) /\ conn' \in [Conn -> Record]
      BY <2>2, <3>1, <3>2, IncrefLater, Incref
    <3>4. conn[d] \in Record /\ g[d] \in Record /\ conn'[d] \in Record
      BY <1>0, <3>1, <3>3
    <3> QED BY <3>1, <3>3, <3>4, LaterTransitive
  <2>3. thr[t].k \in Client => latest[thr[t].k] \in Conn
    BY <1>8 DEF ChooseLatest, DInv, ThreadInv, Types
  <2> QED BY <1>1, <1>8, <2>2, <2>3 DEF ChooseLatest
<1>9. ASSUME NEW t \in Worker, Send(t) PROVE Later(conn[d], conn'[d])
  <2>1. thr[t].c \in Conn
    BY <1>9, HeldIsOpen DEF Send, Busy
  <2>2. ASSUME NEW b \in BOOLEAN, conn' = [conn EXCEPT ![thr[t].c].dead = @ \/ b]
        PROVE  Later(conn[d], conn'[d])
    <3> DEFINE r == [conn[thr[t].c] EXCEPT !.dead = conn[thr[t].c].dead \/ b]
    <3>1. conn' = [conn EXCEPT ![thr[t].c] = r]
      BY <2>2
    <3>2. Later(conn[thr[t].c], r)
      BY <1>0, <2>1 DEF Later, Record
    <3> HIDE DEF r
    <3>3. conn'[thr[t].c] = r /\ (d # thr[t].c => conn'[d] = conn[d])
      BY <1>0, <2>1, <3>1
    <3>4. Later(conn[d], conn[d])
      BY DEF Later
    <3> QED BY <3>2, <3>3, <3>4
  <2> QED BY <1>1, <1>9, <2>2 DEF Send
<1>10. ASSUME NEW t \in Worker, End(t) PROVE Later(conn[d], conn'[d])
  <2>1. thr[t].c \in Conn /\ conn[thr[t].c].refno > 0
    BY <1>10, HeldIsOpen, HeldIsCounted DEF End, Busy
  <2> QED BY <1>0, <1>10, <2>1, DecrefLater DEF End
<1>11. ASSUME NEW t \in Worker, dispatch(t)
       PROVE  Later(conn[d], conn'[d])
  <2>1. CASE TakeJob(t) \/ checkduplicate(t) \/ Handler(t) \/ ChooseNull(t)
    BY <1>1, <2>1 DEF TakeJob, checkduplicate, Handler, ChooseNull, Crash
  <2> QED BY <1>7, <1>8, <1>9, <1>10, <1>11, <2>1 DEF dispatch
<1>12. ASSUME NEW k \in All, Call(k) \/ GiveUp(k) PROVE Later(conn[d], conn'[d])
  BY <1>1, <1>12 DEF Call, GiveUp
<1>13. CASE reg1 \/ Stop \/ UNCHANGED vars
  BY <1>1, <1>13 DEF reg1, Stop, vars
<1> QED BY <1>2, <1>3, <1>4, <1>5, <1>6, <1>11, <1>12, <1>13 DEF Next

\* A thread changes only in a step of its own.
LEMMA ThreadFrame ==
  ASSUME DInv, [Next]_vars, NEW t \in Worker
  PROVE  thr'[t] = thr[t] \/ dispatch(t)
<1>1. CASE thr' = thr
  BY <1>1
<1>2. ASSUME NEW u \in Worker, dispatch(u), u # t PROVE thr'[t] = thr[t]
  <2>1. thr \in [Worker -> Busy \cup {Idle}]
    BY DEF DInv, Types
  <2>2. \E r : thr' = [thr EXCEPT ![u] = r]
    <3>1. CASE TakeJob(u)
      BY <3>1 DEF TakeJob
    <3>2. CASE SaveLatest(u) \/ checkduplicate(u) \/ Handler(u)
      BY <3>2 DEF SaveLatest, checkduplicate, Handler, Goto
    <3>3. CASE ChooseLatest(u) \/ ChooseNull(u)
      <4>1. \/ thr' = thr
            \/ thr' = [thr EXCEPT ![u] = [@ EXCEPT !.pc = "send"]]
            \/ thr' = [thr EXCEPT ![u] = [@ EXCEPT !.pc = "send", !.c = latest[thr[u].k]]]
        BY <3>3 DEF ChooseLatest, ChooseNull, Crash, Goto
      <4>2. CASE thr' = thr
        BY <2>1, <4>2
      <4> QED BY <4>1, <4>2
    <3>4. CASE Send(u) \/ End(u)
      BY <3>4 DEF Send, End, Goto
    <3> QED BY <1>2, <3>1, <3>2, <3>3, <3>4 DEF dispatch
  <2> QED BY <1>2, <2>1, <2>2
<1> QED BY <1>1, <1>2 DEF Next, Call, Transmit, GiveUp, Connect, Cut, Notice, got_pdu, CloseConn,
           reg1, Stop, vars

\* The thread's own steps, one by one: where it goes and what it works for.
LEMMA TakeJobDoes ==
  ASSUME DInv, NEW t \in Worker, TakeJob(t)
  PROVE  /\ jobs # <<>> /\ jobs' = Tail(jobs) /\ Head(jobs) \in Job
         /\ thr[t].pc = "idle"
         /\ thr'[t].c = Head(jobs).c /\ thr'[t].k = Head(jobs).pdu.k
         /\ thr'[t].xid = Head(jobs).pdu.xid
         /\ \/ thr'[t].pc = "end" /\ Lost(Head(jobs).pdu.k, Head(jobs).pdu.xid)
            \/ thr'[t].pc \in {"send_old", "handler", "save"}
<1> DEFINE j == Head(jobs)
           r(pc) == [pc |-> pc, c |-> j.c, k |-> j.pdu.k, xid |-> j.pdu.xid]
<1>1. \/ thr' = [thr EXCEPT ![t] = r("end")] /\ Lost(j.pdu.k, j.pdu.xid)
      \/ \E pc \in {"send_old", "handler", "save"} : thr' = [thr EXCEPT ![t] = r(pc)]
  BY DEF TakeJob
<1>2. thr \in [Worker -> Busy \cup {Idle}]
  BY DEF DInv, Types
<1>3. \/ thr'[t] = r("end") /\ Lost(j.pdu.k, j.pdu.xid)
      \/ \E pc \in {"send_old", "handler", "save"} : thr'[t] = r(pc)
  <2> HIDE DEF j, r
  <2> QED BY <1>1, <1>2
<1>4. jobs # <<>> /\ jobs' = Tail(jobs) /\ Head(jobs) \in Job /\ thr[t].pc = "idle"
  BY JobTypes DEF TakeJob, DInv
<1> QED BY <1>3, <1>4

LEMMA SendDoes ==
  ASSUME DInv, NEW t \in Worker, Send(t)
  PROVE  /\ thr[t].pc \in {"send", "send_old"} /\ thr'[t].pc \in {"end", "idle"}
         /\ thr'[t].pc = "end" => thr'[t].c = thr[t].c /\ thr'[t].k = thr[t].k
         /\ \/ conn[thr[t].c].dead \/ conn[thr[t].c].cut
            \/ client' = [client EXCEPT ![thr[t].k] = Answered(@, thr[t].xid)]
<1>1. thr \in [Worker -> Busy \cup {Idle}]
  BY DEF DInv, Types
<1>2. \/ thr' = [thr EXCEPT ![t] = Idle]
      \/ thr' = [thr EXCEPT ![t] = [thr[t] EXCEPT !.pc = "end"]]
  BY DEF Send, Goto
<1>3. thr[t] \in Busy
  BY HeldIsOpen DEF Send
<1>4. [thr[t] EXCEPT !.pc = "end"].pc = "end" /\ [thr[t] EXCEPT !.pc = "end"].c = thr[t].c
      /\ [thr[t] EXCEPT !.pc = "end"].k = thr[t].k
  BY <1>3 DEF Busy
<1>5. thr'[t] \in {Idle, [thr[t] EXCEPT !.pc = "end"]}
  BY <1>1, <1>2
<1>6. /\ thr'[t].pc \in {"end", "idle"}
      /\ thr'[t].pc = "end" => thr'[t].c = thr[t].c /\ thr'[t].k = thr[t].k
  <2>1. CASE thr'[t] = Idle
    BY <2>1 DEF Idle
  <2>2. CASE thr'[t] = [thr[t] EXCEPT !.pc = "end"]
    BY <1>4, <2>2
  <2> QED BY <1>5, <2>1, <2>2
<1> QED BY <1>6 DEF Send

LEMMA ChooseLatestDoes ==
  ASSUME DInv, NEW t \in Worker, ChooseLatest(t)
  PROVE  /\ thr[t].pc = "choose" /\ thr'[t].pc = "send"
         /\ thr'[t].k = thr[t].k /\ thr'[t].xid = thr[t].xid
         /\ \/ /\ ~conn[thr[t].c].dead \/ (thr[t].k \in Client /\ latest[thr[t].k] = thr[t].c)
               /\ thr'[t].c = thr[t].c
               /\ thr[t].k \in Client /\ latest[thr[t].k] # thr[t].c /\ conn[thr[t].c].cut =>
                    Lost(thr[t].k, thr[t].xid)
            \/ /\ conn[thr[t].c].dead /\ thr[t].k \in Client
               /\ thr'[t].c = latest[thr[t].k] /\ latest[thr[t].k] # NULL
<1>1. thr \in [Worker -> Busy \cup {Idle}] /\ Types
  BY DEF DInv, Types
<1>2. thr[t] \in Busy /\ thr[t].pc = "choose"
  BY HeldIsOpen DEF ChooseLatest
<1>3. CASE Goto(t, "send")
  <2>1. thr'[t].pc = "send" /\ thr'[t].c = thr[t].c /\ thr'[t].k = thr[t].k /\ thr'[t].xid = thr[t].xid
    BY <1>1, <1>2, <1>3, GotoKeepsTypes
  <2>2. CASE conn[thr[t].c].dead /\ thr[t].k \in Client /\ latest[thr[t].k] # thr[t].c
    <3>1. thr' = [thr EXCEPT ![t] = [thr[t] EXCEPT !.pc = "send", !.c = latest[thr[t].k]]]
      BY <2>2 DEF ChooseLatest
    <3>2. thr'[t].c = latest[thr[t].k]
      BY <1>1, <1>2, <3>1 DEF Busy
    <3> QED BY <1>2, <2>1, <2>2, <3>2 DEF DInv, ThreadInv
  <2> QED BY <1>2, <2>1, <2>2 DEF ChooseLatest
<1>4. CASE /\ conn[thr[t].c].dead /\ thr[t].k \in Client
           /\ thr' = [thr EXCEPT ![t].pc = "send", ![t].c = latest[thr[t].k]]
  <2>1. thr' = [thr EXCEPT ![t] = [thr[t] EXCEPT !.pc = "send", !.c = latest[thr[t].k]]]
    BY <1>4
  <2>2. /\ thr'[t].pc = "send" /\ thr'[t].c = latest[thr[t].k]
        /\ thr'[t].k = thr[t].k /\ thr'[t].xid = thr[t].xid
    BY <1>1, <1>2, <2>1 DEF Busy
  <2> QED BY <1>2, <1>4, <2>2 DEF DInv, ThreadInv
<1> QED BY <1>3, <1>4 DEF ChooseLatest

\* What the server holds of a client moves from the queue to a thread, and from one
\* connection of the client to the one conns_ has.
LEMMA ThreadMoved ==
  ASSUME DInv, [Next]_vars, NEW t \in Worker, thr'[t].pc # "idle"
  PROVE  \/ thr[t].pc # "idle" /\ thr'[t].k = thr[t].k /\ thr'[t].c = thr[t].c
         \/ jobs # <<>> /\ thr'[t].k = Head(jobs).pdu.k /\ thr'[t].c = Head(jobs).c
         \/ thr[t].k \in Client /\ thr'[t].k = thr[t].k /\ thr'[t].c = latest[thr[t].k]
            /\ latest[thr[t].k] # NULL
<1>1. CASE thr'[t] = thr[t]
  BY <1>1
<1>2. CASE TakeJob(t)
  BY <1>2, TakeJobDoes
<1>3. CASE SaveLatest(t) \/ checkduplicate(t) \/ Handler(t)
  BY <1>3, GotoKeepsTypes DEF SaveLatest, checkduplicate, Handler, DInv
<1>4. CASE ChooseLatest(t)
  BY <1>4, ChooseLatestDoes
<1>5. CASE Send(t)
  BY <1>5, SendDoes
<1>6. CASE End(t)
  <2>1. thr \in [Worker -> Busy \cup {Idle}]
    BY DEF DInv, Types
  <2>2. thr'[t].pc = "idle"
    BY <1>6, <2>1 DEF End, Idle
  <2> QED BY <2>2
<1>7. CASE ChooseNull(t)
  BY <1>1, <1>7 DEF ChooseNull, Crash
<1> QED BY <1>1, <1>2, <1>3, <1>4, <1>5, <1>6, <1>7, ThreadFrame DEF dispatch

LEMMA JobMoved ==
  ASSUME DInv, [Next]_vars, NEW i \in DOMAIN jobs'
  PROVE  \/ \E n \in DOMAIN jobs : jobs'[i] = jobs[n]
         \/ \E c \in Conn : conn[c].pdu # NULL /\ jobs'[i] = [c |-> c, pdu |-> conn[c].pdu]
<1>0. jobs \in Seq(Job)
  BY DEF DInv, Types
<1>1. CASE jobs' = jobs
  BY <1>1
<1>2. ASSUME NEW c \in Conn, got_pdu(c)
      PROVE  \/ \E n \in DOMAIN jobs : jobs'[i] = jobs[n]
             \/ conn[c].pdu # NULL /\ jobs'[i] = [c |-> c, pdu |-> conn[c].pdu]
  <2> DEFINE j == [c |-> c, pdu |-> conn[c].pdu]
  <2>1. jobs' = Append(jobs, j) /\ conn[c].pdu # NULL
    BY <1>2 DEF got_pdu
  <2> HIDE DEF j
  <2>2. i \in 1 .. Len(jobs) + 1 /\ (i \in 1 .. Len(jobs) => jobs'[i] = jobs[i])
        /\ (i = Len(jobs) + 1 => jobs'[i] = j)
    BY <1>0, <2>1
  <2>3. CASE i \in 1 .. Len(jobs)
    BY <1>0, <2>2, <2>3
  <2>4. CASE i = Len(jobs) + 1
    BY <2>1, <2>2, <2>4 DEF j
  <2> QED BY <1>0, <2>2, <2>3, <2>4
<1>3. ASSUME NEW t \in Worker, TakeJob(t) PROVE \E n \in DOMAIN jobs : jobs'[i] = jobs[n]
  <2>1. jobs # <<>> /\ jobs' = Tail(jobs)
    BY <1>3, TakeJobDoes
  <2>2. i + 1 \in DOMAIN jobs /\ jobs'[i] = jobs[i + 1]
    BY <1>0, <2>1
  <2> QED BY <2>2
<1> QED BY <1>1, <1>2, <1>3 DEF Next, dispatch, Call, Transmit, GiveUp, Connect, Cut, Notice,
           CloseConn, SaveLatest, checkduplicate, Handler, ChooseLatest, ChooseNull, Crash, Send,
           End, reg1, Stop, vars

LEMMA LatestMoved ==
  ASSUME DInv, [Next]_vars, NEW k \in Client, latest'[k] # latest[k]
  PROVE  \E t \in Worker : /\ thr[t].pc = "save" /\ thr[t].k = k /\ thr[t].c \in Conn
                           /\ latest'[k] = thr[t].c
                           /\ latest[k] = NULL \/ conn[latest[k]].born < conn[thr[t].c].born
<1>1. ASSUME NEW t \in Worker, SaveLatest(t)
      PROVE  /\ thr[t].pc = "save" /\ thr[t].k = k /\ thr[t].c \in Conn /\ latest'[k] = thr[t].c
             /\ latest[k] = NULL \/ conn[latest[k]].born < conn[thr[t].c].born
  <2>1. thr[t].c \in Conn /\ thr[t].k \in Client /\ latest \in [Client -> Conn \cup {NULL}]
    BY <1>1, HeldIsOpen DEF SaveLatest, DInv, Types, ThreadInv, Busy
  <2> QED BY <1>1, <2>1 DEF SaveLatest, Older
<1> QED BY <1>1 DEF Next, dispatch, Call, Transmit, GiveUp, Connect, Cut, Notice, got_pdu,
           CloseConn, TakeJob, checkduplicate, Handler, ChooseLatest, ChooseNull, Crash, Send,
           End, reg1, Stop, vars

\* A client: another connection comes with Connect only, a request on its way with
\* Transmit only, and no step forgets that a call is lost.
LEMMA ClientFrame ==
  ASSUME DInv, [Next]_vars, NEW k \in All, client[k].sent => client[k].waiting
  PROVE  /\ client'[k].sent => client'[k].waiting
         /\ client'[k].chan = client[k].chan \/ \E c \in Conn : Connect(k, c)
         /\ client'[k].sent =>
              /\ client'[k].chan = client[k].chan /\ client'[k].xid = client[k].xid
              /\ \/ Transmit(k)
                 \/ client[k].sent /\ (client[k].lost => client'[k].lost)
<1>0. client[k] \in Side /\ client \in [All -> Side]
  BY DEF DInv, Types
<1> DEFINE G == /\ client'[k].sent => client'[k].waiting
                /\ client'[k].chan = client[k].chan \/ \E c \in Conn : Connect(k, c)
                /\ client'[k].sent =>
                     /\ client'[k].chan = client[k].chan /\ client'[k].xid = client[k].xid
                     /\ \/ Transmit(k)
                        \/ client[k].sent /\ (client[k].lost => client'[k].lost)
<1>1. ASSUME client'[k] = client[k] PROVE G
  BY <1>1
<1>2. ASSUME NEW m \in All, NEW r, client' = [client EXCEPT ![m] = r], m # k PROVE G
  BY <1>0, <1>1, <1>2
<1>3. ASSUME NEW r, client' = [client EXCEPT ![k] = r] PROVE client'[k] = r
  BY <1>0, <1>3
<1>4. ASSUME NEW m \in All, Call(m) PROVE G
  <2>1. client' = [client EXCEPT ![m] = [client[m] EXCEPT !.waiting = TRUE, !.xid = @ + 1]]
    BY <1>4 DEF Call
  <2>2. CASE m = k
    <3>1. client'[k] = [client[k] EXCEPT !.waiting = TRUE, !.xid = @ + 1]
      BY <1>3, <2>1, <2>2
    <3>2. client'[k].chan = client[k].chan /\ client'[k].sent = client[k].sent
      BY <1>0, <3>1 DEF Side
    <3>3. ~client[k].sent
      BY <1>0, <1>4, <2>2 DEF Call, Side
    <3> QED BY <1>0, <3>2, <3>3
  <2> QED BY <1>2, <2>1, <2>2
<1>5. ASSUME NEW m \in All, Transmit(m) PROVE G
  <2>1. CASE m = k
    BY <1>5, <2>1, TransmitDoes
  <2>2. CASE m # k
    BY <1>1, <1>5, <2>2, TransmitDoes
  <2> QED BY <2>1, <2>2
<1>6. ASSUME NEW m \in All, GiveUp(m) PROVE G
  <2>1. client' = [client EXCEPT ![m] =
                     [client[m] EXCEPT !.waiting = FALSE, !.sent = FALSE, !.lost = FALSE]]
    BY <1>6 DEF GiveUp
  <2>2. CASE m = k
    <3>1. client'[k] = [client[k] EXCEPT !.waiting = FALSE, !.sent = FALSE, !.lost = FALSE]
      BY <1>3, <2>1, <2>2
    <3> QED BY <1>0, <3>1 DEF Side
  <2> QED BY <1>2, <2>1, <2>2
<1>7. ASSUME NEW m \in All, NEW c \in Conn, Connect(m, c) PROVE G
  <2>1. CASE m = k
    BY <1>7, <2>1, ConnectDoes
  <2>2. CASE m # k
    BY <1>1, <1>7, <2>2, ConnectDoes
  <2> QED BY <2>1, <2>2
<1>8. ASSUME NEW m \in All, NEW x, Lost(m, x) PROVE G
  <2>1. client' = [client EXCEPT ![m] = [client[m] EXCEPT !.lost = @ \/ client[m].xid = x]]
    BY <1>8 DEF Lost
  <2>2. CASE m = k
    <3>1. client'[k] = [client[k] EXCEPT !.lost = @ \/ client[k].xid = x]
      BY <1>3, <2>1, <2>2
    <3>2. /\ client'[k].sent = client[k].sent /\ client'[k].waiting = client[k].waiting
          /\ client'[k].chan = client[k].chan /\ client'[k].xid = client[k].xid
          /\ client[k].lost => client'[k].lost
      BY <1>0, <3>1 DEF Side
    <3> QED BY <3>2
  <2> QED BY <1>2, <2>1, <2>2
<1>9. ASSUME NEW m \in All, NEW x, client' = [client EXCEPT ![m] = Answered(@, x)] PROVE G
  <2>1. CASE m = k
    <3>1. client'[k] = Answered(client[k], x)
      BY <1>0, <1>9, <2>1
    <3>2. CASE client'[k] = client[k]
      BY <1>1, <3>2
    <3>3. CASE client'[k] = [client[k] EXCEPT !.waiting = FALSE, !.sent = FALSE, !.lost = FALSE]
      BY <1>0, <3>3 DEF Side
    <3> QED BY <3>1, <3>2, <3>3 DEF Answered
  <2>2. CASE m # k
    BY <1>0, <1>1, <1>9, <2>2
  <2> QED BY <2>1, <2>2
<1>10. CASE client' = client
  BY <1>1, <1>10
<1>11. ASSUME NEW t \in Worker, dispatch(t) PROVE G
  <2>1. CASE TakeJob(t)
    <3>1. client' = client \/ Lost(Head(jobs).pdu.k, Head(jobs).pdu.xid)
      BY <2>1 DEF TakeJob
    <3>2. Head(jobs).pdu.k \in All
      BY <2>1, JobTypes DEF TakeJob, DInv
    <3> QED BY <1>8, <1>10, <3>1, <3>2
  <2>2. CASE ChooseLatest(t) \/ Send(t)
    <3>1. thr[t].k \in All
      BY <2>2, HeldIsOpen DEF ChooseLatest, Send, Busy
    <3>2. \/ client' = client \/ Lost(thr[t].k, thr[t].xid)
          \/ client' = [client EXCEPT ![thr[t].k] = Answered(@, thr[t].xid)]
      BY <2>2 DEF ChooseLatest, Send
    <3> QED BY <1>8, <1>9, <1>10, <3>1, <3>2
  <2>3. CASE SaveLatest(t) \/ checkduplicate(t) \/ Handler(t) \/ ChooseNull(t) \/ End(t)
    BY <1>10, <2>3 DEF SaveLatest, checkduplicate, Handler, ChooseNull, Crash, End
  <2> QED BY <1>11, <2>1, <2>2, <2>3 DEF dispatch
<1>12. ASSUME NEW c \in Conn, Cut(c) \/ Notice(c) \/ got_pdu(c) \/ CloseConn(c) PROVE G
  BY <1>10, <1>12 DEF Cut, Notice, got_pdu, CloseConn
<1>13. ASSUME reg1 \/ Stop \/ UNCHANGED vars PROVE G
  BY <1>10, <1>13 DEF reg1, Stop, vars
<1>14. G
  <2> HIDE DEF G
  <2> QED BY <1>4, <1>5, <1>6, <1>7, <1>11, <1>12, <1>13 DEF Next
<1> QED BY <1>14

\* A connection that has been made stays what it is while it lives.
LEMMA StillOpen ==
  ASSUME DInv, [Next]_vars, NEW d \in Conn, conn[d].st # "none"
  PROVE  /\ conn'[d].st # "none"
         /\ conn'[d].st = "open" => /\ conn[d].st = "open" /\ conn'[d].born = conn[d].born
                                    /\ conn[d].cut => conn'[d].cut
                                    /\ conn[d].dead => conn'[d].dead
<1>1. CASE Later(conn[d], conn'[d])
  BY <1>1 DEF Later
<1>2. CASE got_pdu(d)
  BY <1>2, got_pduDoes
<1>3. ASSUME NEW k \in All, Transmit(k), d = client[k].chan
      PROVE  /\ conn'[d].st = "open" /\ conn[d].st = "open" /\ conn'[d].born = conn[d].born
             /\ conn'[d].cut = conn[d].cut /\ conn'[d].dead = conn[d].dead
  <2>1. conn[d] \in Record
    BY DEF DInv, Types
  <2>2. conn[d].st = "open"
    BY <1>3, TransmitDoes DEF Open
  <2>3. conn'[d] = [conn[d] EXCEPT !.pdu = [k |-> k, xid |-> client[k].xid]]
    BY <1>3, TransmitDoes
  <2> QED BY <2>1, <2>2, <2>3 DEF Record
<1>4. ~ \E k \in All : Connect(k, d)
  BY ConnectDoes
<1> QED BY <1>1, <1>2, <1>3, <1>4, ConnFrame

\* A PDU on a connection was there before, or its client has just written it.
LEMMA PduMoved ==
  ASSUME DInv, [Next]_vars, NEW d \in Conn, conn'[d].pdu # NULL
  PROVE  \/ conn'[d].pdu = conn[d].pdu /\ conn'[d].st = conn[d].st
         \/ \E k \in All : /\ Transmit(k) /\ d = client[k].chan /\ conn'[d].st = "open"
                           /\ conn'[d].pdu = [k |-> k, xid |-> client[k].xid]
<1>1. CASE Later(conn[d], conn'[d])
  BY <1>1 DEF Later
<1>2. ~got_pdu(d)
  BY got_pduDoes
<1>3. ~ \E k \in All : Connect(k, d)
  BY ConnectDoes
<1>4. ASSUME NEW k \in All, Transmit(k), d = client[k].chan
      PROVE  conn'[d].st = "open" /\ conn'[d].pdu = [k |-> k, xid |-> client[k].xid]
  BY <1>4, TransmitDoes
<1> QED BY <1>1, <1>2, <1>3, <1>4, ConnFrame

-----------------------------------------------------------------------------
(* The steps keep SideInv, ProgressInv and PassedInv *)

LEMMA InitQuiet == Init => SideInv /\ ProgressInv /\ PassedInv /\ AnswerInv
<1> SUFFICES ASSUME Init PROVE SideInv /\ ProgressInv /\ PassedInv /\ AnswerInv
  OBVIOUS
<1>1. \A k \in All : client[k].chan = NULL /\ ~client[k].sent
  BY DEF Init, NewClient
<1>2. \A c \in Conn : conn[c].pdu = NULL
  BY DEF Init, NoConn
<1>3. SideInv
  BY <1>1, <1>2 DEF SideInv
<1>4. ProgressInv
  BY DEF Init, ProgressInv
<1>5. PassedInv
  BY <1>2 DEF Init, PassedInv, Idle
<1>6. AnswerInv
  BY <1>1 DEF AnswerInv, Awaits
<1> QED BY <1>3, <1>4, <1>5, <1>6

LEMMA StepKeepsSideInv ==
  ASSUME DInv, SideInv, [Next]_vars
  PROVE  SideInv'
<1>0. client \in [All -> Side] /\ \A k \in All : client[k].chan \in Conn \cup {NULL}
  BY DEF DInv, Types, Side
<1>1. \A k \in All : client'[k].sent => client'[k].waiting
  BY ClientFrame DEF SideInv
<1>2. \A k \in All : client'[k].chan = client[k].chan \/ \E c \in Conn : Connect(k, c)
  BY ClientFrame DEF SideInv
<1>3. \A k \in All : client'[k].chan # NULL => conn'[client'[k].chan].st # "none"
  <2> TAKE k \in All
  <2>1. CASE client'[k].chan = client[k].chan
    BY <1>0, <2>1, StillOpen DEF SideInv
  <2>2. ASSUME NEW c \in Conn, Connect(k, c) PROVE conn'[client'[k].chan].st # "none"
    BY <2>2, ConnectDoes
  <2> QED BY <1>2, <2>1, <2>2
<1>4. ASSUME NEW j \in All, NEW k \in All, NEW c \in Conn, Connect(k, c), j # k,
             client'[j].chan # NULL
      PROVE  client'[j].chan # client'[k].chan
  <2>1. client'[j] = client[j] /\ client'[k].chan = c /\ conn[c].st = "none"
    BY <1>4, ConnectDoes
  <2>2. conn[client[j].chan].st # "none"
    BY <1>4, <2>1 DEF SideInv
  <2> QED BY <2>1, <2>2
<1>5. \A j, k \in All : client'[j].chan # NULL /\ client'[j].chan = client'[k].chan => j = k
  <2> TAKE j, k \in All
  <2>1. CASE client'[j].chan = client[j].chan /\ client'[k].chan = client[k].chan
    BY <2>1 DEF SideInv
  <2>2. CASE \E c \in Conn : Connect(k, c)
    BY <1>4, <2>2
  <2>3. CASE \E c \in Conn : Connect(j, c)
    BY <1>4, <2>3
  <2> QED BY <1>2, <2>1, <2>2, <2>3
<1>6. \A c \in Conn : conn'[c].pdu # NULL => conn'[c].st = "open"
  BY PduMoved DEF SideInv
<1> QED BY <1>1, <1>3, <1>5, <1>6 DEF SideInv

LEMMA StepKeepsProgressInv ==
  ASSUME DInv, ProgressInv, [Next]_vars
  PROVE  ProgressInv'
<1> SUFFICES ASSUME NEW k \in Client, NEW x \in 1 .. MaxCalls, window'[k][x] = "inprogress"
             PROVE  \E t \in Worker : thr'[t].pc = "handler" /\ thr'[t].k = k /\ thr'[t].xid = x
  BY DEF ProgressInv
<1>0. window \in [Client -> [1 .. MaxCalls -> {"none", "inprogress", "done"}]]
  BY DEF DInv, Types
<1>1. ASSUME NEW t \in Worker, thr[t].pc = "handler", thr[t].k = k, thr[t].xid = x
      PROVE  thr'[t] = thr[t]
  <2>1. ~Handler(t)
    BY <1>0, <1>1 DEF Handler, All, DispatchAssumption
  <2>2. ~dispatch(t)
    BY <1>1, <2>1 DEF dispatch, TakeJob, SaveLatest, checkduplicate, ChooseLatest, ChooseNull, Send, End
  <2> QED BY <2>2, ThreadFrame
<1>2. CASE window[k][x] = "inprogress"
  BY <1>1, <1>2 DEF ProgressInv
<1>3. CASE window[k][x] # "inprogress"
  <2>1. ASSUME NEW t \in Worker, checkduplicate(t)
        PROVE  thr'[t].pc = "handler" /\ thr'[t].k = k /\ thr'[t].xid = x
    <3>1. thr[t] \in Busy /\ Types
      BY <2>1, HeldIsOpen DEF checkduplicate, DInv
    <3>2. /\ Goto(t, "handler")
          /\ window' = [window EXCEPT ![thr[t].k][thr[t].xid] = "inprogress"]
      BY <1>3, <2>1 DEF checkduplicate
    <3>3. thr[t].k = k /\ thr[t].xid = x
      BY <1>0, <1>3, <3>2
    <3> QED BY <2>1, <3>1, <3>2, <3>3, GotoKeepsTypes DEF checkduplicate
  <2>2. ASSUME NEW t \in Worker, Handler(t) PROVE FALSE
    BY <1>0, <1>3, <2>2 DEF Handler
  <2>3. window' # window
    BY <1>3
  <2> QED BY <2>1, <2>2, <2>3 DEF Next, dispatch, Call, Transmit, GiveUp, Connect, Cut, Notice,
             got_pdu, CloseConn, TakeJob, SaveLatest, ChooseLatest, ChooseNull, Crash, Send, End,
             reg1, Stop, vars
<1> QED BY <1>2, <1>3

\* A connection that both states hold stays one the client has or had.
LEMMA PassedStays ==
  ASSUME DInv, SideInv, [Next]_vars, NEW k \in All, NEW d \in Conn,
         conn[d].st = "open", conn'[d].st = "open", Passed(k, d)
  PROVE  Passed(k, d)'
<1>0. client[k].chan \in Conn \cup {NULL} /\ conn[d].born \in Nat
  BY DEF DInv, Types, Side, Record
<1>1. conn'[d].born = conn[d].born /\ (conn[d].cut => conn'[d].cut)
  BY StillOpen
<1>2. CASE client'[k].chan = client[k].chan /\ d = client[k].chan
  BY <1>2 DEF Passed
<1>3. CASE client'[k].chan = client[k].chan /\ d # client[k].chan
  <2>1. conn'[d].cut
    BY <1>1, <1>3 DEF Passed
  <2>2. ASSUME client[k].chan \in Conn, conn'[client[k].chan].st = "open"
        PROVE  conn[d].born <= conn'[client[k].chan].born
    <3>1. conn[client[k].chan].st # "none"
      BY <2>2 DEF SideInv
    <3>2. /\ conn[client[k].chan].st = "open"
          /\ conn'[client[k].chan].born = conn[client[k].chan].born
      BY <2>2, <3>1, StillOpen
    <3> QED BY <1>3, <2>2, <3>2 DEF Passed, Open
  <2> QED BY <1>1, <1>3, <2>1, <2>2 DEF Passed, Open
<1>4. ASSUME NEW c \in Conn, Connect(k, c) PROVE Passed(k, d)'
  <2>1. client'[k].chan = c /\ conn[d].born <= conn'[c].born /\ Broken(k)
    BY <1>4, ConnectDoes
  <2>2. conn[d].cut
    BY <2>1 DEF Passed, Broken, Open
  <2> QED BY <1>1, <2>1, <2>2 DEF Passed
<1> QED BY <1>2, <1>3, <1>4, ClientFrame DEF SideInv

\* HeldIsOpen before and after a step.
HeldOpen ==
  /\ \A k \in Client : latest[k] # NULL => latest[k] \in Conn /\ conn[latest[k]].st = "open"
  /\ \A i \in DOMAIN jobs : jobs[i] \in Job /\ conn[jobs[i].c].st = "open"
  /\ \A t \in Worker : thr[t].pc # "idle" => thr[t] \in Busy /\ conn[thr[t].c].st = "open"

LEMMA HeldOpenNow == DInv => HeldOpen
<1> QED BY HeldIsOpen DEF HeldOpen

LEMMA HeldOpenNext == DInv' => HeldOpen'
<1> QED BY HeldOpenNow, PTL

LEMMA StepKeepsPassedInv ==
  ASSUME DInv, DInv', SideInv, SideInv', PassedInv, [Next]_vars
  PROVE  PassedInv'
<1>0. HeldOpen /\ HeldOpen'
  BY HeldOpenNow, HeldOpenNext
<1>1. \A c \in Conn : conn[c].pdu # NULL => conn[c].pdu.k \in All /\ conn[c].st = "open"
  BY DEF DInv, Types, Record, Pdu, SideInv
<1>2. ASSUME NEW c \in Conn, NEW k \in All, conn'[c].pdu # NULL, conn'[c].pdu.k = k
      PROVE  Passed(k, c)'
  <2>1. conn'[c].st = "open"
    BY <1>2 DEF SideInv
  <2>2. CASE conn'[c].pdu = conn[c].pdu
    BY <1>1, <1>2, <2>1, <2>2, PassedStays DEF PassedInv
  <2>3. ASSUME NEW m \in All, Transmit(m), c = client[m].chan,
               conn'[c].pdu = [k |-> m, xid |-> client[m].xid]
        PROVE  Passed(k, c)'
    <3>1. m = k
      BY <1>2, <2>3
    <3>2. client'[k].chan = c
      BY <2>3, <3>1, TransmitDoes
    <3> QED BY <3>2 DEF Passed
  <2> QED BY <1>2, <2>2, <2>3, PduMoved
<1>3. ASSUME NEW i \in DOMAIN jobs', NEW k \in All, NEW d \in Conn,
             jobs'[i].pdu.k = k, jobs'[i].c = d
      PROVE  Passed(k, d)'
  <2>1. conn'[d].st = "open"
    BY <1>0, <1>3 DEF HeldOpen
  <2>2. ASSUME NEW n \in DOMAIN jobs, jobs'[i] = jobs[n]
        PROVE  Passed(k, d) /\ conn[d].st = "open"
    BY <1>0, <1>3, <2>2 DEF HeldOpen, PassedInv
  <2>3. ASSUME NEW c \in Conn, conn[c].pdu # NULL, jobs'[i] = [c |-> c, pdu |-> conn[c].pdu]
        PROVE  Passed(k, d) /\ conn[d].st = "open"
    BY <1>1, <1>3, <2>3 DEF PassedInv
  <2> QED BY <2>1, <2>2, <2>3, JobMoved, PassedStays
<1>4. ASSUME NEW t \in Worker, NEW k \in All, NEW d \in Conn, thr'[t].pc # "idle",
             thr'[t].k = k, thr'[t].c = d
      PROVE  Passed(k, d)'
  <2>1. conn'[d].st = "open"
    BY <1>0, <1>4 DEF HeldOpen
  <2>2. CASE thr[t].pc # "idle" /\ thr'[t].k = thr[t].k /\ thr'[t].c = thr[t].c
    BY <1>0, <1>4, <2>1, <2>2, PassedStays DEF HeldOpen, PassedInv
  <2>3. CASE jobs # <<>> /\ thr'[t].k = Head(jobs).pdu.k /\ thr'[t].c = Head(jobs).c
    <3>1. 1 \in DOMAIN jobs /\ Head(jobs) = jobs[1]
      BY <2>3 DEF DInv, Types
    <3>2. Passed(k, d) /\ conn[d].st = "open"
      BY <1>0, <1>4, <2>3, <3>1 DEF HeldOpen, PassedInv
    <3> QED BY <2>1, <3>2, PassedStays
  <2>4. CASE thr[t].k \in Client /\ thr'[t].k = thr[t].k /\ thr'[t].c = latest[thr[t].k]
             /\ latest[thr[t].k] # NULL
    BY <1>0, <1>4, <2>1, <2>4, PassedStays DEF HeldOpen, PassedInv
  <2> QED BY <1>4, <2>2, <2>3, <2>4, ThreadMoved
<1>5. ASSUME NEW k \in Client, NEW d \in Conn, latest'[k] = d
      PROVE  Passed(k, d)'
  <2>1. k \in All /\ conn'[d].st = "open" /\ d # NULL
    BY <1>0, <1>5 DEF HeldOpen, All
  <2>2. CASE latest'[k] = latest[k]
    BY <1>0, <1>5, <2>1, <2>2, PassedStays DEF HeldOpen, PassedInv
  <2>3. CASE latest'[k] # latest[k]
    <3>1. PICK t \in Worker : thr[t].pc = "save" /\ thr[t].k = k /\ latest'[k] = thr[t].c
      BY <2>3, LatestMoved
    <3>2. Passed(k, d) /\ conn[d].st = "open"
      BY <1>0, <1>5, <3>1 DEF HeldOpen, PassedInv
    <3> QED BY <2>1, <3>2, PassedStays
  <2> QED BY <2>2, <2>3
<1>6. \A c \in Conn : conn'[c].pdu # NULL => conn'[c].pdu.k \in All
  BY DEF DInv, Types, Record, Pdu
<1>7. /\ \A i \in DOMAIN jobs' : jobs'[i].c \in Conn /\ jobs'[i].pdu.k \in All
      /\ \A t \in Worker : thr'[t].pc # "idle" => thr'[t].c \in Conn /\ thr'[t].k \in All
      /\ \A k \in Client : latest'[k] # NULL => latest'[k] \in Conn
  BY <1>0 DEF HeldOpen, Job, Pdu, Busy
<1> QED BY <1>2, <1>3, <1>4, <1>5, <1>6, <1>7 DEF PassedInv, Passed

-----------------------------------------------------------------------------
(* The steps keep AnswerInv *)

\* A client that awaits its answer after a step either has just sent its request, or
\* awaited the same answer on the same connection before.
LEMMA StillAwaits ==
  ASSUME DInv, SideInv, [Next]_vars, NEW k \in All, Awaits(k)', ~Transmit(k)
  PROVE  /\ Awaits(k) /\ client[k].chan \in Conn
         /\ client'[k].chan = client[k].chan /\ client'[k].xid = client[k].xid
         /\ conn[client[k].chan].st = "open" /\ conn'[client[k].chan].st = "open"
         /\ conn'[client[k].chan].born = conn[client[k].chan].born
         /\ ~conn[client[k].chan].cut /\ ~conn[client[k].chan].dead
         /\ ~conn'[client[k].chan].dead
         /\ client'[k].waiting /\ ~client'[k].lost
<1>1. /\ client'[k].waiting /\ client'[k].sent /\ ~client'[k].lost
      /\ client'[k].chan \in Conn /\ conn'[client'[k].chan].st = "open"
      /\ ~conn'[client'[k].chan].cut /\ ~conn'[client'[k].chan].dead
  BY DEF Awaits, Broken, Open
<1>2. /\ client'[k].chan = client[k].chan /\ client'[k].xid = client[k].xid
      /\ client[k].sent /\ ~client[k].lost /\ client[k].waiting
  BY <1>1, ClientFrame DEF SideInv
<1>3. client[k].chan \in Conn /\ client[k].chan # NULL
  BY <1>1, <1>2, DispatchAssumption
<1>4. conn[client[k].chan].st # "none"
  BY <1>3 DEF SideInv
<1>5. /\ conn[client[k].chan].st = "open"
      /\ conn'[client[k].chan].born = conn[client[k].chan].born
      /\ ~conn[client[k].chan].cut /\ ~conn[client[k].chan].dead
  BY <1>1, <1>2, <1>3, <1>4, StillOpen
<1>6. Awaits(k)
  BY <1>2, <1>3, <1>5 DEF Awaits, Broken, Open
<1> QED BY <1>1, <1>2, <1>3, <1>5, <1>6

\* Once conns_ has taken notice of the client's connection it does not go back to an
\* older one, and it does not come to it from another one as new.
LEMMA SavedStays ==
  ASSUME DInv, DInv', SideInv, [Next]_vars, NEW k \in All, Awaits(k)', ~Transmit(k), Saved(k)
  PROVE  Saved(k)' /\ (latest[k] # client[k].chan => latest'[k] # client'[k].chan)
<1>0. HeldOpen /\ HeldOpen' /\ \A d \in Conn : conn[d].born \in Nat
  BY HeldOpenNow, HeldOpenNext DEF DInv, Types, Record
<1>1. /\ client[k].chan \in Conn /\ client'[k].chan = client[k].chan
      /\ conn'[client[k].chan].born = conn[client[k].chan].born
  BY StillAwaits
<1>2. k \in Client /\ latest[k] # NULL /\ conn[latest[k]].born >= conn[client[k].chan].born
  BY DEF Saved
<1>3. latest[k] \in Conn /\ conn[latest[k]].st = "open"
  BY <1>0, <1>2 DEF HeldOpen
<1>4. CASE latest'[k] = latest[k]
  <2>1. conn'[latest[k]].st = "open"
    BY <1>0, <1>2, <1>4 DEF HeldOpen
  <2>2. conn'[latest[k]].born = conn[latest[k]].born
    BY <1>3, <2>1, StillOpen
  <2> QED BY <1>1, <1>2, <1>4, <2>2 DEF Saved
<1>5. CASE latest'[k] # latest[k]
  <2>1. PICK t \in Worker : /\ thr[t].pc = "save" /\ thr[t].c \in Conn /\ latest'[k] = thr[t].c
                            /\ conn[latest[k]].born < conn[thr[t].c].born
    BY <1>2, <1>5, LatestMoved
  <2>2. conn[thr[t].c].st = "open" /\ latest'[k] # NULL
    BY <1>0, <2>1, DispatchAssumption DEF HeldOpen
  <2>3. conn'[thr[t].c].st = "open"
    BY <1>0, <1>2, <2>1, <2>2 DEF HeldOpen
  <2>4. conn'[thr[t].c].born = conn[thr[t].c].born
    BY <2>1, <2>2, <2>3, StillOpen
  <2>5. conn'[latest'[k]].born > conn[client[k].chan].born
    BY <1>0, <1>1, <1>2, <1>3, <2>1, <2>4
  <2>6. latest'[k] # client'[k].chan
    BY <1>0, <1>1, <2>1, <2>4, <2>5
  <2> QED BY <1>0, <1>1, <1>2, <2>1, <2>2, <2>4, <2>5, <2>6 DEF Saved
<1> QED BY <1>4, <1>5

\* A queued job stays queued until a thread takes it.
LEMMA JobStays ==
  ASSUME DInv, [Next]_vars, NEW i \in DOMAIN jobs
  PROVE  \/ \E n \in DOMAIN jobs' : jobs'[n] = jobs[i]
         \/ jobs[i] = Head(jobs) /\ \E t \in Worker : TakeJob(t)
<1>0. jobs \in Seq(Job)
  BY DEF DInv, Types
<1>1. CASE jobs' = jobs
  BY <1>1
<1>2. ASSUME NEW c \in Conn, got_pdu(c) PROVE \E n \in DOMAIN jobs' : jobs'[n] = jobs[i]
  <2> DEFINE j == [c |-> c, pdu |-> conn[c].pdu]
  <2>1. jobs' = Append(jobs, j)
    BY <1>2 DEF got_pdu
  <2> HIDE DEF j
  <2>2. i \in DOMAIN jobs' /\ jobs'[i] = jobs[i]
    BY <1>0, <2>1
  <2> QED BY <2>2
<1>3. ASSUME NEW t \in Worker, TakeJob(t)
      PROVE  (\E n \in DOMAIN jobs' : jobs'[n] = jobs[i]) \/ jobs[i] = Head(jobs)
  <2>1. jobs # <<>> /\ jobs' = Tail(jobs)
    BY <1>3, TakeJobDoes
  <2>2. CASE i = 1
    BY <1>0, <2>2
  <2>3. CASE i # 1
    <3>1. i - 1 \in DOMAIN jobs' /\ jobs'[i - 1] = jobs[i]
      BY <1>0, <2>1, <2>3
    <3> QED BY <3>1
  <2> QED BY <2>2, <2>3
<1> QED BY <1>1, <1>2, <1>3 DEF Next, dispatch, Call, Transmit, GiveUp, Connect, Cut, Notice,
           CloseConn, SaveLatest, checkduplicate, Handler, ChooseLatest, ChooseNull, Crash, Send,
           End, reg1, Stop, vars

\* The places the answer can come from.
FromPdu(k) == conn[client[k].chan].pdu = [k |-> k, xid |-> client[k].xid]
FromJob(k) == \E i \in DOMAIN jobs : /\ jobs[i].c = client[k].chan
                                     /\ jobs[i].pdu = [k |-> k, xid |-> client[k].xid]
FromThread(k) == \E t \in Worker :
                   /\ Works(t, k) /\ thr[t].c = client[k].chan
                   /\ \/ thr[t].pc \in {"send_old", "save", "handler", "choose", "send"}
                      \/ thr[t].pc = "duplicate" /\ Saved(k)
FromOther(k) == Saved(k) /\ \E t \in Worker : Works(t, k) /\ thr[t].pc \in {"handler", "choose"}
AtOther(k) == Saved(k) /\ latest[k] # client[k].chan

LEMMA ExpectedIs ==
  ASSUME NEW k \in All
  PROVE  Expected(k) <=> FromPdu(k) \/ FromJob(k) \/ FromThread(k) \/ FromOther(k) \/ AtOther(k)
<1> QED BY DEF Expected, FromPdu, FromJob, FromThread, FromOther, AtOther

LEMMA PduStep ==
  ASSUME DInv, SideInv, [Next]_vars, NEW k \in All, Awaits(k)', ~Transmit(k), FromPdu(k)
  PROVE  FromPdu(k)' \/ FromJob(k)'
<1> DEFINE c == client[k].chan
<1>1. /\ c \in Conn /\ client'[k].chan = c /\ client'[k].xid = client[k].xid
      /\ conn'[c].st = "open" /\ ~conn'[c].dead /\ conn[c].st = "open"
  BY StillAwaits
<1>2. CASE Later(conn[c], conn'[c])
  BY <1>1, <1>2 DEF Later, FromPdu
<1>3. CASE got_pdu(c)
  <2> DEFINE j == [c |-> c, pdu |-> conn[c].pdu]
  <2>1. jobs' = Append(jobs, j) /\ jobs \in Seq(Job)
    BY <1>3 DEF got_pdu, DInv, Types
  <2>2. j.c = c /\ j.pdu = conn[c].pdu
    OBVIOUS
  <2> HIDE DEF j
  <2>3. Len(jobs) + 1 \in DOMAIN jobs' /\ jobs'[Len(jobs) + 1] = j
    BY <2>1
  <2> QED BY <1>1, <2>2, <2>3 DEF FromJob, FromPdu
<1>4. ASSUME NEW m \in All, Connect(m, c) PROVE FALSE
  BY <1>1, <1>4, ConnectDoes
<1>5. ASSUME NEW m \in All, Transmit(m), c = client[m].chan PROVE FALSE
  <2>1. m = k
    BY <1>1, <1>5, DispatchAssumption DEF SideInv
  <2> QED BY <1>5, <2>1
<1> QED BY <1>1, <1>2, <1>3, <1>4, <1>5, ConnFrame

LEMMA LostIs ==
  ASSUME DInv, NEW k \in All, Lost(k, client[k].xid)
  PROVE  client'[k].lost
<1>1. client[k] \in Side /\ client \in [All -> Side]
  BY DEF DInv, Types
<1>2. client' = [client EXCEPT ![k] = [client[k] EXCEPT !.lost = TRUE]]
  BY <1>1 DEF Lost
<1> QED BY <1>1, <1>2 DEF Side

LEMMA JobStep ==
  ASSUME DInv, SideInv, [Next]_vars, NEW k \in All, Awaits(k)', ~Transmit(k), FromJob(k)
  PROVE  FromJob(k)' \/ FromThread(k)'
<1>1. /\ client'[k].chan = client[k].chan /\ client'[k].xid = client[k].xid /\ ~client'[k].lost
  BY StillAwaits
<1>2. PICK i \in DOMAIN jobs : /\ jobs[i].c = client[k].chan
                               /\ jobs[i].pdu = [k |-> k, xid |-> client[k].xid]
  BY DEF FromJob
<1>3. CASE \E n \in DOMAIN jobs' : jobs'[n] = jobs[i]
  BY <1>1, <1>2, <1>3 DEF FromJob
<1>4. ASSUME NEW t \in Worker, TakeJob(t), jobs[i] = Head(jobs) PROVE FromThread(k)'
  <2>1. thr'[t].c = client[k].chan /\ thr'[t].k = k /\ thr'[t].xid = client[k].xid
    BY <1>2, <1>4, TakeJobDoes
  <2>2. CASE Lost(Head(jobs).pdu.k, Head(jobs).pdu.xid)
    BY <1>1, <1>2, <1>4, <2>2, LostIs
  <2>3. CASE thr'[t].pc \in {"send_old", "handler", "save"}
    BY <1>1, <2>1, <2>3 DEF FromThread, Works
  <2> QED BY <1>4, <2>2, <2>3, TakeJobDoes
<1> QED BY <1>3, <1>4, JobStays

\* A thread that saves the client's own connection in conns_ leaves it or one made no
\* earlier there.
LEMMA SaveLatestSaves ==
  ASSUME DInv, NEW t \in Worker, SaveLatest(t)
  PROVE  /\ thr[t].k \in Client /\ latest'[thr[t].k] # NULL
         /\ \/ latest'[thr[t].k] = thr[t].c
            \/ conn' = conn /\ conn[latest'[thr[t].k]].born >= conn[thr[t].c].born
<1>1. thr[t].c \in Conn /\ thr[t].k \in Client /\ latest \in [Client -> Conn \cup {NULL}]
  BY HeldIsOpen DEF SaveLatest, DInv, Types, ThreadInv, Busy
<1>2. \A d \in Conn : conn[d].born \in Nat
  BY DEF DInv, Types, Record
<1>3. CASE latest' = [latest EXCEPT ![thr[t].k] = thr[t].c]
  BY <1>1, <1>3, DispatchAssumption
<1>4. CASE /\ latest[thr[t].k] # NULL /\ ~Older(latest[thr[t].k], thr[t].c)
           /\ conn' = conn /\ latest' = latest
  <2>1. latest[thr[t].k] \in Conn
    BY <1>1, <1>4
  <2>2. conn[latest[thr[t].k]].born >= conn[thr[t].c].born
    BY <1>1, <1>2, <1>4, <2>1 DEF Older
  <2> QED BY <1>1, <1>4, <2>2
<1> QED BY <1>3, <1>4 DEF SaveLatest

LEMMA ThreadStep ==
  ASSUME DInv, DInv', SideInv, ProgressInv, [Next]_vars, NEW k \in All, Awaits(k)', ~Transmit(k),
         FromThread(k)
  PROVE  FromThread(k)' \/ FromOther(k)'
<1> DEFINE c == client[k].chan
<1>1. /\ c \in Conn /\ client'[k].chan = c /\ client'[k].xid = client[k].xid
      /\ conn'[c].st = "open" /\ ~conn[c].dead /\ ~conn[c].cut /\ ~client'[k].lost
      /\ client'[k].waiting
  BY StillAwaits
<1>2. PICK t \in Worker : /\ thr[t].k = k /\ thr[t].xid = client[k].xid /\ thr[t].c = c
                          /\ \/ thr[t].pc \in {"send_old", "save", "handler", "choose", "send"}
                             \/ thr[t].pc = "duplicate" /\ Saved(k)
  BY DEF FromThread, Works
<1>3. thr[t] \in Busy /\ Types
  BY <1>2, HeldIsOpen DEF DInv
<1>4. ASSUME NEW pc \in {"handler", "choose", "send"}, Goto(t, pc) PROVE FromThread(k)'
  <2>1. thr'[t].pc = pc /\ thr'[t].c = c /\ thr'[t].k = k /\ thr'[t].xid = client[k].xid
    BY <1>2, <1>3, <1>4, GotoKeepsTypes
  <2> QED BY <1>1, <2>1 DEF FromThread, Works
<1>5. CASE thr'[t] = thr[t]
  <2>1. thr[t].pc = "duplicate" => Saved(k)'
    BY <1>2, SavedStays
  <2> QED BY <1>1, <1>2, <1>5, <2>1 DEF FromThread, Works
<1>6. CASE SaveLatest(t)
  <2>1. Goto(t, "duplicate") /\ thr[t].pc = "save"
    BY <1>6 DEF SaveLatest
  <2>2. thr'[t].pc = "duplicate" /\ thr'[t].c = c /\ thr'[t].k = k /\ thr'[t].xid = client[k].xid
    BY <1>2, <1>3, <2>1, GotoKeepsTypes
  <2>3. k \in Client /\ latest'[k] # NULL
    BY <1>2, <1>6, SaveLatestSaves
  <2>4. conn'[latest'[k]].born >= conn'[c].born
    <3>1. conn'[c].born \in Nat
      BY <1>1 DEF DInv, Types, Record
    <3>2. CASE latest'[k] = c
      BY <3>1, <3>2
    <3>3. CASE conn' = conn /\ conn[latest'[k]].born >= conn[c].born
      BY <3>3
    <3> QED BY <1>2, <1>6, <3>2, <3>3, SaveLatestSaves
  <2>5. Saved(k)'
    BY <1>1, <2>3, <2>4 DEF Saved
  <2> QED BY <1>1, <2>2, <2>5 DEF FromThread, Works
<1>7. CASE checkduplicate(t)
  <2>1. thr[t].pc = "duplicate" /\ Saved(k) /\ Saved(k)'
    BY <1>2, <1>7, SavedStays DEF checkduplicate
  <2>2. CASE Goto(t, "handler") \/ Goto(t, "send")
    BY <1>4, <2>2
  <2>3. CASE window[thr[t].k][thr[t].xid] = "inprogress"
    <3>1. k \in Client /\ thr[t].xid \in 1 .. MaxCalls
      BY <1>3, <2>1 DEF Saved, Busy
    <3>2. PICK u \in Worker : thr[u].pc = "handler" /\ thr[u].k = k /\ thr[u].xid = thr[t].xid
      BY <1>2, <2>3, <3>1 DEF ProgressInv
    <3>3. u # t
      BY <2>1, <3>2
    <3>4. thr'[u] = thr[u]
      BY <1>3, <1>7, <3>3, <2>1, GotoKeepsTypes DEF checkduplicate
    <3> QED BY <1>1, <1>2, <2>1, <3>2, <3>4 DEF FromOther, Works
  <2> QED BY <1>7, <2>2, <2>3 DEF checkduplicate
<1>8. CASE Handler(t)
  BY <1>4, <1>8 DEF Handler
<1>9. CASE ChooseLatest(t)
  <2>1. thr'[t].pc = "send" /\ thr'[t].k = k /\ thr'[t].xid = client[k].xid /\ thr'[t].c = c
    BY <1>1, <1>2, <1>9, ChooseLatestDoes
  <2> QED BY <1>1, <2>1 DEF FromThread, Works
<1>10. CASE Send(t)
  <2>1. client' = [client EXCEPT ![k] = Answered(@, client[k].xid)]
    BY <1>1, <1>2, <1>10, SendDoes
  <2>2. client'[k] = Answered(client[k], client[k].xid) /\ client[k] \in Side
    BY <2>1 DEF DInv, Types
  <2>3. ~client'[k].waiting
    BY <2>2 DEF Answered, Side
  <2> QED BY <1>1, <2>3
<1>11. CASE TakeJob(t) \/ ChooseNull(t) \/ End(t)
  BY <1>1, <1>2, <1>11 DEF TakeJob, ChooseNull, End
<1> QED BY <1>5, <1>6, <1>7, <1>8, <1>9, <1>10, <1>11, ThreadFrame DEF dispatch

LEMMA OtherStep ==
  ASSUME DInv, DInv', SideInv, PassedInv, [Next]_vars, NEW k \in All, Awaits(k)', ~Transmit(k),
         FromOther(k)
  PROVE  FromThread(k)' \/ FromOther(k)' \/ AtOther(k)'
<1> DEFINE c == client[k].chan
<1>1. /\ c \in Conn /\ client'[k].chan = c /\ client'[k].xid = client[k].xid
      /\ ~conn[c].dead /\ ~client'[k].lost
  BY StillAwaits
<1>2. Saved(k) /\ Saved(k)' /\ (latest[k] # c => latest'[k] # c) /\ k \in Client /\ latest[k] # NULL
  BY <1>1, SavedStays DEF FromOther, Saved
<1>3. PICK t \in Worker : /\ thr[t].k = k /\ thr[t].xid = client[k].xid
                          /\ thr[t].pc \in {"handler", "choose"}
  BY DEF FromOther, Works
<1>4. CASE latest[k] # c
  BY <1>1, <1>2, <1>4 DEF AtOther
<1>5. CASE latest[k] = c
  <2>1. thr[t] \in Busy /\ Types
    BY <1>3, HeldIsOpen DEF DInv
  <2>2. CASE thr'[t] = thr[t]
    BY <1>1, <1>2, <1>3, <2>2 DEF FromOther, Works
  <2>3. CASE Handler(t)
    <3>1. thr'[t].pc = "choose" /\ thr'[t].k = k /\ thr'[t].xid = client[k].xid
      BY <1>3, <2>1, <2>3, GotoKeepsTypes DEF Handler
    <3> QED BY <1>1, <1>2, <3>1 DEF FromOther, Works
  <2>4. CASE ChooseLatest(t)
    <3>1. thr'[t].pc = "send" /\ thr'[t].k = k /\ thr'[t].xid = client[k].xid
      BY <1>3, <2>4, ChooseLatestDoes
    <3>2. thr'[t].c = c
      <4>1. thr[t].c = c \/ conn[thr[t].c].cut
        BY <1>3 DEF PassedInv, Passed
      <4>2. CASE thr[t].c # c /\ Lost(k, client[k].xid)
        BY <1>1, <4>2, LostIs
      <4> QED BY <1>1, <1>2, <1>3, <1>5, <2>4, <4>1, <4>2, ChooseLatestDoes
    <3> QED BY <1>1, <3>1, <3>2 DEF FromThread, Works
  <2>5. ~ChooseNull(t)
    BY <1>2, <1>3, DispatchAssumption DEF ChooseNull
  <2>6. ~(TakeJob(t) \/ SaveLatest(t) \/ checkduplicate(t) \/ Send(t) \/ End(t))
    BY <1>3 DEF TakeJob, SaveLatest, checkduplicate, Send, End
  <2> QED BY <2>2, <2>3, <2>4, <2>5, <2>6, ThreadFrame DEF dispatch
<1> QED BY <1>4, <1>5

LEMMA StepKeepsAnswerInv ==
  ASSUME DInv, DInv', SideInv, ProgressInv, PassedInv, AnswerInv, [Next]_vars
  PROVE  AnswerInv'
<1> SUFFICES ASSUME NEW k \in All, Awaits(k)' PROVE Expected(k)'
  BY DEF AnswerInv
<1>1. FromPdu(k)' \/ FromJob(k)' \/ FromThread(k)' \/ FromOther(k)' \/ AtOther(k)'
  <2>1. CASE Transmit(k)
    BY <2>1, TransmitDoes DEF FromPdu
  <2>2. CASE ~Transmit(k)
    <3>1. Awaits(k)
      BY <2>2, StillAwaits
    <3>2. FromPdu(k) \/ FromJob(k) \/ FromThread(k) \/ FromOther(k) \/ AtOther(k)
      BY <3>1, ExpectedIs DEF AnswerInv
    <3>3. AtOther(k) => AtOther(k)'
      BY <2>2, SavedStays DEF AtOther
    <3> QED BY <2>2, <3>2, <3>3, PduStep, JobStep, ThreadStep, OtherStep
  <2> QED BY <2>1, <2>2
<1> QED BY <1>1 DEF Expected, FromPdu, FromJob, FromThread, FromOther, AtOther

LEMMA AnswersInductive == Spec => []QInv
<1>1. Init => QInv
  BY InitDInv, InitQuiet DEF QInv
<1>2. QInv /\ [Next]_vars => QInv'
  <2> SUFFICES ASSUME QInv, [Next]_vars PROVE QInv'
    OBVIOUS
  <2>1. DInv /\ SideInv /\ ProgressInv /\ PassedInv /\ AnswerInv
    BY DEF QInv
  <2>2. DInv'
    BY <2>1, StepKeepsDInv
  <2>3. SideInv' /\ ProgressInv'
    BY <2>1, StepKeepsSideInv, StepKeepsProgressInv
  <2>4. PassedInv' /\ AnswerInv'
    BY <2>1, <2>2, <2>3, StepKeepsPassedInv, StepKeepsAnswerInv
  <2> QED BY <2>2, <2>3, <2>4 DEF QInv
<1> QED BY <1>1, <1>2, PTL DEF Spec

-----------------------------------------------------------------------------
(* Theorems *)

\* No path of dispatch leaks or over-releases a reference but the one that refuses
\* a call to an earlier server instance (rpcs::dispatch, connection::incref and
\* decref): the count of every open connection is the number of places that hold it
\* plus the references that path kept, for any number of connections and threads.
THEOREM RefsExactHolds == Spec => []RefsExact
<1>1. DInv => RefsExact
  BY DEF DInv, RefInv, RefsExact, Open
<1> QED BY <1>1, ReferencesInductive, PTL

\* A connection is deleted by the last decref only when the table, the queue, the
\* threads and rpcs::conns_ have let go of it, and dispatch never calls a method on
\* the missing entry of a client that has a nonce.
THEOREM NoUseAfterDeleteHolds == Spec => []NoUseAfterDelete
<1>1. DInv => NoUseAfterDelete
  <2> SUFFICES ASSUME DInv PROVE NoUseAfterDelete
    OBVIOUS
  <2>1. table \subseteq Open
    BY HeldIsOpen DEF DInv, Types, Open
  <2>2. \A k \in Client : latest[k] \in Open \cup {NULL}
    BY HeldIsOpen DEF Open
  <2>3. \A i \in DOMAIN jobs : jobs[i].c \in Open
    BY HeldIsOpen DEF Open, Job
  <2>4. \A t \in Worker : thr[t].c \in Open \cup {NULL}
    <3> TAKE t \in Worker
    <3>1. CASE thr[t].pc # "idle"
      BY <3>1, HeldIsOpen DEF Open, Busy
    <3>2. CASE thr[t].pc = "idle"
      <4>1. thr[t] \in Busy \cup {Idle}
        BY DEF DInv, Types
      <4> QED BY <3>2, <4>1 DEF Busy, Idle
    <3> QED BY <3>1, <3>2
  <2>5. \A t \in Worker : thr[t].pc = "choose" /\ thr[t].k \in Client => latest[thr[t].k] # NULL
    BY DEF DInv, ThreadInv
  <2> QED BY <2>1, <2>2, <2>3, <2>4, <2>5 DEF NoUseAfterDelete
<1> QED BY <1>1, ReferencesInductive, PTL

\* Every part of the state of the rpcs and its clients stays in its range; the
\* dispatch pool never holds more than QueueMax jobs.
THEOREM TypeCorrect == Spec => []TypeOK
<1>1. DInv => TypeOK
  <2> SUFFICES ASSUME Types PROVE TypeOK
    BY DEF DInv
  <2>1. \A c \in Conn : conn[c] \in Record
    BY DEF Types
  <2>2. \A t \in Worker : thr[t] \in Busy \cup {Idle}
    BY DEF Types
  <2>3. \A t \in Worker : thr[t].c \in Conn \cup {NULL} /\ thr[t].k \in All \cup {NULL}
    BY <2>2 DEF Busy, Idle
  <2>4. \A c \in Conn : /\ conn[c].st \in {"none", "open", "deleted"}
                        /\ conn[c].refno \in Nat /\ conn[c].born \in Nat
                        /\ conn[c].pdu \in [k : All, xid : 1 .. MaxCalls] \cup {NULL}
    BY <2>1 DEF Record, Pdu
  <2> QED BY <2>3, <2>4 DEF Types, TypeOK
<1> QED BY <1>1, ReferencesInductive, PTL

\* The request goes out once on a connection, so the server must not let its answer go
\* astray between the connections of the client (rpcs::dispatch): when nothing of a
\* client is queued or being worked on, a client that waits on a good connection is one
\* of the exceptions the property names, for any number of connections, clients,
\* threads, calls and broken connections.
THEOREM AnsweredWhenQuietHolds == Spec => []AnsweredWhenQuiet
<1>1. QInv => AnsweredWhenQuiet
  <2> SUFFICES ASSUME QInv, NEW k \in All, client[k].waiting, client[k].sent, ~Broken(k),
                      ~conn[client[k].chan].dead, ~OnItsWay(k), ~client[k].lost
               PROVE  /\ k \in Client /\ latest[k] # client[k].chan
                      /\ conn[latest[k]].born = conn[client[k].chan].born
    BY DEF AnsweredWhenQuiet
  <2>0. HeldOpen /\ \A d \in Conn : conn[d].born \in Nat
    BY HeldOpenNow DEF QInv, DInv, Types, Record
  <2>1. client[k].chan \in Open /\ client[k].chan \in Conn
    BY DEF Broken, Open
  <2>2. Expected(k)
    BY DEF QInv, AnswerInv, Awaits
  <2>3. ~FromPdu(k)
    <3>1. client[k].xid > 0 /\ client[k].xid \in 0 .. MaxCalls
      BY DEF QInv, DInv, Types, Side
    <3>2. [k |-> k, xid |-> client[k].xid] # NULL
      BY <3>1, RequestAssumption DEF All
    <3> QED BY <2>1, <3>2 DEF FromPdu, OnItsWay
  <2>4. ~FromJob(k)
    BY DEF FromJob, OnItsWay
  <2>5. ~FromThread(k) /\ ~FromOther(k)
    BY DEF FromThread, FromOther, Works, OnItsWay
  <2>6. AtOther(k)
    BY <2>2, <2>3, <2>4, <2>5, ExpectedIs
  <2>7. /\ k \in Client /\ latest[k] # NULL /\ latest[k] # client[k].chan
        /\ conn[latest[k]].born >= conn[client[k].chan].born
    BY <2>6 DEF AtOther, Saved
  <2>8. conn[latest[k]].born <= conn[client[k].chan].born /\ latest[k] \in Conn
    BY <2>0, <2>1, <2>7 DEF QInv, PassedInv, Passed, HeldOpen
  <2> QED BY <2>0, <2>1, <2>7, <2>8
<1> QED BY <1>1, AnswersInductive, PTL
=============================================================================
