----------------------------- MODULE Dispatch -----------------------------
(***************************************************************************)
(* How an rpcs shares connection objects: the table of tcpsconn, the jobs  *)
(* of the dispatch pool, the dispatching threads and rpcs::conns_, the     *)
(* latest good connection of every client, hold counted references while   *)
(* connections die and clients come back on new ones.  A connection is     *)
(* reduced to what module Connection shows of it: dead, reference count,   *)
(* deleted by the last decref once dead; a send on a dead one does         *)
(* nothing.  A client has one call outstanding and sends it again, on a    *)
(* new connection, when its connection has broken (module Rpc).            *)
(***************************************************************************)
EXTENDS Integers, Sequences, FiniteSets

CONSTANTS Conn,      \* connection objects
          Client,    \* clients with a nonce: at-most-once, retransmission
          Plain,     \* clients with nonce 0: neither
          Worker,    \* threads of the dispatch pool
          NULL,
          QueueMax,  \* jobs the pool queues before it refuses one
          MaxCalls,  \* calls a client makes (bound)
          MaxCuts    \* connections that break (bound)

ASSUME DispatchAssumption ==
  /\ IsFiniteSet(Conn) /\ IsFiniteSet(Client) /\ IsFiniteSet(Worker)
  /\ NULL \notin Conn \cup Client \cup Plain /\ Client \cap Plain = {}
  /\ QueueMax \in Nat /\ MaxCalls \in Nat /\ MaxCuts \in Nat

\* A null PDU is no request.
ASSUME RequestAssumption == NULL \notin [k : Client \cup Plain, xid : 1 .. MaxCalls]

VARIABLES conn,     \* the connection objects
          table,    \* tcpsconn::conns_
          latest,   \* rpcs::conns_
          window,   \* at-most-once state of each call of a client
          jobs,     \* the queue of the dispatch pool
          thr,      \* the dispatching threads
          client,   \* the clients
          server,   \* "starting" (handlers not registered), "up", "stopping", "crashed"
          leaked,   \* references the old-server path has not dropped
          cuts      \* connections broken so far

vars == <<conn, table, latest, window, jobs, thr, client, server, leaked, cuts>>

All == Client \cup Plain
Open == {c \in Conn : conn[c].st = "open"}
NoConn(st) == [st |-> st, dead |-> FALSE, cut |-> FALSE, refno |-> 0, born |-> 0, pdu |-> NULL]
\* stale: bound to an earlier instance of the server
NewClient(stale) == [stale |-> stale, waiting |-> FALSE, chan |-> NULL, sent |-> FALSE, xid |-> 0,
                     lost |-> FALSE]
Idle == [pc |-> "idle", c |-> NULL, k |-> NULL, xid |-> 0]

Init ==
  /\ conn = [c \in Conn |-> NoConn("none")]
  /\ table = {}
  /\ latest = [k \in Client |-> NULL]
  /\ window = [k \in Client |-> [x \in 1 .. MaxCalls |-> "none"]]
  /\ jobs = <<>>
  /\ thr = [t \in Worker |-> Idle]
  /\ client \in [All -> {NewClient(stale) : stale \in BOOLEAN}]
  /\ server = "starting"
  /\ leaked = [c \in Conn |-> 0]
  /\ cuts = 0

----------------------------------------------------------------------------
(* Reference counts: f is a copy of conn *)

incref(f, c) == [f EXCEPT ![c].refno = @ + 1]

decref(f, c) ==
  IF f[c].refno = 1 /\ f[c].dead THEN [f EXCEPT ![c] = NoConn("deleted")]
  ELSE [f EXCEPT ![c].refno = @ - 1]

----------------------------------------------------------------------------
(* The clients and the network *)

\* A call: one request, sent on the client's connection (Transmit).
Call(k) ==
  /\ ~client[k].waiting /\ client[k].xid < MaxCalls
  /\ client' = [client EXCEPT ![k].waiting = TRUE, ![k].xid = @ + 1]
  /\ UNCHANGED <<conn, table, latest, window, jobs, thr, server, leaked, cuts>>

Broken(k) == client[k].chan \notin {c \in Open : ~conn[c].cut}

Now == {0} \cup {conn[c].born : c \in Conn}
Garbage == {c \in table : conn[c].dead /\ conn[c].refno = 1}

\* get_refconn connects again when the channel is dead, and process_accept makes
\* the connection object, collects dead ones (at least the first one it finds,
\* see Connection) and files the new one.  Two connections made within a
\* microsecond have the same create_time_.
Connect(k, c) ==
  /\ server \in {"starting", "up"} /\ client[k].waiting /\ Broken(k)
  /\ k \in Client \/ ~client[k].sent
  /\ conn[c].st = "none"
  /\ \E gone \in SUBSET Garbage, now \in Now, tick \in {0, 1} :
       /\ Garbage # {} => gone # {}
       /\ \A b \in Now : b <= now
       /\ conn' = [d \in Conn |->
                     IF d = c THEN [NoConn("open") EXCEPT !.refno = 1,
                                                     !.born = now + tick]
                     ELSE IF d \in gone THEN NoConn("deleted") ELSE conn[d]]
       /\ table' = (table \ gone) \cup {c}
  /\ client' = [client EXCEPT ![k].chan = c, ![k].sent = FALSE, ![k].lost = FALSE]
  /\ UNCHANGED <<latest, window, jobs, thr, server, leaked, cuts>>

\* call1 sends the request once on a given channel.
Transmit(k) ==
  /\ client[k].waiting /\ ~client[k].sent /\ ~Broken(k)
  /\ client' = [client EXCEPT ![k].sent = TRUE]
  /\ conn' = [conn EXCEPT ![client[k].chan].pdu = [k |-> k, xid |-> client[k].xid]]
  /\ UNCHANGED <<table, latest, window, jobs, thr, server, leaked, cuts>>

\* The wait for the reply times out for good.
GiveUp(k) ==
  /\ client[k].waiting /\ client[k].sent
  /\ client' = [client EXCEPT ![k].waiting = FALSE, ![k].sent = FALSE, ![k].lost = FALSE]
  /\ UNCHANGED <<conn, table, latest, window, jobs, thr, server, leaked, cuts>>

\* The connection breaks; the server learns of it later.
Cut(c) ==
  /\ c \in Open /\ ~conn[c].cut /\ cuts < MaxCuts
  /\ conn' = [conn EXCEPT ![c].cut = TRUE]
  /\ cuts' = cuts + 1
  /\ UNCHANGED <<table, latest, window, jobs, thr, client, server, leaked>>

\* read_cb: the end of the stream (what was not read is gone).
Notice(c) ==
  /\ c \in Open /\ conn[c].cut /\ ~conn[c].dead
  /\ conn' = [conn EXCEPT ![c].dead = TRUE, ![c].pdu = NULL]
  /\ UNCHANGED <<table, latest, window, jobs, thr, client, server, leaked, cuts>>

----------------------------------------------------------------------------
(* rpcs *)

\* lock_smain registers the handlers after the rpcs has been made.
reg1 ==
  /\ server = "starting"
  /\ server' = "up"
  /\ UNCHANGED <<conn, table, latest, window, jobs, thr, client, leaked, cuts>>

Crash ==
  /\ server' = "crashed"
  /\ UNCHANGED <<conn, table, latest, window, jobs, thr, client, leaked, cuts>>

got_pdu(c) ==
  /\ c \in Open /\ ~conn[c].dead /\ conn[c].pdu # NULL /\ Len(jobs) < QueueMax
  /\ conn' = [incref(conn, c) EXCEPT ![c].pdu = NULL]
  /\ jobs' = Append(jobs, [c |-> c, pdu |-> conn[c].pdu])
  /\ UNCHANGED <<table, latest, window, thr, client, server, leaked, cuts>>

Goto(t, pc) == thr' = [thr EXCEPT ![t].pc = pc]

\* The call t works on gets no answer from t.
Lost(k, xid) == client' = [client EXCEPT ![k].lost = @ \/ client[k].xid = xid]

\* A thread takes a job and checks the header: instance, procedure, nonce.
TakeJob(t) ==
  /\ thr[t].pc = "idle" /\ jobs # <<>>
  /\ jobs' = Tail(jobs)
  /\ LET j == Head(jobs)
         k == j.pdu.k
         At(pc) == thr' = [thr EXCEPT ![t] = [pc |-> pc, c |-> j.c, k |-> k, xid |-> j.pdu.xid]]
     IN \/ client[k].stale /\ At("send_old") /\ UNCHANGED client
        \/ /\ ~client[k].stale /\ server = "starting"
           /\ At("end") /\ Lost(k, j.pdu.xid)
        \/ /\ ~client[k].stale /\ server # "starting"
           /\ At(IF k \in Plain THEN "handler" ELSE "save") /\ UNCHANGED client
  /\ UNCHANGED <<conn, table, latest, window, server, leaked, cuts>>

\* compare: connection a was made before b.
Older(a, b) == conn[a].born < conn[b].born

\* Mutant: the replaced connection keeps its reference.
Bug_SaveLatest(t) ==
  /\ thr[t].pc = "save"
  /\ LET c == thr[t].c
         k == thr[t].k
         newer == latest[k] = NULL \/ Older(latest[k], c)
     IN /\ conn' = IF newer THEN incref(conn, c) ELSE conn
        /\ latest' = IF newer THEN [latest EXCEPT ![k] = c] ELSE latest
  /\ Goto(t, "duplicate")
  /\ UNCHANGED <<table, window, jobs, client, server, leaked, cuts>>

\* Save the latest good connection to the client.
SaveLatest(t) ==
  /\ thr[t].pc = "save"
  /\ LET c == thr[t].c
         k == thr[t].k
         old == latest[k]
     IN \/ /\ old = NULL
           /\ conn' = incref(conn, c)
           /\ latest' = [latest EXCEPT ![k] = c]
        \/ /\ old # NULL /\ Older(old, c)
           /\ conn' = incref(decref(conn, old), c)
           /\ latest' = [latest EXCEPT ![k] = c]
        \/ /\ old # NULL /\ ~Older(old, c)
           /\ UNCHANGED <<conn, latest>>
  /\ Goto(t, "duplicate")
  /\ UNCHANGED <<table, window, jobs, client, server, leaked, cuts>>

checkduplicate(t) ==
  /\ thr[t].pc = "duplicate"
  /\ LET seen == window[thr[t].k][thr[t].xid] IN
       \/ /\ seen = "none" /\ Goto(t, "handler")
          /\ window' = [window EXCEPT ![thr[t].k][thr[t].xid] = "inprogress"]
       \/ seen = "inprogress" /\ Goto(t, "end") /\ UNCHANGED window
       \/ seen = "done" /\ Goto(t, "send") /\ UNCHANGED window
  /\ UNCHANGED <<conn, table, latest, jobs, client, server, leaked, cuts>>

\* The handler returns and add_reply saves the reply.
Handler(t) ==
  /\ thr[t].pc = "handler"
  /\ window' = IF thr[t].k \in Plain THEN window
               ELSE [window EXCEPT ![thr[t].k][thr[t].xid] = "done"]
  /\ Goto(t, "choose")
  /\ UNCHANGED <<conn, table, latest, jobs, client, server, leaked, cuts>>

\* Mutants: the reply always goes to the connection the request came in on; the
\* connection chosen instead gets no reference.
Bug_ChooseSame(t) ==
  /\ thr[t].pc = "choose"
  /\ Goto(t, "send")
  /\ UNCHANGED <<conn, table, latest, window, jobs, client, server, leaked, cuts>>
Bug_ChooseLatest(t) ==
  /\ thr[t].pc = "choose"
  /\ LET c == thr[t].c
         k == thr[t].k
     IN IF k \in Client /\ conn[c].dead /\ latest[k] # c
        THEN /\ conn' = decref(conn, c)
             /\ thr' = [thr EXCEPT ![t].pc = "send", ![t].c = latest[k]]
        ELSE Goto(t, "send") /\ UNCHANGED conn
  /\ UNCHANGED <<table, latest, window, jobs, client, server, leaked, cuts>>

\* Get the latest connection to the client.  Lost records that an older connection
\* is kept because its end has not been noticed.
ChooseLatest(t) ==
  /\ thr[t].pc = "choose"
  /\ LET c == thr[t].c
         k == thr[t].k
         older == k \in Client /\ latest[k] # c
     IN \/ /\ ~conn[c].dead \/ (k \in Client /\ latest[k] = c)
           /\ Goto(t, "send") /\ UNCHANGED conn
           /\ IF older /\ conn[c].cut THEN Lost(k, thr[t].xid) ELSE UNCHANGED client
        \/ /\ conn[c].dead /\ older
           /\ conn' = incref(decref(conn, c), latest[k])
           /\ thr' = [thr EXCEPT ![t].pc = "send", ![t].c = latest[k]]
           /\ UNCHANGED client
  /\ UNCHANGED <<table, latest, window, jobs, server, leaked, cuts>>

\* A client with nonce 0 has no entry in conns_: conns_[0] is a null pointer.
ChooseNull(t) ==
  /\ thr[t].pc = "choose" /\ thr[t].k \in Plain /\ conn[thr[t].c].dead
  /\ Crash

\* got_pdu of the client finds the call by its xid.
Answered(cl, xid) ==
  IF cl.waiting /\ cl.xid = xid THEN [cl EXCEPT !.waiting = FALSE, !.sent = FALSE, !.lost = FALSE]
  ELSE cl

\* connection::send of the reply.  On a connection that is broken but not yet
\* known to be, the write fails and kills it, or the reply is lost in the kernel.
Send(t) ==
  /\ thr[t].pc \in {"send", "send_old"}
  /\ LET c == thr[t].c
         k == thr[t].k
     IN \/ /\ conn[c].dead \/ conn[c].cut
           /\ \E fails \in BOOLEAN : conn' = [conn EXCEPT ![c].dead = @ \/ fails]
           /\ UNCHANGED client
        \/ /\ ~conn[c].dead /\ ~conn[c].cut
           /\ client' = [client EXCEPT ![k] = Answered(@, thr[t].xid)]
           /\ UNCHANGED conn
  /\ \/ /\ thr[t].pc = "send_old"
        /\ thr' = [thr EXCEPT ![t] = Idle]
        /\ leaked' = [leaked EXCEPT ![thr[t].c] = @ + 1]
     \/ thr[t].pc = "send" /\ Goto(t, "end") /\ UNCHANGED leaked
  /\ UNCHANGED <<table, latest, window, jobs, server, cuts>>

End(t) ==
  /\ thr[t].pc = "end"
  /\ conn' = decref(conn, thr[t].c)
  /\ thr' = [thr EXCEPT ![t] = Idle]
  /\ UNCHANGED <<table, latest, window, jobs, client, server, leaked, cuts>>

\* ~rpcs: the listener stops and closes every connection in its table; the pool
\* finishes its jobs.  rpcs::conns_ keeps its references.
Stop ==
  /\ server = "up"
  /\ server' = "stopping"
  /\ UNCHANGED <<conn, table, latest, window, jobs, thr, client, leaked, cuts>>

CloseConn(c) ==
  /\ server = "stopping" /\ c \in table
  /\ conn' = decref([conn EXCEPT ![c].dead = TRUE, ![c].cut = TRUE, ![c].pdu = NULL], c)
  /\ table' = table \ {c}
  /\ UNCHANGED <<latest, window, jobs, thr, client, server, leaked, cuts>>

dispatch(t) ==
  \/ TakeJob(t) \/ SaveLatest(t) \/ checkduplicate(t) \/ Handler(t)
  \/ ChooseLatest(t) \/ ChooseNull(t) \/ Send(t) \/ End(t)

Next ==
  /\ server # "crashed"
  /\ \/ \E k \in All : Call(k) \/ Transmit(k) \/ GiveUp(k) \/ \E c \in Conn : Connect(k, c)
     \/ \E c \in Conn : Cut(c) \/ Notice(c) \/ got_pdu(c) \/ CloseConn(c)
     \/ \E t \in Worker : dispatch(t)
     \/ reg1 \/ Stop

Spec == Init /\ [][Next]_vars

----------------------------------------------------------------------------
(* Properties *)

\* The type invariant.
TypeOK ==
  /\ \A c \in Conn : /\ conn[c].st \in {"none", "open", "deleted"}
                     /\ conn[c].refno \in Nat /\ conn[c].born \in Nat
                     /\ conn[c].pdu \in [k : All, xid : 1 .. MaxCalls] \cup {NULL}
  /\ table \subseteq Conn
  /\ latest \in [Client -> Conn \cup {NULL}]
  /\ window \in [Client -> [1 .. MaxCalls -> {"none", "inprogress", "done"}]]
  /\ Len(jobs) <= QueueMax
  /\ \A t \in Worker : thr[t].c \in Conn \cup {NULL} /\ thr[t].k \in All \cup {NULL}
  /\ server \in {"starting", "up", "stopping", "crashed"}

Count(P(_), S) == Cardinality({x \in S : P(x)})

Holders(c) == (IF c \in table THEN 1 ELSE 0)
              + Count(LAMBDA k : latest[k] = c, Client)
              + Count(LAMBDA i : jobs[i].c = c, DOMAIN jobs)
              + Count(LAMBDA t : thr[t].c = c, Worker)

\* The reference count of a connection is the number of places that hold it, plus
\* one for every request to an old server instance dispatched on it: that path
\* returns without decref.  No other path of dispatch leaks or over-releases.
RefsExact == \A c \in Open : conn[c].refno = Holders(c) + leaked[c]

\* Nothing refers to a deleted connection: not the table, not a job, not the
\* saved latest connection dispatch calls compare on, not a thread about to send;
\* and conns_ has an entry for a client with a nonce by the time its reply is sent
\* (a client with nonce 0 has none: ChooseNull).
NoUseAfterDelete ==
  /\ table \subseteq Open
  /\ \A k \in Client : latest[k] \in Open \cup {NULL}
  /\ \A i \in DOMAIN jobs : jobs[i].c \in Open
  /\ \A t \in Worker : thr[t].c \in Open \cup {NULL}
  /\ \A t \in Worker : thr[t].pc = "choose" /\ thr[t].k \in Client => latest[thr[t].k] # NULL

OnItsWay(k) ==
  \/ \E c \in Open : conn[c].pdu # NULL /\ conn[c].pdu.k = k
  \/ \E i \in DOMAIN jobs : jobs[i].pdu.k = k
  \/ \E t \in Worker : thr[t].k = k

\* The client sends a request once on a channel, so the server must answer on it:
\* when nothing of the client's is queued or being worked on any more and its
\* connection is good, the client has its reply - unless the request came before
\* the handlers were registered, dispatch kept an older connection for the reply
\* because it had not yet noticed that one's end, or the clock gave the new
\* connection no later create_time_ than the old one.
AnsweredWhenQuiet ==
  server = "up" =>
    \A k \in All :
      client[k].waiting /\ client[k].sent /\ ~Broken(k) /\ ~conn[client[k].chan].dead
      /\ ~OnItsWay(k) =>
        \/ client[k].lost
        \/ /\ k \in Client /\ latest[k] # client[k].chan
           /\ conn[latest[k]].born = conn[client[k].chan].born
============================================================================
