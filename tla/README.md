# A TLA+ model of the YFS lock service and its RPC library

This directory holds TLA+ modules, TLC configurations and TLAPS proofs for the
lab 1 lock service (`lock_server.cc`, `lock_client.cc`) and the RPC library
under it (`rpc/`). Every definition is taken from the C++ code; `PROJECT.json`
maps it to its lines.

## The system

| Component | State | Operations | Talks to |
|---|---|---|---|
| lock server (`lock_server.cc`, `lock_protocol.h`) | `mapLocks`: lock id to `lock` (state, owner, condition variable), one mutex | `grant` (blocks in `pthread_cond_wait`), `release`, `stat` | called by dispatch threads of `rpcs` |
| lock client (`lock_client.cc`) | an `rpcc` | constructor (bind), `acquire`, `release`, `stat`; each asserts that the call returned OK | `rpcc::call` |
| RPC client `rpcc` (`rpc.cc`) | `xid_`, `calls_`, `xid_rep_window_`, `srv_nonce_`, `bind_done_`, `destroy_wait_`, the current channel | `call1` (transmit, wait with doubling timeouts, retransmit on a new connection, final deadline), `bind`, `cancel`, `got_pdu`, `update_xid_rep` | connections; upcalls from the poll thread |
| RPC server `rpcs` (`rpc.cc`) | `nonce_`, `procs_`, `reply_window_`, `conns_`, the dispatch pool | `got_pdu` (queue a job), `dispatch`, `checkduplicate_and_update`, `add_reply`, `rpcbind`, `reg`, destructor | handlers, connections, thread pool |
| connection, tcpsconn (`connection.cc`) | read and write buffers, `dead_`, reference count, waiters | `send` (blocks), `read_cb`, `write_cb`, `closeconn`, `incref`/`decref`, accept loop | poll manager, `chanmgr::got_pdu` |
| poll manager (`pollmgr.cc`) | callback table, pending removals | `add_callback`, `del_callback`, `block_remove_fd`, the wait loop | connections |
| thread pool, fifo (`thr_pool.cc`, `fifo.h`) | bounded job queue, worker threads | `addJob`, `takeJob`, workers, destructor with poison pills | `rpcs::dispatch` |
| marshalling (`marshall.h`, `rpc.cc`) | a byte buffer, an index, `ok` | pack and unpack of integers, strings, headers | everything that sends |
| time arithmetic (`rpc.cc`) | none | `add_timespec`, `diff_timespec`, `cmp_timespec` | `call1` |

What is hard in this code: a handler gives its mutex up in the middle of `grant`;
dispatch threads execute the requests of one client in any order; a reply, a
timeout, a retransmission and `cancel` race for the same call; replies are
forgotten on the word of a window that the client computes from replies arriving
in any order; buffers and connections are used after the mutex that protects
them was released; the poll thread calls connections it holds no reference to;
a connection dies under the threads that wait in it; the server restarts and
forgets everything. The list is in
`PROJECT.json` under `hazards`, each entry at its line, with the properties that
would show it going wrong or a note on why none does.

What makes each part correct: a lock has one owner, only the owner gives it
back, and no wakeup is lost; a call is executed at most once, exactly once when
it returns OK, and returns at its deadline if its sends end; the reply to a call is kept as long as the
client can ask for it; together, an application thread whose `acquire` returned
is alone with its lock. A connection is deleted exactly when it is dead and its
last reference goes, nobody touches it afterwards, its bytes are neither lost nor
mixed, and everybody who waits for it is woken; a marshalled value arrives as it
was sent or is refused; a deadline names the moment it should.

## Modules

**LockSpec** is the abstract promise: an owner per lock, and calls that take
effect at one instant between invocation and return.

**LockServer** is `lock_server.cc` and class `lock`. Each critical section under
`mutex` is one action; `grant` is split at `pthread_cond_wait` into
`GrantEnter` and `GrantWake`. A thread is `entered` (it wants the mutex),
`waiting` (in the condition variable), `woken` (signalled or spuriously woken,
wants the mutex again) or `returned`. `ReleaseAbsent` is the null pointer that
`mapLocks[lid]` yields for an unknown lock. Its refinement mapping to LockSpec is
`ownerBar` (the `clt` of a locked lock) and `callBar` (a call has taken effect
when its handler is returning).

**XidWindows** gives the two windows of the at-most-once protocol as sets and
functions: `IsXidRep` (the front of `xid_rep_window_`), `Trim`, `IsForgotten`,
`Answered` (the reply window of one client).

**WindowLists** is the list code itself, both lists of one client: insertion,
compression, deletion while iterating with the test on `front()` inside the
loop. It is compared with XidWindows by TLC and by proof.

**Rpc** is the protocol: `rpcc` with concurrent callers (`Call`, `Send`,
`WaitDone`, `TimeoutRetry`, `TimeoutFinal`, `Exit`, `SetBound`, `got_pdu`,
`Cancel`, `CancelWake`) and `rpcs` (`DispatchOldServer`, `DispatchNew`,
`DispatchInProgress`, `DispatchDone`, `DispatchForgotten`, `HandlerReturn`,
`ReplySend`, `Restart`). A PDU is a record in `reqs` or `reps` that is delivered
once, in any order, or never; a request is duplicated only by a caller that
retransmits. A retransmission carries the header packed once in `call1`, so a
PDU names its call and `hdr` keeps the header. The history variable `runs` counts handler executions. `send` of a
buffer that was freed meanwhile is a choice: the old bytes still go out, or bytes
that no caller takes for its reply. The further possibility that the memory
already holds the reply to a different call is not followed; the run
`rpc_dangling` shows the underlying defect. `Send` is `get_refconn` and
`ch->send`; it may take any time, and may never be taken (see Fairness).

**ThrPool** is the dispatch pool with its queue (`thr_pool.cc`, `fifo.h`): `enq`
and `takeJob` split at their condition waits, signals that wake one sleeper,
spurious wakeups, workers that barge, and the destructor that queues one poison
pill per worker and joins. Jobs may block for ever, as `grant` does. In Rpc the
pool is the set of threads that take requests in any order.

**LockService** composes them: application threads that use `lock_client` as
`lock_tester.cc` does, an instance of Rpc whose operations are `acquire` and
`release`, and an instance of LockServer. `DispatchNew` and `HandlerReturn` are
joint steps of both. A failed call ends the client's process (the assertion in
`lock_client.cc`); the requests it has sent stay in flight.

**Connection** is `connection.cc` over `pollmgr.cc`, as an `rpcs` uses them. The
threads are the owner of `tcpsconn` (accept with its garbage collection, then the
destructor), the workers of the dispatch pool (take a PDU, `send` one reply,
`decref`) and the poll thread (`LoopTop`, `CopyFds`, `Select`, then `ReadCb` and
`WriteCb` for each ready descriptor). A step is one critical section of
`connection::m_`, `ref_m_` or `PollMgr::m_`, or a system call; `send` is split at
its two condition waits and at `block_remove_fd`. Bytes are counted: `inq` and
`room` are the socket's buffers, `solong` the progress of a PDU. Peers send byte
by byte, read what they are sent, and close at any moment. `errno`, which
`readpdu` consults at the end of a stream although that read has not set it, is
`EAGAIN` or not by choice (`eagain` in `ReadCb`). Advancing an erased iterator (`connection.cc:378`) is undefined:
the collection goes on, stops, or the process dies. The wait of `block_remove_fd`
is not in a loop: `SpuriousRemoved` ends it at any moment, and the history variable
`loop.cut` says that this has happened since the poll thread last passed the top of
its loop. What can follow is in the model: a callback on a deleted object or through
a null pointer (`CallbackGone`), a closed descriptor in `select` (`SelectClosed`), a
read without input (`ReadCbNothing`). These and a failed assertion end the process
(`aborted`).

**Dispatch** is the life of connections in `rpcs`: the table of `tcpsconn`, the
job queue, the threads in `dispatch` and `conns_`, the latest connection of every
client, share counted references while connections break, are noticed to be
broken, and clients with a nonce come back on new ones (`get_refconn`). Clients
with nonce 0, bindings to an earlier server instance, requests that come before
the handlers are registered, and the destructor of `rpcs` are in it. A connection
is what Connection shows of it: alive or dead, counted, deleted by the last
`decref`. `client[k].lost` is a history variable that records why a call will not
be answered; `leaked` counts the references of the old-server path. A header that
cannot be read ends `dispatch` as an unknown procedure does (`Lost`), and FORGOTTEN
is answered as DONE is; with the same effect on the references they have no steps of
their own.

**Marshall** is `marshall.h` and its part of `rpc.cc`, with the templates of
`rpc.h`, as operators: `marshall` objects with buffer, capacity and write head,
`unmarshall` objects with read head and `ok`, `Put` and `Get` for the integer
types, strings, vectors and maps, the headers, and the path of a call:
`CallRequest`, `Dispatched`, `HandlerArgs`, `Reply`, `CallResult`. A byte has
`Base` values, n of them `Pow[n]`; a byte written beyond the allocated memory is
lost (`Garbage`). The loops are recursive functions, whose turns can be reasoned
about.

**Timespec** is `add_timespec`, `cmp_timespec` and a turn of the loop of `call1`
(`NextDeadline`), with the moment a timespec stands for as reference definition.

**MCRpcData** checks the three modules of data and arithmetic together: a
behaviour is either one of WindowLists, or a constant `sample` drawn in the
initial state: a call with two arguments, a result and the variable it is read
into, or a turn of the waiting loop.

**LockServerProofs**, **RpcProofs**, **RpcAnswerProofs**, **ThrPoolProofs**,
**LockServiceProofs**, **DispatchProofs**, **ConnectionProofs** and
**RpcDataProofs** hold theorems. **MCRpc**,
**MCLockService**, **MCConnection** and **MCDispatch** instantiate the
specifications for TLC. Definitions named
`Bug_X` are deliberately wrong variants of `X` that show that a property is not
vacuous: with `Bug_X` in the place of `X`, TLC reports the property violated.

## Runs

| Run | Instance | Shows |
|---|---|---|
| `lock_server` | 2 clients, 2 locks, 3 threads | `NoLostWakeup`, `ImplementsLockSpec` and, under fairness, `WantedLockIsTaken` |
| `rpc_data` | 4 calls, 2 acknowledgements each; two arguments of 12 types at the ends of their ranges; a clock of 2 seconds and timeouts up to 7 | the lists compute `IsXidRep` and the window function (`FrontIsXidRep`, `ListHoldsTheRest`, `ListImplementsWindow`); `ExchangeIsExact`, `MismatchIsRefused`; `DeadlineIsExact` |
| `rpc` | 1 client, 4 calls (one is bind), one of them transmitted twice, 2 threads, 2 server instances | `AtMostOnce`, `OkMeansExecuted`, `NoReplyForgotten`, `ForgottenOnlyAfterTimeout` |
| `rpc_live` | 1 client, 3 calls, two of them transmitted twice, cancel | `CallsReturn`, `CancelReturns` |
| `rpc_dangling` | 3 calls, 1 transmission | violates `NoDanglingSend` (finding) |
| `thr_pool` | 3 workers, 4 jobs, a queue for 2, non-blocking `addJob` as in `rpcs` | `EnoughAwake`, `ShutdownDrains`, `QueuedJobStarts`, `DestructorReturns` |
| `lock_shared` | 1 lock_client shared by 2 application threads, a retransmission | `MutualExclusion`, `HolderOwnsLock`, `AcquireSucceeds` |
| `lock_restart` | 2 clients, a restart, a retransmission, a client that gives up | `MutualExclusion`, `NoNullLock`, `NoOrphanLock` |
| `connection` | 2 connections, 2 workers, 2 requests, a queue for 1, replies of 1 and 2 bytes, a socket buffer for 1 | `RefsCounted`, `NoUseAfterDelete`, `OneSenderOwnsBuf`, `AssertionsHold`, `AliveIsWatched`, `NoByteLost`, `RemoverWillBeWoken`, `WaiterWillBeWoken`, `NoCallbackAfterRemove` |
| `connection_assert` | 1 connection, 2 workers | violates `WriteCbFindsAlive` (finding) |
| `connection_hang` | 1 connection, 2 workers | violates `SendReturns` (finding) |
| `dispatch` | a client with a nonce and one without, 3 connections of which one breaks, 2 workers, a queue for 1 | `RefsExact`, `NoUseAfterDelete`, `AnsweredWhenQuiet` |

Bounds. Three threads let a barging acquire, a signalled waiter and a sleeper
meet on one lock. Two transmissions per call give a late duplicate of a call that
is new, in progress, done and forgotten. Four xids (bind and three calls) are
needed: a call is trimmed from the window only by a request made after a later
call was acknowledged, and only then can its late duplicate be mistaken for a new
request. Two server instances suffice for a request of the wrong
instance. Calls of different clients share only the dispatch threads and the
locks: Rpc is checked with one client, the composition with two. `MaxRetries` bounds how
many calls, any of them, are retransmitted. The threads of
the pool are interchangeable, so safety runs use their symmetry; runs with
liveness do not. Calls and restarts are bounded, so every
behaviour of the bounded model ends, and deadlock is not checked.

In Connection two connections let one be collected while the other is accepted on
the next descriptor, or on the same one, and while the poll thread still has the
first one in its lists; two workers are a sender and a waiter on one connection. The
lossy shutdown of `send` is left out of the instances (`Lossy`): a write on a socket
whose peer has closed fails in the same way. It is in the proofs. `PduSz` is 2 with
a length word of 1 (`HdrSz`), so a PDU arrives whole, in pieces, or is cut off
after its length; `RepSizes` and `SockBuf` make a reply fit, or be written in two
parts with the buffer full in between; `QueueMax` 1 makes the queue refuse. More
bytes repeat these cases. In Dispatch the one broken connection (`MaxCuts`)
makes the client come back once, so the old and the new connection have jobs,
threads and an entry in `conns_` at a time; the third connection is the other
client's. `DEFAULT_RPC_SZ` is one more than a header, so that every request
outgrows its buffer, and the long string is four buffers long; `Base` is 4
because the values of an integer grow with its fourth and eighth power. The clock
has seconds of three milliseconds and milliseconds of two nanoseconds
(`MsPerSec`, `NsPerMs`): every pair of moments of two seconds (`MaxSec`), with
every timeout up to more than two seconds (`MaxTo`), carries included.

The type invariants of ThrPool, LockService, Connection and Dispatch are stated
in the modules, for the proofs, and hold on the instances above; the runs spend
their time on the other properties.

Fairness. In LockServer a thread that can take a step takes it (pthreads are
scheduled, and each critical section ends); nobody is forced to call. In Rpc
the client's own threads are fair, except in `Send`, of which nothing is assumed:
`connection::send` waits for other senders and for its own PDU to drain, and
`connect` for the peer, without a limit (`rpc.cc:227-229`, `connection.cc:125-158`),
so a peer that hangs keeps a caller beyond its deadline and `cancel` with it.
`CallsReturn` therefore says that a call returns if its own sends end, and
`CancelReturns` that `cancel` does if those of the callers do; nothing
else is needed of the network or the server. A timed wait does end, which
presupposes a deadline that `pthread_cond_timedwait` accepts (see below). In LockService the sends of the callers are assumed to end too. In Connection the
threads of the process run and a peer that has not closed reads what it is sent;
nobody is forced to connect, to send or to call the destructor. In ThrPool the threads are fair but
jobs need not end; `DestructorReturns` assumes in its statement that they do. `AcquireSucceeds` further assumes
that PDUs arrive (the connection stays up) and that a holder releases; its
instance has no final deadline, and as many dispatch threads as callers. With
fewer threads it fails, as the comment in `lock_tester.cc:16` says: blocked
acquires fill the pool and the release is never executed.

## Findings

`rpc_dangling`: the buffer that `dispatch` passes to `send` belongs to the reply
window, whose mutex is no longer held. Another request of the client can trim
the entry and free the buffer first: the call has timed out, or the reply to
another copy of its request has completed it, and the client's next calls carry
an `xid_rep` beyond it.

`connection_hang`: `closeconn` sets `dead_` and removes the callbacks, but does
not signal `send_complete_`. A worker that waits there for the rest of its reply
to be written is never woken, and `~rpcs`, which closes the connections and then
joins the pool, waits with it. The only caller that closes a server's connection
is that destructor. With a read or write callback as the cause of death the
signal is sent and `send` does return.

`connection_assert`: `closeconn`, or a `send` whose write fails, sets `dead_` first
and stops the poll thread afterwards. A `write_cb` that is called in between fails in
`assert(!dead_)` (`connection.cc:173`), which ends the server. `AssertionsHold` says
that, spurious wakeups apart, it cannot fail at any other time.

Other observations, all in the models and named in the hazards:

* `block_remove_fd` promises that the callbacks of a descriptor "will never be called
  again" (`pollmgr.cc:57-59`), but waits for the poll thread with one
  `pthread_cond_wait` outside a loop. A spurious wakeup ends the wait in the middle of
  the poll thread's round. The remover then drops its reference while the poll
  thread, which has none, is in a callback of the connection or in `select` on its
  descriptor. `NoCallbackAfterRemove` is the part of the promise that is kept: later
  rounds do not find the connection, and neither does the current one if no wait was
  cut short in it.
* `add_timespec` carries while `tv_nsec > 1000000000`, so a sum of exactly a second is
  left uncarried. The moment is right (`DeadlineIsExact`), but
  `pthread_cond_timedwait` refuses it with `EINVAL`, and the inner loop of `call1`
  (`rpc.cc:250-257`), which leaves only on `ETIMEDOUT` or when the call is done, spins
  with `ca.m` locked, so that neither `got_pdu` nor `cancel` can end it. It takes a
  timeout that is not a whole number of seconds; the defaults are. Rpc has the
  deadlines that are accepted.
* After a call timed out without having been delivered, `xid_rep` moves past it although
  the server has no entry for it. A later call that overtakes a pending one then
  empties the window in front of it, and the pending call, never executed, is refused
  with `atmostonce_failure`, which kills the client in the assertion of
  `lock_client.cc`, although FORGOTTEN is described as a duplicate (`rpc.h:255`).
  `ForgottenOnlyAfterTimeout` is what does hold.
* A reply is lost when the connection its request came in on is broken but not
  yet known to be: `dispatch` prefers it to the newer one, and the client, whose
  new connection is fine, does not send again. `AnsweredWhenQuiet` says that the
  other causes are a request before registration and two connections made in
  the same microsecond; otherwise the answer arrives.
* A client with nonce 0 whose connection has died when its handler returns makes
  `dispatch` dereference a null pointer (`ChooseNull`).
* The path for an old server instance never drops its reference (`leaked`), and
  `conns_` never forgets a client.
* A PDU refused by a full queue is kept, but offered again only when the peer
  sends more; with a stale `EAGAIN` in `errno` a connection that ends inside a PDU
  is not given up and the poll thread spins.
* The deadline of a call limits its waits for the reply, not its sends: with a peer
  that hangs, `ch->send` and `connect` keep the caller, and `cancel` waits for it.
* An empty string returned by a handler looks like the integer 0 to a caller that
  reads an `int`: `okdone` compares sizes, not types (`MismatchIsRefused` is
  stated for what it does refuse).

## Proofs

Proved with TLAPS, for arbitrary sets of clients, locks, connections, workers and
threads and arbitrary bounds:

* `LockServerProofs!TypeCorrect`; `NoLostWakeupHolds`; `Refinement`
  (`Spec => ImplementsLockSpec`). The inductive invariant adds to the type
  invariant and `NoLostWakeup` that only `acquire` calls sleep, which a release
  needs to know about the threads it wakes. The refinement is by cases on the
  action: `GrantEnter` and `GrantWake` map to `TakeEffectAcquire` or to a
  stutter, the releases to `TakeEffectRelease` or `TakeEffectNothing`.
* `RpcProofs!TypeCorrect`; `AtMostOnceHolds`; `NoReplyForgottenHolds`.
  `AtMostOnce` is not inductive: a request could be run again if the server had
  lost track of it. `RunInv` says that the window of this instance contains
  every executed request or starts above it (`SeenIn`), which survives trimming
  because trimming is always followed by the entry of a request whose xid is
  larger than `xid_rep`. That needs `HeaderInv` (`xid_rep` is below the request's
  own xid and covers acknowledged xids only; no header names a future server
  instance), `AckInv`, `MsgInv` and `NonceInv`.
* `RpcAnswerProofs!OkMeansExecutedHolds`; `ForgottenOnlyAfterTimeoutHolds`. The
  invariant `AInv` extends the one above. `AnswerInv` follows an answer back to
  its execution: a saved reply, a thread about to send one, a reply in flight and
  an outcome `ok` all imply that the handler has run once and been left
  (`Settled`), and at most one thread is inside the handler of a call. For the
  refusals the proof needs to know why a window starts where it does. `BindInv`:
  a client's binds come before its other calls, so all those name one server
  instance. `TrimInv`: there is a frontier below which the client has
  acknowledged every call and from which on the window has every call this
  instance has served. A request that is refused although it was never run lies
  below it, so its caller already has an outcome (`OutcomeInv`), which is not
  `ok`, and `RefusalInv` says what the refusals that are left stand for: an earlier
  instance, which `BindInv` excludes, or a call that was given up.
* `ThrPoolProofs!TypeCorrect`; `EnoughAwakeHolds`; `ShutdownDrainsHolds`. Each
  `enq` adds one item and wakes one sleeper, each `deq` takes one item and one
  awake worker away, so `EnoughAwake` is inductive with the types. For the
  shutdown `PillInv` says that the poison pills are the last items of the queue
  (as many as added less the workers that took one), so that a worker that takes
  a pill leaves no job behind it; `JobInv` that a job that was added is queued
  once or has been started once.
* `LockServiceProofs!MutualExclusionHolds`; `HolderOwnsLockHolds`;
  `NoOrphanLockHolds`; `NoNullLockHolds`: the composition, from the proofs of its
  parts. Every step of the service is a step of Rpc or leaves Rpc's state alone
  (`StepIsRpcStep`), so `AInv` of `RpcAnswerProofs`, taken through `INSTANCE`,
  holds of the service. On top of it, `EntitledInv` follows a lock from the effect
  of `acquire` on the server, through the reply, the holder and the request to
  release it, to the effect of `release`: at every moment the locks that are
  locked and the threads entitled to one correspond one to one. `CallInv` ties a
  thread to its call and the call to its operation, `ThreadInv` a dispatch thread
  inside a lock handler to the call it executes. The proof shows on the way that
  the branches of `release` for a lock of another owner and for an absent lock are
  unreachable through `lock_client`, and that the exception `NoOrphanLock` makes
  for an aborted client is not needed for these invariants.
* `DispatchProofs!TypeCorrect`; `RefsExactHolds`; `NoUseAfterDeleteHolds`;
  `AnsweredWhenQuietHolds`. `RefInv` makes the count of every open connection
  equal to the sum of its four kinds of holders and of `leaked`, and says that
  nothing holds a connection that is not open. The proof is an account of every
  action: which count grows by one, which shrinks by one, and that the reference
  moves with it. Because a holder is itself counted, a count that reaches zero
  has no holder left, which is `NoUseAfterDelete`, and the connection whose
  `create_time_` is compared is alive. `ThreadInv` records which clients a thread
  can be working for at each point of `dispatch`.
  `AnsweredWhenQuiet` needs an invariant that follows each request to where its
  answer will come from (`QInv`). Its core, `AnswerInv`, says of every client that
  waits on a connection that is not broken where that is (`Expected`): the request
  in the socket, in the queue, or in a thread on that connection; or a thread that
  is at work on an earlier copy and, because `conns_` has taken notice of the new
  connection (`Saved`), will find it in `choose`. When everything is quiet none of
  these exists, and what is left is the named exception. The step from one place to
  the next needs three more parts. `PassedInv`: every connection that still has a
  request, a job, a thread or an entry in `conns_` for a client is the client's
  current one or one that has broken, and no younger than the current one, so
  `SaveLatest` never prefers a stale connection to it. `ProgressInv`: an entry
  `INPROGRESS` has a thread in the handler, so the duplicate that is dropped is not
  the only copy. `SideInv`: connections are not shared, and only an open one carries
  a request.

* `ConnectionProofs`: `RefsCountedHolds`, `NoUseAfterDeleteHolds`,
  `OneSenderOwnsBufHolds`, `AssertionsHoldHolds`, `NoCallbackAfterRemoveHolds`,
  `AliveIsWatchedHolds`, `NoByteLostHolds`, `RemoverWillBeWokenHolds` and
  `WaiterWillBeWokenHolds`: every invariant of the run `connection`. One inductive
  invariant (`IInv`) serves all nine, because none of them can be had alone: that
  the object a callback uses is alive depends on what is registered, that on who
  is removing it, and that on who declared the connection dead.
  `RefInv` is the account of the references, with the descriptors, which no two
  open connections share. The poll thread has no reference of its own; that its
  connections are alive comes from the next three. `KillInv`: at most one thread
  is removing a connection because it set `dead_`. `WatchInv`: what is registered
  is open; a live connection is registered, and one that is dead with nobody
  removing it is not, so the object is unregistered before its last reference can
  go. `LoopInv`: the descriptors the poll thread copied before it slept are
  current in the sense that matters (`LoopCurrent`); none of them belongs to a thread
  that is past the wait of `block_remove_fd`, and one reported for reading still has
  input. This much holds only while no spurious wakeup has ended a
  `block_remove_fd` in the round (`loop.cut`), and so do the conjuncts of
  `NoUseAfterDelete`, `AssertionsHold` and `NoCallbackAfterRemove` about the poll
  thread's current round; their other conjuncts, and the other six properties, are
  proved without that condition.
  `BufInv` says who owns `wpdu_` and that the owner who sleeps on `send_complete_`
  is watched for writing, with one exception that is the finding
  `connection_hang`. `WaitersInv` and `ByteInv` make the counts of waiting threads
  and of bytes exact, and `RemoverWillBeWoken` is inductive with them. `Types` is
  the part of `TypeOK` the proof needs; the upper bounds that come from the bounds
  of the instance are left to TLC. Steps that do the same kind of thing share a
  frame (`Looks`, `SendFrame`, `ReadFrame`, `Declares`, `Turnover`) for which the
  parts of the invariant are shown once.

* `RpcDataProofs!DeadlineIsExactHolds`, the arithmetic of the deadlines, from `TurnIsExactHolds` and
  `RefusedAtFullSecondHolds`, for a clock of any units and range. The carry loop of
  `add_timespec` runs at most once (`TurnsValue`) and stops at exactly a second, so
  what it returns has up to a full second of nanoseconds (`Deadline`). `CmpOrder`
  is the point: `cmp_timespec` compares fields, and still orders such deadlines by
  their moments, except that it tells apart two ways to write the same moment,
  which makes a turn the last one or not but does not move its end.

* `RpcDataProofs!FrontIsXidRepHolds`; `ListHoldsTheRestHolds`;
  `ListImplementsWindowHolds`: both lists of the at-most-once protocol, for any
  number of xids and any order of calls. The loops are recursive functions
  (`Popped`, `Scanned`), and what they compute is shown by their first turn that
  goes wrong (`Least`, from the well-foundedness of `<` on the natural numbers). For
  `compress`, a turn keeps `Reaches` (the values between the old and the new front
  all occur in the list) and `Stops` (no element seen so far follows the front),
  which together make the new front the end of the prefix; `ClientInv` says so with
  `Represents`, and allows for the duplicates that `update_xid_rep` may insert. For
  `checkduplicate_and_update`, `ScanInv` says after each turn what is left of the
  list and why the function has or has not returned: the elements below `xid_rep`
  are a prefix (`ForgottenPrefix`), since the list is strictly ascending, so the
  element the test on `front()` sees is the first one that stays. `ServerInv` then
  equates the list with the function window.

* `RpcDataProofs!CallIsExact`, `ResultIsExact`, `ExchangeIsExactHolds` and
  `MismatchIsRefusedHolds`: marshalling, for bytes of any even number of values up to
  256 and new buffers of any capacity from a header up that `SizesAssumption` leaves
  room for. The first two speak of every signature, every argument or result
  that fits its type and every header, as long as the length of the PDU is below
  2^32 (`Word`); the other two are the properties of the run, whose samples are shown to be
  such values (`CallSample`, `ResultSample`). On the writing side, `Wrote` says that
  a step only adds behind the write head, and never beyond the capacity: each
  choice of a new capacity in `rawbyte` and `rawbytes` is enough. So what was
  written stays written, and the bytes that are sent hold it (`Holds`);
  the header is written into the room in front and leaves the rest alone (`PackIs`).
  On the reading side, `GetIntIs` puts the digits of an integer together again, of a
  negative one as the unsigned value that `Signed` turns back. `ScalarExchange`
  joins the two for one value, `AllExchange` for a row of values, `TypeExchange`
  for vectors and maps, whose keys are written in order and assembled again
  (`InOrderIs`, `UnflatIs`), and `ArgsRead` for the first arguments of a call. For
  a handler with too few parameters, bytes are then left over (`TooManyArguments`);
  for one with too many, reading at the end switches `ok` off for good
  (`TypeAtEnd`, `TooFewArguments`). The loops are handled as above, by their first
  turn that goes wrong (`UpTo`).

The invariants were checked with TLC on the instances of the runs before they were
proved.

The assumptions are the named ones of the modules: `NoClient` is no client, `NULL`
is no connection and no client, bind is no other operation, clients with and
without a nonce are different, the sets of workers, connections and clients with a
nonce are finite, there is at least one worker in a pool, `NULL` is no request
(`RequestAssumption`), 32 bits have room for the sizes of buffers eight times as
long as a new one and some more (`SizesAssumption`; with 1024 bytes and 2^32 by
far), the bounds are natural numbers (`PartsAssumption`, `WorkersAssumption`, `DispatchAssumption` and so on).
That nonces of different clients and server instances differ is built into the
model (they are random 32-bit numbers in the code).

Only model-checked: liveness and everything that needs fairness, which TLAPS does
not reach (`WantedLockIsTaken`, `CallsReturn`, `CancelReturns`, `QueuedJobStarts`,
`DestructorReturns`, `AcquireSucceeds`); and the upper bounds of `TypeOK` of
Connection. Every safety invariant of the passing runs is a theorem, and
so is `ImplementsLockSpec`. Induction over data goes as far as the least counterexample takes it: a
claim about every turn of one loop.

## Not modelled

`EPollAIO`, which is never instantiated; `has_callback` and `is_watched`, which
nobody calls; `updatestat`, logging and the clock emulation, which carry no
protocol state; `set_reachable`, which nothing in the repository calls;
`diff_timespec`, which only `rpctest.cc` calls; the test programs themselves. The
limits `MAX_PDU` and `MAX_POLL_FDS` are beyond a small instance. On the client's
side a connection is closed by `~rpcc`, when no call is outstanding; Connection
has the server's side, where the races are. Checksums (`RPC_CHECKSUMMING`) are
not compiled in. The indices of a marshalling buffer are `int`s in the code and
numbers in Marshall, so the real limit of a PDU is below the 2^32 bytes of `Word`.
xids and nonces do not wrap, and the clock of `create_time_`
does not go backwards.

## Plan

Done: every component with state of its own, and the proofs of all the safety
properties the runs check. Left: the upper bounds of
`TypeOK` of Connection, which depend on the bounds of the instance.
