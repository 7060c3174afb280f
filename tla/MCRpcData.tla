----------------------------- MODULE MCRpcData -----------------------------
(* The data structures and the arithmetic of the RPC library for TLC.  A      *)
(* behaviour is one of the lists of WindowLists, or a sample that stays as it *)
(* is: a call with two arguments, the result of a call and the variable it is *)
(* read into, or a turn of the waiting loop of call1.                         *)
EXTENDS WindowLists, Marshall, Timespec

VARIABLE sample

\* Scalars, and containers of one-byte and of longer elements.
Types ==
    {<<t>> : t \in DOMAIN Widths} \cup
    {<<"string">>, <<"vector", "short">>, <<"vector", "string">>, <<"map", "char", "string">>}

\* Both ends of the range of an integer type and the values around zero.
Ends(t) == LET n == Widths[t] IN
    CASE t = "bool" -> {0, 1}
      [] t \in {"char", "short", "int"} -> {-(Pow[n] \div 2), -1, 0, Pow[n] \div 2 - 1}
      [] OTHER -> {0, Pow[n] \div 2, Pow[n] - 1}

\* Strings that are empty, that fit, and that are much longer than the buffer.
Strings == {<<>>, <<Base - 1>>, [i \in 1 .. 4 * DEFAULT_RPC_SZ |-> i % Base]}

Values(t) ==
    CASE t = <<"string">> -> Strings
      [] t = <<"vector", "short">> -> {<<>>, <<-1, 0>>}
      [] t = <<"vector", "string">> -> {<<>>, <<<<>>, <<1>>>>}
      [] t = <<"map", "char", "string">> -> {<<>>, [k \in {-1, 1} |-> <<Base - 1>>]}
      [] OTHER -> Ends(t[1])

\* Every field at an end of its range.
Header(n) ==
    IF n = 1
    THEN [xid |-> Word \div 2 - 1, proc |-> -1, clt_nonce |-> Word - 1, srv_nonce |-> 0,
          xid_rep |-> 1]
    ELSE [xid |-> 1, proc |-> 1, clt_nonce |-> 0, srv_nonce |-> Word - 1, xid_rep |-> 0]

SampleInit ==
    \/ sample = [kind |-> "none"]
    \/ \E t1, t2 \in Types : \E v1 \in Values(t1), v2 \in Values(t2), n \in 1 .. 2 :
           sample = [kind |-> "call", sig |-> <<t1, t2>>, args |-> <<v1, v2>>, h |-> Header(n)]
    \/ \E t, into \in Types : \E r \in Values(t) :
           sample = [kind |-> "result", t |-> t, r |-> r, into |-> into]
    \/ \E start, now \in Clock, to, curr_to \in Timeouts :
           sample = [kind |-> "turn", start |-> start, now |-> now, to |-> to, curr_to |-> curr_to]

DataInit == Init /\ SampleInit

DataNext == sample.kind = "none" /\ Next /\ UNCHANGED sample

DataSpec == DataInit /\ [][DataNext]_<<vars, sample>>

-----------------------------------------------------------------------------
\* The handler gets the arguments and dispatch the header that the caller packed,
\* negative numbers and bytes above 127 included, however often the buffer was
\* reallocated on the way and although the header is written last, in front; and
\* call_m returns the result that the handler packed.
ExchangeIsExact ==
    /\ sample.kind = "call" =>
           Dispatched(CallRequest(sample.sig, sample.args, sample.h), sample.sig) =
               [handled |-> TRUE, h |-> sample.h, fn |-> [called |-> TRUE, args |-> sample.args]]
    /\ sample.kind = "result" =>
           CallResult(Reply(1, 0, sample.t, sample.r), sample.t) = [ret |-> 0, r |-> sample.r]

\* A handler with fewer or more parameters than the caller has arguments is not
\* called, and a result of the wrong size is refused, whatever the values are:
\* okdone wants the content read completely and not beyond ("too few arguments",
\* "too many arguments", "wrong return value size" of rpctest.cc:208-222).
MismatchIsRefused ==
    /\ sample.kind = "call" =>
           \A sig \in {<<sample.sig[1]>>, Append(sample.sig, sample.sig[1])} :
               Dispatched(CallRequest(sample.sig, sample.args, sample.h), sig).fn =
                   [called |-> FALSE, ret |-> unmarshal_args_failure]
    /\ (sample.kind = "result" /\ sample.into[1] \in DOMAIN Widths) =>
           LET b == Reply(1, 0, sample.t, sample.r)
           IN  CallResult(b, sample.into).ret =
                   IF Len(b) = RPC_HEADER_SZ + Widths[sample.into[1]] THEN 0
                   ELSE unmarshal_reply_failure

\* The arithmetic of a turn of call1's loop (rpc.cc:241-246): nextdeadline names
\* the earlier of the two moments, and the loop ends after the turn that would go
\* beyond finaldeadline, also when add_timespec leaves a full second of
\* nanoseconds in one of them and cmp_timespec compares it field by field.  That
\* full second is the only deadline that pthread_cond_timedwait refuses.
\* Nothing is said here of the deadline being waited for: that one is not, as
\* call1 then spins (see Accepted).
DeadlineIsExact ==
    sample.kind = "turn" =>
        /\ TurnIsExact(sample.start, sample.now, sample.to, sample.curr_to)
        /\ RefusedAtFullSecond(sample.start, sample.now, sample.to, sample.curr_to)
=============================================================================
