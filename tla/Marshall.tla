------------------------------ MODULE Marshall ------------------------------
(***************************************************************************)
(* Marshalling (marshall.h and rpc.cc): class marshall with its growing    *)
(* buffer, class unmarshall with its ok flag, the two headers, and the     *)
(* templates of rpc.h that marshal the arguments of a call, unmarshal them *)
(* for the handler, and take the result out of the reply.                  *)
(*                                                                         *)
(* A marshall object is [buf, capa, ind]: the bytes written, the capacity  *)
(* of the allocated memory, and the position of the write head.            *)
(* An unmarshall object is [buf, ind, ok] with _sz the length of buf.      *)
(*                                                                         *)
(* A byte has Base values instead of 256, so that an int has few enough    *)
(* values to be enumerated.  A string is a sequence of bytes.  Char is     *)
(* signed, as on x86.                                                      *)
(***************************************************************************)
EXTENDS Integers, Sequences, FiniteSetsExt

CONSTANTS
    Base,               \* the values of a byte (256); even
    DEFAULT_RPC_SZ      \* the capacity of a new buffer (1024)

RPC_HEADER_SZ == 24     \* sizeof(req_header) + sizeof(rpc_sz_t)

\* The values of n bytes, up to an unsigned long long.
Pow[n \in 0 .. 8] == IF n = 0 THEN 1 ELSE Base * Pow[n - 1]

\* 2^32: what unsigned arithmetic wraps at.
Word == Pow[4]

\* 32 bits have room for the sizes of buffers much longer than a new one.
ASSUME SizesAssumption ==
    /\ Base \in {2 * n : n \in 1 .. 128}
    /\ DEFAULT_RPC_SZ \in Nat /\ DEFAULT_RPC_SZ >= RPC_HEADER_SZ
    /\ 8 * DEFAULT_RPC_SZ + 40 < Word

Garbage == -1           \* memory that was not written, or is not the buffer's

-----------------------------------------------------------------------------
(* class marshall *)

NewMarshall ==
    [buf |-> [i \in 1 .. RPC_HEADER_SZ |-> Garbage], capa |-> DEFAULT_RPC_SZ, ind |-> RPC_HEADER_SZ]

\* Copy s to the write head of a buffer with this capacity (realloc has kept the
\* contents).  A byte written beyond the memory is lost.
Write(m, capa, s) ==
    LET end == m.ind + Len(s)
    IN  [buf  |-> [i \in 1 .. Max({end, Len(m.buf)}) |->
                      IF i <= m.ind \/ i > end THEN m.buf[i]
                      ELSE IF i <= capa THEN s[i - m.ind] ELSE Garbage],
         capa |-> capa,
         ind  |-> end]

rawbyte(m, x) == IF m.ind >= m.capa THEN Write(m, 2 * m.capa, <<x>>) ELSE Write(m, m.capa, <<x>>)

Bug_rawbytes(m, s) == Write(m, IF m.ind + Len(s) > m.capa THEN 2 * m.capa ELSE m.capa, s)

rawbytes(m, s) ==
    LET n == Len(s)
    IN  Write(m, IF m.ind + n > m.capa THEN IF m.capa > n THEN 2 * m.capa ELSE m.capa + n
                                       ELSE m.capa, s)

\* The n low bytes of x in network order, one rawbyte each: << of every integer
\* type, and pack.  \div and % of a negative x are those of two's complement.
PutInt(m, x, n) ==
    LET put[i \in 0 .. n] == IF i = 0 THEN m ELSE rawbyte(put[i - 1], (x \div Pow[n - i]) % Base)
    IN  put[n]

Widths == [bool |-> 1, char |-> 1, uchar |-> 1, short |-> 2, ushort |-> 2,
           int |-> 4, uint |-> 4, ull |-> 8]

\* operator<< of the integer types and of std::string.
PutScalar(m, t, v) ==
    IF t = "string" THEN rawbytes(PutInt(m, Len(v), 4), v) ELSE PutInt(m, v, Widths[t])

\* One value after the other; ts[i] is the type of vs[i].
PutAll(m, ts, vs) ==
    LET put[i \in 0 .. Len(vs)] == IF i = 0 THEN m ELSE PutScalar(put[i - 1], ts[i], vs[i])
    IN  put[Len(vs)]

\* The types of n elements of a vector or a map, the keys of a map in order, and
\* its keys and values in turn.
Elements(t, n) == IF t[1] = "vector" THEN [i \in 1 .. n |-> t[2]]
                  ELSE [i \in 1 .. 2 * n |-> IF i % 2 = 1 THEN t[2] ELSE t[3]]

InOrder(S) ==
    CHOOSE ks \in [1 .. Cardinality(S) -> S] : \A i, j \in 1 .. Cardinality(S) : i < j => ks[i] < ks[j]

Flat(v) == LET ks == InOrder(DOMAIN v)
           IN  [i \in 1 .. 2 * Len(ks) |-> IF i % 2 = 1 THEN ks[(i + 1) \div 2] ELSE v[ks[i \div 2]]]

\* operator<< of std::vector<C> and std::map<A,B>.  A type is <<name>>,
\* <<"vector", C>> or <<"map", A, B>>.
Put(m, t, v) ==
    LET PutElements(n, vs) == PutAll(PutInt(m, n, 4), Elements(t, n), vs)
    IN  CASE t[1] = "vector" -> PutElements(Len(v), v)
          [] t[1] = "map"    -> PutElements(Cardinality(DOMAIN v), Flat(v))
          [] OTHER           -> PutScalar(m, t[1], v)

\* The types of the headers.  The nonces are cast to int and back, which keeps
\* their bits.
ReqTypes == <<"int", "int", "uint", "uint", "int">>
ReplyTypes == <<"int", "int">>

\* The headers start behind the four bytes that the connection fills with the
\* size; the write head is put back where it was.
PackHeader(m, ts, ints) == [PutAll([m EXCEPT !.ind = 4], ts, ints) EXCEPT !.ind = m.ind]

pack_req_header(m, h) == PackHeader(m, ReqTypes, <<h.xid, h.proc, h.clt_nonce, h.srv_nonce, h.xid_rep>>)

pack_reply_header(m, h) == PackHeader(m, ReplyTypes, <<h.xid, h.ret>>)

\* The bytes that go out: cstr() and size(), or take_buf.
Sent(m) == SubSeq(m.buf, 1, m.ind)

-----------------------------------------------------------------------------
(* class unmarshall.  A read is [v, u]: the value and the object afterwards. *)

NewUnmarshall(b) == [buf |-> b, ind |-> 0, ok |-> TRUE]

Signed(x, n) == IF 2 * x >= Pow[n] THEN x - Pow[n] ELSE x

\* The byte is a char, which becomes an unsigned int with its sign extended;
\* past the end it is 0 and ok becomes false for good.
GetByte(u) ==
    IF u.ind >= Len(u.buf)
    THEN [v |-> 0, u |-> [u EXCEPT !.ok = FALSE]]
    ELSE [v |-> Signed(u.buf[u.ind + 1], 1) % Word, u |-> [u EXCEPT !.ind = @ + 1]]

\* >> of every integer type, and unpack: n bytes, each masked with 0xff (a cast
\* does it for the types of one byte).
GetDigit(acc) == LET c == GetByte(acc.u) IN [v |-> acc.v * Base + (c.v % Base), u |-> c.u]

GetInt(u, n) ==
    LET got[i \in 0 .. n] == IF i = 0 THEN [v |-> 0, u |-> u] ELSE GetDigit(got[i - 1])
    IN  got[n]

\* unmarshall::rawbytes; the sum is an unsigned int.
GetBytes(u, n) ==
    IF (u.ind + n) % Word > Len(u.buf)
    THEN [v |-> <<>>, u |-> [u EXCEPT !.ok = FALSE]]
    ELSE [v |-> SubSeq(u.buf, u.ind + 1, u.ind + n), u |-> [u EXCEPT !.ind = @ + n]]

\* operator>> of the integer types and of std::string, whose bytes are read only
\* if the length was.
GetScalar(u, t) ==
    IF t = "string"
    THEN LET sz == GetInt(u, 4) IN IF sz.u.ok THEN GetBytes(sz.u, sz.v) ELSE [v |-> <<>>, u |-> sz.u]
    ELSE LET x == GetInt(u, Widths[t])
         IN  [v |-> CASE t \in {"char", "short", "int"} -> Signed(x.v, Widths[t])
                      [] t = "bool" -> IF x.v = 0 THEN 0 ELSE 1
                      [] OTHER -> x.v,
              u |-> x.u]

\* The values read so far, and one more read.
Add(vs, e) == [v |-> Append(vs, e.v), u |-> e.u]

\* One value after the other, of the types ts.
GetNext(acc, t) == Add(acc.v, GetScalar(acc.u, t))

GetAll(u, ts) ==
    LET got[i \in 0 .. Len(ts)] == IF i = 0 THEN [v |-> <<>>, u |-> u] ELSE GetNext(got[i - 1], ts[i])
    IN  got[Len(ts)]

\* The map of n keys and values in turn; of equal keys the last one counts.
Unflat(s, n) == [k \in {s[2 * i - 1] : i \in 1 .. n} |-> s[2 * Max({i \in 1 .. n : s[2 * i - 1] = k})]]

\* operator>> of std::vector<C> and std::map<A,B>: n elements, read or not.
Get(u, t) ==
    LET n == GetInt(u, 4)
        elements == GetAll(n.u, Elements(t, n.v))
    IN  CASE t[1] = "vector" -> elements
          [] t[1] = "map"    -> [elements EXCEPT !.v = Unflat(@, n.v)]
          [] OTHER           -> GetScalar(u, t[1])

\* The header's ints; the read head goes to the arguments in any case.
UnpackHeader(u, ts) == LET ints == GetAll([u EXCEPT !.ind = 4], ts)
                       IN  [ints EXCEPT !.u.ind = RPC_HEADER_SZ]

unpack_req_header(u) ==
    [UnpackHeader(u, ReqTypes) EXCEPT
        !.v = [xid |-> @[1], proc |-> @[2], clt_nonce |-> @[3], srv_nonce |-> @[4], xid_rep |-> @[5]]]

unpack_reply_header(u) ==
    [UnpackHeader(u, ReplyTypes) EXCEPT !.v = [xid |-> @[1], ret |-> @[2]]]

\* got_pdu hands the reply's buffer to the caller's unmarshall object.
take_in(another) ==
    [buf |-> another.buf, ind |-> RPC_HEADER_SZ, ok |-> Len(another.buf) >= RPC_HEADER_SZ]

Bug_okdone(u) == u.ok

okdone(u) == u.ok /\ u.ind = Len(u.buf)

-----------------------------------------------------------------------------
(* The templates of rpc.h *)

unmarshal_args_failure == -2
unmarshal_reply_failure == -3

\* rpcc::call for any number of arguments, up to the request that call1 sends.
\* A signature is a sequence of types.
PutArgs(m, sig, args) ==
    LET put[i \in 0 .. Len(sig)] == IF i = 0 THEN m ELSE Put(put[i - 1], sig[i], args[i])
    IN  put[Len(sig)]

CallRequest(sig, args, h) == Sent(pack_req_header(PutArgs(NewMarshall, sig, args), h))

GetArg(acc, t) == Add(acc.v, Get(acc.u, t))

GetArgs(u, sig) ==
    LET got[i \in 0 .. Len(sig)] == IF i = 0 THEN [v |-> <<>>, u |-> u] ELSE GetArg(got[i - 1], sig[i])
    IN  got[Len(sig)]

\* fn of the handler object that rpcs::reg makes for a method whose parameters
\* have the types sig: what the method is called with, if it is.
HandlerArgs(u, sig) ==
    LET a == GetArgs(u, sig)
    IN  IF okdone(a.u) THEN [called |-> TRUE, args |-> a.v]
        ELSE [called |-> FALSE, ret |-> unmarshal_args_failure]

\* dispatch: a request whose header cannot be read is dropped.
Dispatched(b, sig) ==
    LET req == unpack_req_header(NewUnmarshall(b))
    IN  IF req.u.ok THEN [handled |-> TRUE, h |-> req.v, fn |-> HandlerArgs(req.u, sig)]
        ELSE [handled |-> FALSE]

\* ret << r, and the header that dispatch puts in front.
Reply(xid, ret, t, r) == Sent(pack_reply_header(Put(NewMarshall, t, r), [xid |-> xid, ret |-> ret]))

\* The reply to a call that was not executed has no result.
EmptyReply(xid, ret) == Sent(pack_reply_header(NewMarshall, [xid |-> xid, ret |-> ret]))

\* got_pdu and call_m for a result of type t.
CallResult(b, t) ==
    LET rep == unpack_reply_header(NewUnmarshall(b))
        r == Get(take_in(rep.u), t)
    IN  IF rep.v.ret < 0 THEN [ret |-> rep.v.ret]
        ELSE IF okdone(r.u) THEN [ret |-> rep.v.ret, r |-> r.v]
        ELSE [ret |-> unmarshal_reply_failure]
=============================================================================
