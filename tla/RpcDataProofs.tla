---------------------------- MODULE RpcDataProofs ----------------------------
(***************************************************************************)
(* Proofs about MCRpcData: the time arithmetic of rpc.cc for a clock of    *)
(* any units and any range, and any timeouts; the two lists of the         *)
(* at-most-once protocol for any number of xids, against what Rpc says of  *)
(* the windows; and marshalling, for bytes of any size and buffers of any  *)
(* capacity: what class marshall wrote, class unmarshall reads.            *)
(***************************************************************************)
EXTENDS MCRpcData, SequenceTheorems, FiniteSetTheorems, WellFoundedInduction, TLAPS

\* The products of the units, as facts about integers that the provers can use.
LEMMA Products ==
  /\ \A a, b \in Int : a * b \in Int
  /\ \A a, b, m \in Int : (a + b) * m = a * m + b * m
  /\ \A a, b, c \in Int : (a * b) * c = a * (b * c)
  /\ \A a, b \in Int : a * b = b * a
  OBVIOUS

\* Quotient and remainder.
LEMMA Division ==
  ASSUME NEW b \in Nat, NEW m \in Nat \ {0}
  PROVE  /\ b \div m \in Nat /\ b % m \in 0 .. m - 1
         /\ b = m * (b \div m) + (b % m)
<1>1. b \div m \in Int /\ b % m \in 0 .. m - 1
  OBVIOUS
<1>2. b = m * (b \div m) + (b % m)
  OBVIOUS
<1>3. b \div m >= 0
  <2> DEFINE q == b \div m
             r == b % m
  <2>1. q \in Int /\ r \in Int /\ r < m /\ b = m * q + r
    BY <1>1, <1>2
  <2> HIDE DEF q, r
  <2>2. q < 0 => m * q <= -m
    BY <2>1
  <2>3. q >= 0
    BY <2>1, <2>2
  <2> QED BY <2>3 DEF q
<1> QED BY <1>1, <1>2, <1>3

\* A multiple leaves no remainder.
LEMMA Multiple ==
  ASSUME NEW q \in Int, NEW m \in Nat \ {0}
  PROVE  (q * m) % m = 0
  OBVIOUS

\* Larger factors, larger products.
LEMMA Monotone ==
  ASSUME NEW a \in Int, NEW b \in Int, NEW m \in Nat, a <= b
  PROVE  a * m <= b * m
  OBVIOUS

-----------------------------------------------------------------------------
(* add_timespec *)

USE UnitsAssumption

\* A second has at least one nanosecond, and the milliseconds that are left of a
\* timeout are less than a second.
LEMMA Units ==
  /\ NsPerSec \in Nat \ {0}
  /\ \A r \in 0 .. MsPerSec - 1 : r * NsPerMs \in 0 .. NsPerSec - 1
<1>1. NsPerSec \in Nat \ {0}
  BY DEF NsPerSec
<1>2. ASSUME NEW r \in 0 .. MsPerSec - 1
      PROVE  r * NsPerMs \in 0 .. NsPerSec - 1
  <2>1. (r + 1) * NsPerMs <= MsPerSec * NsPerMs
    BY Monotone
  <2>2. (r + 1) * NsPerMs = r * NsPerMs + NsPerMs /\ r * NsPerMs \in Int /\ r * NsPerMs >= 0
    OBVIOUS
  <2>3. r * NsPerMs + NsPerMs <= NsPerSec
    BY <2>1, <2>2 DEF NsPerSec
  <2> QED BY <1>1, <2>2, <2>3
<1> QED BY <1>1, <1>2

\* Two numbers of nanoseconds below a second carry at most one second: the while
\* loop of add_timespec runs once, and not at all for exactly a second.
LEMMA TurnsValue ==
  ASSUME NEW ns \in Nat, ns < 2 * NsPerSec
  PROVE  Turns(ns) = IF ns <= NsPerSec THEN 0 ELSE 1
<1> DEFINE P(k) == /\ ns - k * NsPerSec <= NsPerSec
                   /\ \A j \in 0 .. k - 1 : ns - j * NsPerSec > NsPerSec
<1>1. NsPerSec \in Nat \ {0}
  BY Units
<1>2. CASE ns <= NsPerSec
  <2>1. 0 \in 0 .. ns /\ P(0)
    BY <1>1, <1>2
  <2>2. \A k \in 0 .. ns : P(k) => k = 0
    <3> SUFFICES ASSUME NEW k \in 0 .. ns, P(k), k # 0
                 PROVE  FALSE
      OBVIOUS
    <3>1. 0 \in 0 .. k - 1
      OBVIOUS
    <3> QED BY <1>1, <1>2, <3>1
  <2>3. Turns(ns) = 0
    BY <2>1, <2>2 DEF Turns
  <2> QED BY <1>2, <2>3
<1>3. CASE ns > NsPerSec
  <2>1. 1 \in 0 .. ns /\ P(1)
    BY <1>1, <1>3
  <2>2. \A k \in 0 .. ns : P(k) => k = 1
    <3> SUFFICES ASSUME NEW k \in 0 .. ns, P(k), k # 1
                 PROVE  FALSE
      OBVIOUS
    <3>1. k = 0 \/ 1 \in 0 .. k - 1
      OBVIOUS
    <3> QED BY <1>1, <1>3, <3>1
  <2>3. Turns(ns) = 1
    BY <2>1, <2>2 DEF Turns
  <2> QED BY <1>1, <1>3, <2>3
<1> QED BY <1>1, <1>2, <1>3

\* What add_timespec computes: a second count, and nanoseconds up to a full second.
LEMMA AddRange ==
  ASSUME NEW a \in Clock, NEW b \in Timeouts
  PROVE  LET t == add_timespec(a, b) IN
         /\ t.tv_sec \in Nat /\ t.tv_nsec \in 0 .. NsPerSec
         /\ Moment(t) = Moment(a) + b * NsPerMs
<1> DEFINE q == b \div MsPerSec
           r == b % MsPerSec
           x == r * NsPerMs
           ns == a.tv_nsec + x
           k == Turns(ns)
           M == NsPerSec
<1>1. M \in Nat \ {0} /\ b \in Nat /\ a.tv_sec \in Nat /\ a.tv_nsec \in 0 .. M - 1
  BY Units DEF Clock, Timeouts
<1>2. q \in Nat /\ r \in 0 .. MsPerSec - 1 /\ b = MsPerSec * q + r
  BY <1>1, Division
<1>3. x \in 0 .. M - 1
  BY <1>2, Units
<1>4. b * NsPerMs = q * M + x
  <2>1. b * NsPerMs = (MsPerSec * q) * NsPerMs + r * NsPerMs
    <3> HIDE DEF q, r
    <3> QED BY <1>2, Products
  <2>2. (MsPerSec * q) * NsPerMs = q * (MsPerSec * NsPerMs)
    <3> HIDE DEF q
    <3> QED BY <1>2, Products
  <2> QED BY <2>1, <2>2 DEF NsPerSec
<1>5. add_timespec(a, b) = [tv_sec |-> a.tv_sec + q + k, tv_nsec |-> ns - k * M]
  BY DEF add_timespec
<1> HIDE DEF q, r, x
<1>6. ns \in Nat /\ ns < 2 * M
  BY <1>1, <1>3
<1>7. k = IF ns <= M THEN 0 ELSE 1
  BY <1>6, TurnsValue
<1> HIDE DEF k, ns
<1>8. k \in {0, 1} /\ ns - k * M \in 0 .. M
  BY <1>1, <1>6, <1>7
<1>9. (a.tv_sec + q + k) * M = a.tv_sec * M + q * M + k * M
  <2> HIDE DEF M
  <2>1. a.tv_sec \in Int /\ q \in Int /\ k \in Int /\ M \in Int
    BY <1>1, <1>2, <1>8
  <2>2. (a.tv_sec + q + k) * M = (a.tv_sec + q) * M + k * M
    BY <2>1, Products
  <2> QED BY <2>1, <2>2, Products
<1>10. (a.tv_sec + q + k) * M + (ns - k * M) = a.tv_sec * M + a.tv_nsec + b * NsPerMs
  <2> DEFINE u == a.tv_sec * M
             v == q * M
             z == k * M
  <2>1. u \in Int /\ v \in Int /\ z \in Int /\ x \in Int /\ a.tv_nsec \in Int
    BY <1>1, <1>2, <1>3, <1>8, Products
  <2>2. (a.tv_sec + q + k) * M = u + v + z /\ b * NsPerMs = v + x /\ ns = a.tv_nsec + x
    BY <1>4, <1>9 DEF ns
  <2> HIDE DEF u, v, z
  <2>3. (u + v + z) + (ns - z) = u + a.tv_nsec + (v + x)
    BY <2>1, <2>2
  <2> QED BY <2>2, <2>3 DEF u, z
<1> QED BY <1>1, <1>2, <1>5, <1>8, <1>10 DEF Moment

-----------------------------------------------------------------------------
(* The deadlines of call1 *)

\* What add_timespec returns: the nanoseconds may be a full second.
Deadline == [tv_sec : Nat, tv_nsec : 0 .. NsPerSec]

\* The deadline of a timeout is a deadline, at the right moment.
LEMMA AddDeadline ==
  ASSUME NEW a \in Clock, NEW b \in Timeouts
  PROVE  add_timespec(a, b) \in Deadline /\ Moment(add_timespec(a, b)) = Moment(a) + b * NsPerMs
<1>1. \E s, n : add_timespec(a, b) = [tv_sec |-> s, tv_nsec |-> n]
  BY DEF add_timespec
<1> QED BY <1>1, AddRange DEF Deadline

\* Moments are integers.
LEMMA MomentType ==
  ASSUME NEW s \in Deadline
  PROVE  Moment(s) \in Int /\ Moment(s) >= s.tv_sec * NsPerSec
         /\ Moment(s) <= s.tv_sec * NsPerSec + NsPerSec
<1> DEFINE x == s.tv_sec * NsPerSec
<1>1. x \in Int /\ NsPerSec \in Nat /\ s.tv_nsec \in 0 .. NsPerSec
  BY Units, Products DEF Deadline
<1> HIDE DEF x
<1>2. x + s.tv_nsec \in Int /\ x + s.tv_nsec >= x /\ x + s.tv_nsec <= x + NsPerSec
  BY <1>1
<1> QED BY <1>2 DEF Moment, x

\* A smaller count of seconds is no later moment, although the nanoseconds may be
\* a full second.
LEMMA SecondsOrder ==
  ASSUME NEW s \in Deadline, NEW t \in Deadline, s.tv_sec < t.tv_sec
  PROVE  Moment(s) <= Moment(t)
<1> DEFINE x == s.tv_sec * NsPerSec
           y == t.tv_sec * NsPerSec
<1>1. s.tv_sec \in Nat /\ t.tv_sec \in Nat /\ NsPerSec \in Nat
  BY Units DEF Deadline
<1>2. (s.tv_sec + 1) * NsPerSec <= y
  BY <1>1, Monotone
<1>3. (s.tv_sec + 1) * NsPerSec = x + NsPerSec /\ x \in Int /\ y \in Int
  BY <1>1
<1>4. Moment(s) <= x + NsPerSec /\ Moment(t) >= y /\ Moment(s) \in Int /\ Moment(t) \in Int
  BY MomentType
<1> HIDE DEF x, y
<1> QED BY <1>1, <1>2, <1>3, <1>4

\* cmp_timespec orders deadlines by their moments, up to two ways to write the same
\* one.
LEMMA CmpOrder ==
  ASSUME NEW s \in Deadline, NEW t \in Deadline
  PROVE  IF cmp_timespec(s, t) > 0 THEN Moment(s) >= Moment(t) ELSE Moment(s) <= Moment(t)
<1>1. s.tv_sec \in Int /\ t.tv_sec \in Int /\ s.tv_nsec \in Int /\ t.tv_nsec \in Int
  BY Units DEF Deadline
<1>2. Moment(s) \in Int /\ Moment(t) \in Int
  BY MomentType
<1>3. CASE s.tv_sec = t.tv_sec
  <2> DEFINE x == t.tv_sec * NsPerSec
  <2>1. x \in Int /\ Moment(s) = x + s.tv_nsec /\ Moment(t) = x + t.tv_nsec
    BY <1>1, <1>3, Units, Products DEF Moment
  <2>2. cmp_timespec(s, t) > 0 <=> s.tv_nsec > t.tv_nsec
    BY <1>1, <1>3 DEF cmp_timespec, Sign
  <2> HIDE DEF x
  <2> QED BY <1>1, <2>1, <2>2
<1>4. CASE s.tv_sec < t.tv_sec
  <2>1. ~(cmp_timespec(s, t) > 0)
    BY <1>1, <1>4 DEF cmp_timespec, Sign
  <2> QED BY <1>4, <2>1, SecondsOrder
<1>5. CASE s.tv_sec > t.tv_sec
  <2>1. cmp_timespec(s, t) > 0
    BY <1>1, <1>5 DEF cmp_timespec, Sign
  <2>2. Moment(t) <= Moment(s)
    BY <1>1, <1>5, SecondsOrder
  <2> QED BY <1>2, <2>1, <2>2
<1> QED BY <1>1, <1>3, <1>4, <1>5

\* The deadline that a turn of call1's loop (rpc.cc) computes names the earlier of
\* its two moments, and the turn that would have gone beyond the final one is the
\* last; this is the arithmetic of add_timespec and cmp_timespec.
THEOREM TurnIsExactHolds ==
  ASSUME NEW start \in Clock, NEW now \in Clock, NEW to \in Timeouts, NEW curr_to \in Timeouts
  PROVE  TurnIsExact(start, now, to, curr_to)
<1> DEFINE n == add_timespec(now, curr_to)
           f == add_timespec(start, to)
           next == Moment(now) + curr_to * NsPerMs
           final == Moment(start) + to * NsPerMs
<1>1. n \in Deadline /\ f \in Deadline /\ Moment(n) = next /\ Moment(f) = final
  BY AddDeadline
<1>2. next \in Int /\ final \in Int
  BY <1>1, MomentType
<1>3. NextDeadline(now, curr_to, f) =
        IF cmp_timespec(n, f) > 0 THEN [at |-> f, last |-> TRUE] ELSE [at |-> n, last |-> FALSE]
  BY DEF NextDeadline
<1> DEFINE turn == NextDeadline(now, curr_to, f)
<1> HIDE DEF n, f
<1>4. /\ Moment(turn.at) = IF next < final THEN next ELSE final
      /\ next < final => ~turn.last
      /\ next > final => turn.last
  <2> HIDE DEF next, final
  <2>1. CASE cmp_timespec(n, f) > 0
    <3>1. turn.at = f /\ turn.last /\ next >= final
      BY <1>1, <1>3, <2>1, CmpOrder
    <3> QED BY <1>1, <1>2, <3>1
  <2>2. CASE ~(cmp_timespec(n, f) > 0)
    <3>1. turn.at = n /\ ~turn.last /\ next <= final
      BY <1>1, <1>3, <2>2, CmpOrder
    <3> QED BY <1>1, <1>2, <3>1
  <2> QED BY <2>1, <2>2
<1> QED BY <1>4 DEF TurnIsExact, f

\* pthread_cond_timedwait refuses a deadline of call1 only when it is a full second
\* that add_timespec has not carried.
THEOREM RefusedAtFullSecondHolds ==
  ASSUME NEW start \in Clock, NEW now \in Clock, NEW to \in Timeouts, NEW curr_to \in Timeouts
  PROVE  RefusedAtFullSecond(start, now, to, curr_to)
<1> DEFINE n == add_timespec(now, curr_to)
           f == add_timespec(start, to)
           d == NextDeadline(now, curr_to, f).at
           M == NsPerSec
<1>1. n \in Deadline /\ f \in Deadline
  BY AddDeadline
<1>2. d \in {n, f}
  BY DEF NextDeadline
<1>3. d \in Deadline
  BY <1>1, <1>2
<1> HIDE DEF n, f, d
<1>4. d.tv_sec \in Int /\ d.tv_nsec \in 0 .. M /\ M \in Nat \ {0}
  BY <1>3, Units DEF Deadline
<1>5. CASE d.tv_nsec < M
  BY <1>5 DEF RefusedAtFullSecond, Accepted, d, f
<1>6. CASE d.tv_nsec = M
  <2>1. Moment(d) = (d.tv_sec + 1) * M
    BY <1>4, <1>6 DEF Moment
  <2>2. Moment(d) % M = 0
    BY <1>4, <2>1, Multiple
  <2> QED BY <2>2 DEF RefusedAtFullSecond, d, f
<1> QED BY <1>4, <1>5, <1>6

\* The arithmetic of every turn that the run draws is right, and its deadline is
\* refused only at a full second.
THEOREM DeadlineIsExactHolds == DataSpec => []DeadlineIsExact
<1> DEFINE Turn == sample.kind = "turn" => /\ sample.start \in Clock /\ sample.now \in Clock
                                           /\ sample.to \in Timeouts /\ sample.curr_to \in Timeouts
<1>1. DataInit => Turn
  BY DEF DataInit, SampleInit
<1>2. Turn /\ [DataNext]_<<vars, sample>> => Turn'
  BY DEF DataNext
<1>3. Turn => DeadlineIsExact
  BY TurnIsExactHolds, RefusedAtFullSecondHolds DEF DeadlineIsExact
<1> HIDE DEF Turn
<1> QED BY <1>1, <1>2, <1>3, PTL DEF DataSpec

-----------------------------------------------------------------------------
(* Induction over numbers, and the sequence operators of the lists *)

\* A set of natural numbers has a least element.  Proofs by induction over the turns
\* of a loop use it for the set of the turns where the claim fails.
LEMMA Least ==
  ASSUME NEW S \in SUBSET Nat, S # {}
  PROVE  \E m \in S : \A n \in S : m <= n
<1> DEFINE R == OpToRel(<, Nat)
<1>1. IsWellFoundedOn(R, Nat)
  BY NatLessThanWellFounded
<1>2. \A x, y \in Nat : <<x, y>> \in R <=> x < y
  BY DEF OpToRel
<1> HIDE DEF R
<1>3. PICK m \in S : \A n \in S : ~(<<n, m>> \in R)
  BY <1>1, WFMin
<1>4. ASSUME NEW n \in S PROVE m <= n
  <2>1. m \in Nat /\ n \in Nat
    OBVIOUS
  <2>2. ~(n < m)
    BY <1>2, <1>3, <2>1
  <2> QED BY <2>1, <2>2
<1> QED BY <1>4

\* The first turn in 1 .. n that is in a set, when one is.
LEMMA FirstBad ==
  ASSUME NEW lo \in Nat, NEW n \in Nat, NEW S \in SUBSET (lo .. n), S # {}
  PROVE  \E m \in S : /\ m \in lo .. n
                      /\ \A i \in lo .. m - 1 : i \notin S
<1>1. S \in SUBSET Nat
  OBVIOUS
<1>2. PICK m \in S : \A i \in S : m <= i
  BY <1>1, Least
<1> QED BY <1>2

\* Min of a nonempty set of natural numbers is its least element.
LEMMA MinIs ==
  ASSUME NEW S \in SUBSET Nat, S # {}
  PROVE  Min(S) \in S /\ \A n \in S : Min(S) <= n
<1>1. \E m \in S : \A n \in S : m =< n
  BY Least
<1> QED BY <1>1 DEF Min

\* The elements d + 1 .. e of a sequence.
LEMMA SubSeqIs ==
  ASSUME NEW S, NEW l \in Seq(S), NEW d \in 0 .. Len(l), NEW e \in d .. Len(l)
  PROVE  /\ SubSeq(l, d + 1, e) \in Seq(S) /\ Len(SubSeq(l, d + 1, e)) = e - d
         /\ \A j \in 1 .. e - d : SubSeq(l, d + 1, e)[j] = l[d + j]
<1>1. \A j \in d + 1 .. e : l[j] \in S
  OBVIOUS
<1>2. d + 1 \in Int /\ e \in Int
  OBVIOUS
<1> DEFINE k == SubSeq(l, d + 1, e)
<1>3. /\ k \in Seq(S) /\ Len(k) = IF d + 1 <= e THEN e - (d + 1) + 1 ELSE 0
      /\ \A j \in 1 .. e - (d + 1) + 1 : k[j] = l[d + 1 + j - 1]
  BY <1>1, <1>2, SubSeqProperties
<1> HIDE DEF k
<1>4. /\ (IF d + 1 <= e THEN e - (d + 1) + 1 ELSE 0) = e - d
      /\ e - (d + 1) + 1 = e - d
      /\ \A j \in 1 .. e - d : d + 1 + j - 1 = d + j
  BY <1>2
<1>5. /\ k \in Seq(S) /\ Len(k) = e - d
      /\ \A j \in 1 .. e - d : k[j] = l[d + j]
  BY <1>3, <1>4
<1> QED BY <1>5 DEF k

\* InsertAt moves the elements from i on by one.
LEMMA InsertAtIs ==
  ASSUME NEW S, NEW l \in Seq(S), NEW e \in S, NEW i \in 1 .. Len(l) + 1
  PROVE  /\ InsertAt(l, i, e) \in Seq(S) /\ Len(InsertAt(l, i, e)) = Len(l) + 1
         /\ \A j \in 1 .. Len(l) + 1 :
              InsertAt(l, i, e)[j] = IF j < i THEN l[j] ELSE IF j = i THEN e ELSE l[j - 1]
<1> DEFINE a == SubSeq(l, 1, i - 1)
           b == SubSeq(l, i, Len(l))
<1>1. a \in Seq(S) /\ Len(a) = i - 1 /\ \A j \in 1 .. i - 1 : a[j] = l[j]
  OBVIOUS
<1>2. b \in Seq(S) /\ Len(b) = Len(l) + 1 - i /\ \A j \in 1 .. Len(l) + 1 - i : b[j] = l[i + j - 1]
  OBVIOUS
<1>3. InsertAt(l, i, e) = (a \o <<e>>) \o b
  BY DEF InsertAt
<1> HIDE DEF a, b
<1> DEFINE c == a \o <<e>>
<1>4. c \in Seq(S) /\ Len(c) = i /\ (\A j \in 1 .. i - 1 : c[j] = l[j]) /\ c[i] = e
  BY <1>1
<1> HIDE DEF c
<1>5. InsertAt(l, i, e) = c \o b
  BY <1>3 DEF c
<1> DEFINE d == c \o b
<1>6. /\ d \in Seq(S) /\ Len(d) = Len(l) + 1
      /\ \A j \in 1 .. Len(l) + 1 : d[j] = IF j <= i THEN c[j] ELSE b[j - i]
  <2>1. /\ d \in Seq(S) /\ Len(d) = Len(c) + Len(b)
        /\ \A j \in 1 .. Len(c) + Len(b) : d[j] = IF j <= Len(c) THEN c[j] ELSE b[j - Len(c)]
    BY <1>2, <1>4, ConcatProperties
  <2>2. Len(c) = i /\ Len(c) + Len(b) = Len(l) + 1
    BY <1>2, <1>4
  <2> HIDE DEF d
  <2> QED BY <2>1, <2>2
<1> HIDE DEF d
<1>7. \A j \in 1 .. Len(l) + 1 : d[j] = IF j < i THEN l[j] ELSE IF j = i THEN e ELSE l[j - 1]
  <2> TAKE j \in 1 .. Len(l) + 1
  <2>1. CASE j < i
    BY <1>4, <1>6, <2>1
  <2>2. CASE j = i
    BY <1>4, <1>6, <2>2
  <2>3. CASE j > i
    <3>1. j - i \in 1 .. Len(l) + 1 - i /\ i + (j - i) - 1 = j - 1
      BY <2>3
    <3>2. b[j - i] = l[j - 1]
      BY <1>2, <3>1
    <3> QED BY <1>6, <2>3, <3>2
  <2> QED BY <2>1, <2>2, <2>3
<1>8. InsertAt(l, i, e) = d
  BY <1>5 DEF d
<1> QED BY <1>6, <1>7, <1>8

\* m is l with e before the element i.
InsertedAt(S, l, i, e, m) ==
    /\ m \in Seq(S) /\ Len(m) = Len(l) + 1
    /\ \A j \in 1 .. Len(l) + 1 : m[j] = IF j < i THEN l[j] ELSE IF j = i THEN e ELSE l[j - 1]

LEMMA InsertAtAny ==
  \A S : \A l \in Seq(S) : \A e \in S : \A i \in 1 .. Len(l) + 1 : InsertedAt(S, l, i, e, InsertAt(l, i, e))
BY InsertAtIs DEF InsertedAt

\* Insert keeps the list, in its order, with x before the elements that are larger.
Ascending(l) == \A i, j \in 1 .. Len(l) : i < j => l[i] <= l[j]

LEMMA InsertIs ==
  ASSUME NEW l \in Seq(Nat), NEW x \in Nat, Ascending(l)
  PROVE  \E p \in 1 .. Len(l) + 1 :
           /\ Insert(l, x) \in Seq(Nat) /\ Len(Insert(l, x)) = Len(l) + 1
           /\ \A j \in 1 .. Len(l) + 1 :
                Insert(l, x)[j] = IF j < p THEN l[j] ELSE IF j = p THEN x ELSE l[j - 1]
           /\ \A j \in 1 .. p - 1 : l[j] <= x
           /\ \A j \in p .. Len(l) : l[j] > x
<1> DEFINE I == {j \in 1 .. Len(l) : l[j] > x}
<1>1. SelectInSeq(l, LAMBDA y : y > x) = IF I # {} THEN Min(I) ELSE 0
  BY DEF SelectInSeq
<1>2. CASE I = {}
  <2>1. Insert(l, x) = Append(l, x)
    BY <1>1, <1>2 DEF Insert
  <2>2. \A j \in 1 .. Len(l) : l[j] <= x
    BY <1>2
  <2> HIDE DEF I
  <2> WITNESS Len(l) + 1 \in 1 .. Len(l) + 1
  <2> QED BY <2>1, <2>2
<1>3. CASE I # {}
  <2> DEFINE q == Min(I)
  <2>1. q \in I /\ \A j \in I : q <= j
    <3>1. I \in SUBSET Nat
      OBVIOUS
    <3> QED BY <1>3, <3>1, MinIs
  <2>2. Insert(l, x) = InsertAt(l, q, x)
    <3>1. q # 0
      BY <2>1
    <3> QED BY <1>1, <1>3, <3>1 DEF Insert
  <2> HIDE DEF q
  <2>3. q \in 1 .. Len(l) /\ l[q] > x
    BY <2>1
  <2>4. \A j \in 1 .. q - 1 : l[j] <= x
    BY <2>1, <2>3
  <2>5. \A j \in q .. Len(l) : l[j] > x
    BY <2>3 DEF Ascending
  <2>6. q \in 1 .. Len(l) + 1
    BY <2>3
  <2>7. /\ InsertAt(l, q, x) \in Seq(Nat) /\ Len(InsertAt(l, q, x)) = Len(l) + 1
        /\ \A j \in 1 .. Len(l) + 1 :
             InsertAt(l, q, x)[j] = IF j < q THEN l[j] ELSE IF j = q THEN x ELSE l[j - 1]
    <3>1. x \in Nat /\ l \in Seq(Nat)
      OBVIOUS
    <3> HIDE DEF I
    <3>2. InsertedAt(Nat, l, q, x, InsertAt(l, q, x))
      BY <2>6, <3>1, InsertAtAny, Zenon
    <3> QED BY <3>2, Zenon DEF InsertedAt
  <2> HIDE DEF I
  <2> QED BY <2>2, <2>4, <2>5, <2>6, <2>7
<1> QED BY <1>2, <1>3

-----------------------------------------------------------------------------
(* compress *)

\* The while loop pops exactly the elements that v follows, and stops before v.
LEMMA PopWhileIs ==
  ASSUME NEW l \in Seq(Nat), NEW d \in Nat, NEW i \in d + 1 .. Len(l)
  PROVE  /\ PopWhile(l, d, l[i]) \in d .. i - 1
         /\ l[PopWhile(l, d, l[i]) + 1] + 1 # l[i]
         /\ \A j \in d .. PopWhile(l, d, l[i]) - 1 : l[j + 1] + 1 = l[i]
<1> DEFINE S == {k \in d .. Len(l) - 1 : l[k + 1] + 1 # l[i]}
<1>1. i - 1 \in S
  <2>1. i - 1 \in d .. Len(l) - 1 /\ (i - 1) + 1 = i /\ l[i] \in Nat
    OBVIOUS
  <2> QED BY <2>1
<1>2. S \in SUBSET Nat
  OBVIOUS
<1>3. PopWhile(l, d, l[i]) = Min(S)
  BY DEF PopWhile
<1>4. Min(S) \in S /\ \A k \in S : Min(S) <= k
  BY <1>1, <1>2, MinIs
<1> DEFINE m == Min(S)
<1> HIDE DEF m
<1>5. m \in S /\ \A k \in S : m <= k
  BY <1>4 DEF m
<1>6. m \in d .. i - 1 /\ l[m + 1] + 1 # l[i]
  <2>1. m \in d .. Len(l) - 1 /\ l[m + 1] + 1 # l[i]
    BY <1>5
  <2>2. m <= i - 1
    BY <1>1, <1>5
  <2> QED BY <2>1, <2>2
<1>7. \A j \in d .. m - 1 : l[j + 1] + 1 = l[i]
  <2> TAKE j \in d .. m - 1
  <2>1. j \notin S /\ j \in d .. Len(l) - 1
    BY <1>5, <1>6
  <2> QED BY <2>1
<1> QED BY <1>3, <1>6, <1>7 DEF m

\* The recursive function Popped is the loop.
LEMMA PoppedIs ==
  ASSUME NEW l \in Seq(Nat)
  PROVE  \A i \in 1 .. Len(l) :
           Popped(l)[i] = IF i = 1 THEN 0 ELSE PopWhile(l, Popped(l)[i - 1], l[i])
<1> DEFINE n == Len(l)
           Is(g, m) == g = [i \in 1 .. m |-> IF i = 1 THEN 0 ELSE PopWhile(l, g[i - 1], l[i])]
           Bad == {m \in 0 .. n : ~ \E g : Is(g, m)}
<1>1. n \in Nat
  OBVIOUS
<1>2. CASE Bad # {}
  <2>1. PICK m \in Bad : m \in 0 .. n /\ \A k \in 0 .. m - 1 : k \notin Bad
    <3> HIDE DEF n
    <3>1. Bad \in SUBSET (0 .. n)
      OBVIOUS
    <3> HIDE DEF Bad
    <3> QED BY <1>1, <1>2, <3>1, FirstBad
  <2>2. Is(<<>>, 0)
    OBVIOUS
  <2>3. m # 0 /\ m - 1 \in 0 .. n /\ m - 1 \notin Bad
    <3> HIDE DEF Is
    <3>1. m # 0
      BY <2>1, <2>2
    <3> HIDE DEF Bad
    <3> QED BY <1>1, <2>1, <3>1
  <2>4. PICK g : Is(g, m - 1)
    BY <2>3
  <2> DEFINE h == [i \in 1 .. m |-> IF i = 1 THEN 0 ELSE PopWhile(l, g[i - 1], l[i])]
  <2>5. \A i \in 1 .. m - 1 : h[i] = g[i]
    BY <2>1, <2>4
  <2>6. Is(h, m)
    <3>1. \A i \in 1 .. m : i # 1 => h[i - 1] = g[i - 1]
      <4> HIDE DEF h
      <4> QED BY <2>1, <2>5
    <3> QED BY <3>1
  <2> QED BY <2>1, <2>6
<1>3. CASE Bad = {}
  <2>1. \E g : Is(g, n)
    BY <1>1, <1>3
  <2>2. Popped(l) = CHOOSE g : Is(g, n)
    BY DEF Popped
  <2> HIDE DEF Is
  <2>3. Is(Popped(l), n)
    BY <2>1, <2>2
  <2>4. Popped(l) = [i \in 1 .. n |-> IF i = 1 THEN 0 ELSE PopWhile(l, Popped(l)[i - 1], l[i])]
    BY <2>3 DEF Is
  <2> QED BY <2>4
<1> QED BY <1>2, <1>3

\* d elements may be popped: the values from the first element to the next one all
\* occur in the list.  None of the first i elements follows the front that is left.
Reaches(l, d) == \A y \in Nat : l[1] <= y /\ y <= l[d + 1] => \E j \in 1 .. Len(l) : l[j] = y
Stops(l, d, i) == \A j \in 1 .. i : l[j] # l[d + 1] + 1

\* One turn of the loop of compress.
LEMMA PopStep ==
  ASSUME NEW l \in Seq(Nat), Ascending(l), NEW i \in 2 .. Len(l), NEW c \in 0 .. i - 2,
         Reaches(l, c), Stops(l, c, i - 1)
  PROVE  /\ PopWhile(l, c, l[i]) \in 0 .. i - 1
         /\ Reaches(l, PopWhile(l, c, l[i])) /\ Stops(l, PopWhile(l, c, l[i]), i)
<1> DEFINE d == PopWhile(l, c, l[i])
<1>1. /\ d \in c .. i - 1 /\ l[d + 1] + 1 # l[i]
      /\ \A j \in c .. d - 1 : l[j + 1] + 1 = l[i]
  <2>1. c \in Nat /\ i \in c + 1 .. Len(l)
    OBVIOUS
  <2> QED BY <2>1, PopWhileIs
<1> HIDE DEF d
<1>2. d \in 0 .. i - 1 /\ c + 1 \in 1 .. Len(l) /\ d + 1 \in 1 .. i /\ i \in 1 .. Len(l)
  BY <1>1
<1>3. \A j \in 1 .. Len(l) : l[j] \in Nat
  OBVIOUS
<1>4. \A j, k \in 1 .. Len(l) : j <= k => l[j] <= l[k]
  <2> TAKE j, k \in 1 .. Len(l)
  <2>1. CASE j = k
    BY <1>3, <2>1
  <2>2. CASE j < k
    BY <2>2 DEF Ascending
  <2> QED BY <2>1, <2>2
<1>5. CASE d = c
  <2>1. Reaches(l, d)
    BY <1>5
  <2>2. \A j \in 1 .. i : l[j] # l[d + 1] + 1
    <3> TAKE j \in 1 .. i
    <3>1. CASE j = i
      BY <1>1, <3>1
    <3>2. CASE j # i
      BY <1>5, <3>2 DEF Stops
    <3> QED BY <3>1, <3>2
  <2> QED BY <1>2, <2>1, <2>2 DEF Stops, d
<1>6. CASE d # c
  <2>1. l[c + 1] + 1 = l[i]
    BY <1>1, <1>6
  <2>2. l[c + 1] <= l[d + 1] /\ l[d + 1] <= l[i]
    BY <1>1, <1>2, <1>4
  <2> DEFINE lc == l[c + 1]
             ld == l[d + 1]
             li == l[i]
  <2>6. lc \in Nat /\ ld \in Nat /\ li \in Nat
    BY <1>2, <1>3
  <2>7. lc + 1 = li /\ lc <= ld /\ ld <= li /\ ld + 1 # li
    BY <1>1, <2>1, <2>2
  <2>8. ld = li /\ \A y \in Nat : y <= ld /\ ~(y <= lc) => y = li
    <3> HIDE DEF lc, ld, li
    <3> QED BY <2>6, <2>7
  <2>3. l[d + 1] = l[i]
    BY <2>8
  <2>4. Reaches(l, d)
    <3> SUFFICES ASSUME NEW y \in Nat, l[1] <= y, y <= l[d + 1]
                 PROVE  \E j \in 1 .. Len(l) : l[j] = y
      BY DEF Reaches
    <3>1. CASE y <= l[c + 1]
      BY <3>1 DEF Reaches
    <3>2. CASE ~(y <= l[c + 1])
      <4>1. y = l[i]
        BY <2>8, <3>2
      <4> QED BY <1>2, <4>1
    <3> QED BY <3>1, <3>2
  <2>5. Stops(l, d, i)
    <3> SUFFICES ASSUME NEW j \in 1 .. i PROVE l[j] # l[d + 1] + 1
      BY DEF Stops
    <3>1. l[j] <= l[i] /\ l[j] \in Nat /\ l[i] \in Nat
      BY <1>2, <1>3, <1>4
    <3> QED BY <2>3, <3>1
  <2> QED BY <1>2, <2>4, <2>5 DEF d
<1> QED BY <1>5, <1>6

\* compress keeps the end of the list from an element that the elements before it
\* lead up to without a gap, and that no element follows directly.
LEMMA CompressIs ==
  ASSUME NEW l \in Seq(Nat), Ascending(l), Len(l) >= 1
  PROVE  \E d \in 0 .. Len(l) - 1 :
           /\ Compress(l) \in Seq(Nat) /\ Len(Compress(l)) = Len(l) - d
           /\ \A j \in 1 .. Len(l) - d : Compress(l)[j] = l[d + j]
           /\ Reaches(l, d) /\ Stops(l, d, Len(l))
<1> DEFINE n == Len(l)
           P == Popped(l)
           Good(i) == P[i] \in 0 .. i - 1 /\ Reaches(l, P[i]) /\ Stops(l, P[i], i)
           Bad == {i \in 1 .. n : ~Good(i)}
<1>1. n \in Nat /\ n \in 1 .. n /\ 1 \in 1 .. n
  OBVIOUS
<1>2. \A i \in 1 .. n : P[i] = IF i = 1 THEN 0 ELSE PopWhile(l, P[i - 1], l[i])
  BY PoppedIs
<1> HIDE DEF P
<1>3. Good(1)
  <2>1. P[1] = 0
    BY <1>1, <1>2
  <2>2. \A y \in Nat : l[1] <= y /\ y <= l[0 + 1] => l[1] = y
    BY <1>1
  <2>3. Reaches(l, 0)
    BY <1>1, <2>2 DEF Reaches
  <2>4. Stops(l, 0, 1)
    BY <1>1 DEF Stops
  <2> QED BY <2>1, <2>3, <2>4
<1>4. CASE Bad # {}
  <2>1. PICK i \in Bad : i \in 1 .. n /\ \A k \in 1 .. i - 1 : k \notin Bad
    <3>1. Bad \in SUBSET (1 .. n) /\ 1 \in Nat
      OBVIOUS
    <3> HIDE DEF Bad, n
    <3> QED BY <1>1, <1>4, <3>1, FirstBad
  <2>2. i # 1 /\ i \in 2 .. Len(l) /\ i - 1 \in 1 .. n /\ i - 1 \notin Bad
    <3>1. i # 1
      BY <1>3, <2>1
    <3> HIDE DEF Bad
    <3> QED BY <2>1, <3>1
  <2>3. Good(i - 1)
    BY <2>2
  <2>4. P[i] = PopWhile(l, P[i - 1], l[i])
    BY <1>2, <2>1, <2>2
  <2>5. P[i - 1] \in 0 .. i - 2 /\ Reaches(l, P[i - 1]) /\ Stops(l, P[i - 1], i - 1)
    BY <2>2, <2>3
  <2>6. Good(i)
    BY <2>2, <2>4, <2>5, PopStep
  <2> QED BY <2>1, <2>6
<1>5. CASE Bad = {}
  <2>1. Good(n)
    BY <1>1, <1>5
  <2>2. PICK d \in 0 .. n - 1 : d = P[n]
    BY <2>1
  <2>3. Compress(l) = SubSeq(l, d + 1, n)
    BY <2>2 DEF Compress, P
  <2>4. /\ SubSeq(l, d + 1, n) \in Seq(Nat) /\ Len(SubSeq(l, d + 1, n)) = n - d
        /\ \A j \in 1 .. n - d : SubSeq(l, d + 1, n)[j] = l[d + j]
    <3>1. n \in d .. Len(l) /\ d \in 0 .. Len(l)
      BY <1>1, <2>2
    <3> HIDE DEF n
    <3> QED BY <3>1, SubSeqIs
  <2> QED BY <2>1, <2>2, <2>3, <2>4
<1> QED BY <1>4, <1>5

-----------------------------------------------------------------------------
(* The client's list *)

Occurs(l, x) == \E j \in 1 .. Len(l) : l[j] = x

\* The list l stands for the set A of acknowledged xids.
Represents(l, A) ==
    /\ l \in Seq(Nat) /\ Len(l) >= 1 /\ Ascending(l)
    /\ IsXidRep(l[1], A)
    /\ \A y \in Nat : y > l[1] => (y \in A <=> Occurs(l, y))

\* Insert adds x to what the list says about the xids beyond its front.
LEMMA InsertAdds ==
  ASSUME NEW l \in Seq(Nat), Len(l) >= 1, Ascending(l), NEW x \in Nat, x > l[1]
  PROVE  /\ Insert(l, x) \in Seq(Nat) /\ Len(Insert(l, x)) >= 1 /\ Ascending(Insert(l, x))
         /\ Insert(l, x)[1] = l[1]
         /\ \A y \in Nat : Occurs(Insert(l, x), y) <=> (y = x \/ Occurs(l, y))
<1> DEFINE m == Insert(l, x)
           n == Len(l)
<1>1. PICK p \in 1 .. n + 1 :
         /\ m \in Seq(Nat) /\ Len(m) = n + 1
         /\ \A j \in 1 .. n + 1 : m[j] = IF j < p THEN l[j] ELSE IF j = p THEN x ELSE l[j - 1]
         /\ \A j \in 1 .. p - 1 : l[j] <= x
         /\ \A j \in p .. n : l[j] > x
  BY InsertIs
<1>2. n \in Nat /\ n >= 1 /\ \A j \in 1 .. n : l[j] \in Nat
  OBVIOUS
<1>3. \A i, j \in 1 .. n : i < j => l[i] <= l[j]
  BY DEF Ascending
<1> HIDE DEF m, n
<1>4. p # 1
  <2>1. p = 1 => l[1] > x
    BY <1>1, <1>2
  <2>2. l[1] \in Nat
    BY <1>2
  <2> QED BY <2>1, <2>2
<1>5. m[1] = l[1]
  BY <1>1, <1>2, <1>4
<1>6. \A i, j \in 1 .. n + 1 : i < j => m[i] <= m[j]
  <2> SUFFICES ASSUME NEW i \in 1 .. n + 1, NEW j \in 1 .. n + 1, i < j PROVE m[i] <= m[j]
    OBVIOUS
  <2>1. CASE j < p
    <3>2. i < p /\ i \in 1 .. n /\ j \in 1 .. n
      BY <1>2, <2>1
    <3>1. m[i] = l[i] /\ m[j] = l[j] /\ i \in 1 .. n /\ j \in 1 .. n
      BY <1>1, <2>1, <3>2
    <3> QED BY <1>3, <3>1
  <2>2. CASE j = p
    <3>2. i \in 1 .. p - 1 /\ i < p /\ ~(j < p)
      BY <1>2, <2>2
    <3>1. m[i] = l[i] /\ m[j] = x /\ i \in 1 .. p - 1
      BY <1>1, <2>2, <3>2
    <3> QED BY <1>1, <3>1
  <2>3. CASE j > p /\ i < p
    <3>3. i \in 1 .. p - 1 /\ j - 1 \in p .. n /\ ~(j < p) /\ j # p
      BY <1>2, <2>3
    <3>1. m[i] = l[i] /\ m[j] = l[j - 1] /\ i \in 1 .. p - 1 /\ j - 1 \in p .. n
      BY <1>1, <2>3, <3>3
    <3>4. l[i] <= x /\ l[j - 1] > x
      BY <1>1, <3>1
    <3>5. i \in 1 .. n /\ j - 1 \in 1 .. n
      BY <1>1, <1>2, <3>1
    <3>2. l[i] \in Nat /\ l[j - 1] \in Nat
      BY <1>2, <3>5
    <3> DEFINE a == l[i]
               b == l[j - 1]
    <3>6. a <= b
      <4>1. a <= x /\ b > x /\ a \in Nat /\ b \in Nat
        BY <3>2, <3>4
      <4> HIDE DEF a, b
      <4> QED BY <4>1
    <3> QED BY <3>1, <3>6
  <2>4. CASE j > p /\ i = p
    <3>1. m[i] = x /\ m[j] = l[j - 1] /\ j - 1 \in p .. n
      BY <1>1, <1>2, <2>4
    <3>2. l[j - 1] > x /\ l[j - 1] \in Nat
      BY <1>1, <1>2, <3>1
    <3> QED BY <3>1, <3>2
  <2>5. CASE i > p
    <3>2. i > p /\ j > p /\ i - 1 \in 1 .. n /\ j - 1 \in 1 .. n /\ i - 1 < j - 1
      BY <1>2, <2>5
    <3>3. m[i] = l[i - 1]
      BY <1>1, <3>2
    <3>4. m[j] = l[j - 1]
      BY <1>1, <3>2
    <3>1. m[i] = l[i - 1] /\ m[j] = l[j - 1] /\ i - 1 \in 1 .. n /\ j - 1 \in 1 .. n /\ i - 1 < j - 1
      BY <3>2, <3>3, <3>4
    <3> QED BY <1>3, <3>1
  <2> QED BY <1>1, <2>1, <2>2, <2>3, <2>4, <2>5
<1>7. ASSUME NEW y \in Nat
      PROVE  (\E j \in 1 .. n + 1 : m[j] = y) <=> (y = x \/ \E j \in 1 .. n : l[j] = y)
  <2>1. ASSUME NEW j \in 1 .. n + 1, m[j] = y PROVE y = x \/ \E k \in 1 .. n : l[k] = y
    <3>1. CASE j < p
      BY <1>1, <1>2, <2>1, <3>1
    <3>2. CASE j = p
      BY <1>1, <1>2, <2>1, <3>2
    <3>3. CASE j > p
      <4>1. j - 1 \in 1 .. n /\ l[j - 1] = y
        BY <1>1, <1>2, <2>1, <3>3
      <4> QED BY <4>1
    <3> QED BY <3>1, <3>2, <3>3
  <2>2. ASSUME y = x PROVE \E j \in 1 .. n + 1 : m[j] = y
    <3>1. m[p] = x
      BY <1>1, <1>2
    <3> QED BY <2>2, <3>1
  <2>3. ASSUME NEW k \in 1 .. n, l[k] = y PROVE \E j \in 1 .. n + 1 : m[j] = y
    <3>1. CASE k < p
      <4>1. k \in 1 .. n + 1 /\ m[k] = l[k]
        BY <1>1, <1>2, <3>1
      <4> QED BY <2>3, <4>1
    <3>2. CASE ~(k < p)
      <4>1. k + 1 \in 1 .. n + 1 /\ m[k + 1] = l[k + 1 - 1] /\ k + 1 - 1 = k
        BY <1>1, <1>2, <3>2
      <4> QED BY <2>3, <4>1
    <3> QED BY <3>1, <3>2
  <2> QED BY <2>1, <2>2, <2>3
<1>8. Ascending(m) /\ \A y \in Nat : Occurs(m, y) <=> (y = x \/ Occurs(l, y))
  BY <1>1, <1>6, <1>7 DEF Ascending, Occurs, n
<1>9. m \in Seq(Nat) /\ Len(m) >= 1
  BY <1>1, <1>2
<1> QED BY <1>5, <1>8, <1>9 DEF m

\* update_xid_rep keeps the list in step with the acknowledged xids.
LEMMA UpdateRepresents ==
  ASSUME NEW l, NEW A \in SUBSET Nat, Represents(l, A), NEW x \in Nat, x > l[1]
  PROVE  Represents(Compress(Insert(l, x)), A \cup {x})
<1> DEFINE m == Insert(l, x)
           c == Compress(m)
           B == A \cup {x}
           h == l[1]
<1>0. l \in Seq(Nat) /\ Len(l) >= 1 /\ Ascending(l) /\ IsXidRep(h, A) /\ h \in Nat
  BY DEF Represents
<1>1. /\ m \in Seq(Nat) /\ Len(m) >= 1 /\ Ascending(m) /\ m[1] = h
      /\ \A y \in Nat : Occurs(m, y) <=> (y = x \/ Occurs(l, y))
  BY <1>0, InsertAdds
<1> HIDE DEF m
<1>2. \A y \in Nat : y > h => (y \in B <=> Occurs(m, y))
  BY <1>1 DEF Represents
<1>3. PICK d \in 0 .. Len(m) - 1 :
         /\ c \in Seq(Nat) /\ Len(c) = Len(m) - d
         /\ \A j \in 1 .. Len(m) - d : c[j] = m[d + j]
         /\ Reaches(m, d) /\ Stops(m, d, Len(m))
  BY <1>1, CompressIs
<1> DEFINE n == Len(m)
           f == m[d + 1]
<1>4. n \in Nat /\ d \in 0 .. n - 1 /\ d + 1 \in 1 .. n /\ 1 \in 1 .. n - d
  BY <1>1, <1>3
<1>5. \A j \in 1 .. n : m[j] \in Nat
  BY <1>1
<1>6. \A j, k \in 1 .. n : j < k => m[j] <= m[k]
  BY <1>1 DEF Ascending
<1>7. f \in Nat /\ h <= f /\ c[1] = f
  <2>1. f \in Nat /\ m[1] \in Nat
    BY <1>4, <1>5
  <2>2. m[1] <= f
    <3>1. CASE d = 0
      BY <2>1, <3>1
    <3>2. CASE d # 0
      <4>1. 1 \in 1 .. n /\ d + 1 \in 1 .. n /\ 1 < d + 1
        BY <1>4, <3>2
      <4> QED BY <1>6, <4>1
    <3> QED BY <3>1, <3>2
  <2> QED BY <1>1, <1>3, <1>4, <2>1, <2>2
<1>8. IsXidRep(f, B)
  <2>1. \A y \in 1 .. f : y \in B
    <3> TAKE y \in 1 .. f
    <3>1. CASE y <= h
      BY <1>0, <3>1 DEF IsXidRep
    <3>2. CASE y > h
      <4>1. y \in Nat /\ m[1] <= y /\ y <= m[d + 1]
        BY <1>0, <1>1, <1>7, <3>2
      <4>2. Occurs(m, y)
        BY <1>3, <4>1 DEF Reaches, Occurs
      <4> QED BY <1>2, <3>2, <4>1, <4>2
    <3> QED BY <1>0, <3>1, <3>2
  <2>2. f + 1 \notin B
    <3>1. ~Occurs(m, f + 1)
      BY <1>3 DEF Stops, Occurs
    <3>2. f + 1 \in Nat /\ f + 1 > h
      BY <1>0, <1>7
    <3> QED BY <1>2, <3>1, <3>2
  <2> QED BY <2>1, <2>2 DEF IsXidRep
<1>9. Ascending(c)
  <2> SUFFICES ASSUME NEW i \in 1 .. n - d, NEW j \in 1 .. n - d, i < j PROVE c[i] <= c[j]
    BY <1>3 DEF Ascending
  <2>1. d + i \in 1 .. n /\ d + j \in 1 .. n /\ d + i < d + j
    BY <1>4
  <2> QED BY <1>3, <1>6, <2>1
<1>10. ASSUME NEW y \in Nat, y > f PROVE y \in B <=> Occurs(c, y)
  <2>1. y > h
    BY <1>0, <1>7, <1>10
  <2>2. ASSUME Occurs(m, y) PROVE Occurs(c, y)
    <3>1. PICK j \in 1 .. n : m[j] = y
      BY <2>2 DEF Occurs
    <3>2. j > d + 1
      <4>1. CASE j < d + 1
        <5>1. m[j] <= f
          BY <1>4, <1>6, <4>1
        <5> QED BY <1>7, <1>10, <3>1, <5>1
      <4>2. CASE j = d + 1
        BY <1>7, <1>10, <3>1, <4>2
      <4> QED BY <1>4, <4>1, <4>2
    <3>3. j - d \in 1 .. n - d /\ d + (j - d) = j
      BY <1>4, <3>2
    <3>4. c[j - d] = y
      BY <1>3, <3>1, <3>3
    <3> QED BY <1>3, <3>3, <3>4 DEF Occurs
  <2>3. ASSUME Occurs(c, y) PROVE Occurs(m, y)
    <3>1. PICK j \in 1 .. n - d : c[j] = y
      BY <1>3, <2>3 DEF Occurs
    <3>2. d + j \in 1 .. n /\ m[d + j] = y
      BY <1>3, <1>4, <3>1
    <3> QED BY <3>2 DEF Occurs
  <2> QED BY <1>2, <2>1, <2>2, <2>3
<1>11. c \in Seq(Nat) /\ Len(c) >= 1
  BY <1>3, <1>4
<1> HIDE DEF c, f, B
<1>12. Represents(c, B)
  BY <1>7, <1>8, <1>9, <1>10, <1>11 DEF Represents
<1> QED BY <1>12 DEF c, m, B

\* The inductive invariant of the client's list.
ClientInv ==
    /\ rep \in Seq(Nat) /\ Len(rep) <= MaxXid
    /\ times \in [Xids -> Nat]
    /\ Represents(xid_rep_window, acked)

\* The list <<0>> stands for no xid.
LEMMA InitClientInv == Init => ClientInv
<1> SUFFICES ASSUME Init PROVE ClientInv
  OBVIOUS
<1>1. rep \in Seq(Nat) /\ Len(rep) <= MaxXid
  BY XidAssumption DEF Init
<1>2. times \in [Xids -> Nat] /\ acked = {}
  BY DEF Init, acked
<1>3. xid_rep_window = <<0>>
  BY DEF Init
<1>4. Represents(<<0>>, {})
  <2>1. IsXidRep(0, {})
    BY DEF IsXidRep
  <2> DEFINE l == <<0>>
  <2>2. l \in Seq(Nat) /\ Len(l) = 1 /\ l[1] = 0
    OBVIOUS
  <2> HIDE DEF l
  <2>3. Ascending(l)
    BY <2>2 DEF Ascending
  <2>4. \A y \in Nat : y > l[1] => ~Occurs(l, y)
    BY <2>2 DEF Occurs
  <2>5. Represents(l, {})
    BY <2>1, <2>2, <2>3, <2>4 DEF Represents
  <2> QED BY <2>5 DEF l
<1> QED BY <1>1, <1>2, <1>3, <1>4 DEF ClientInv

\* Every step keeps the list in step with the calls of update_xid_rep.
LEMMA NextClientInv == ClientInv /\ [Next]_vars => ClientInv'
<1> SUFFICES ASSUME ClientInv, [Next]_vars PROVE ClientInv'
  OBVIOUS
<1> USE DEF ClientInv
<1>1. DOMAIN rep \subseteq Xids
  BY XidAssumption DEF Xids
<1>2. ASSUME UNCHANGED clientVars PROVE ClientInv'
  BY <1>2 DEF clientVars, acked
<1>3. CASE Request
  <2>1. xid_rep_window \in Seq(Nat) /\ Len(xid_rep_window) >= 1
    BY DEF Represents
  <2>2. Head(xid_rep_window) \in Nat
    BY <2>1
  <2>3. rep' = Append(rep, Head(xid_rep_window)) /\ Len(rep) < MaxXid
    BY <1>3 DEF Request
  <2>4. rep' \in Seq(Nat) /\ Len(rep') <= MaxXid
    BY <2>2, <2>3, XidAssumption
  <2>5. xid_rep_window' = xid_rep_window /\ times' = times /\ acked' = acked
    BY <1>3 DEF Request, acked
  <2> QED BY <2>4, <2>5
<1>4. ASSUME NEW x \in DOMAIN rep, update_xid_rep(x) PROVE ClientInv'
  <2> DEFINE l == xid_rep_window
             A == acked
  <2>1. x \in Xids /\ x \in Nat
    BY <1>1 DEF Xids
  <2>2. rep' = rep /\ times' = [times EXCEPT ![x] = @ + 1]
    BY <1>4 DEF update_xid_rep
  <2>3. times' \in [Xids -> Nat]
    BY <2>1, <2>2
  <2>4. acked' = acked \cup {x}
    <3>1. \A y \in Xids : times'[y] = IF y = x THEN times[y] + 1 ELSE times[y]
      BY <2>2
    <3>2. times[x] + 1 > 0
      BY <2>1
    <3> QED BY <2>1, <3>1, <3>2 DEF acked
  <2>5. Head(l) = l[1] /\ l[1] \in Nat
    BY DEF Represents
  <2>6. A \in SUBSET Nat /\ Represents(l, A)
    BY DEF acked, Xids
  <2>7. xid_rep_window' = IF x <= l[1] THEN l ELSE Compress(Insert(l, x))
    BY <1>4, <2>5 DEF update_xid_rep
  <2>8. CASE x <= l[1]
    <3>1. x \in 1 .. l[1]
      BY <2>1, <2>5, <2>8 DEF Xids
    <3>2. x \in A
      BY <2>6, <3>1 DEF Represents, IsXidRep
    <3>3. xid_rep_window' = l /\ acked' = A
      BY <2>4, <2>7, <2>8, <3>2
    <3> QED BY <2>2, <2>3, <3>3
  <2>9. CASE ~(x <= l[1])
    <3>1. x > l[1]
      BY <2>1, <2>5, <2>9
    <3> HIDE DEF l, A
    <3>2. Represents(Compress(Insert(l, x)), A \cup {x})
      BY <2>1, <2>6, <3>1, UpdateRepresents
    <3>3. xid_rep_window' = Compress(Insert(l, x)) /\ acked' = A \cup {x}
      BY <2>4, <2>7, <2>9 DEF A
    <3> QED BY <2>2, <2>3, <3>2, <3>3
  <2> QED BY <2>8, <2>9
<1>5. ASSUME NEW x \in DOMAIN rep, checkduplicate_and_update(x, rep[x]) PROVE ClientInv'
  BY <1>2, <1>5 DEF checkduplicate_and_update
<1>6. ASSUME NEW x \in DOMAIN rep, add_reply(x) PROVE ClientInv'
  BY <1>2, <1>6 DEF add_reply
<1>7. CASE UNCHANGED vars
  BY <1>2, <1>7 DEF vars
<1> QED BY <1>3, <1>4, <1>5, <1>6, <1>7 DEF Next

\* What the run checks of the client's list.
LEMMA ClientInvGives == ClientInv => FrontIsXidRep /\ ListHoldsTheRest
<1> SUFFICES ASSUME ClientInv PROVE FrontIsXidRep /\ ListHoldsTheRest
  OBVIOUS
<1> DEFINE l == xid_rep_window
           n == Len(l)
<1>1. l \in Seq(Nat) /\ n >= 1 /\ Ascending(l) /\ IsXidRep(l[1], acked)
  BY DEF ClientInv, Represents
<1>2. \A y \in Nat : y > l[1] => (y \in acked <=> Occurs(l, y))
  BY DEF ClientInv, Represents
<1>3. Head(l) = l[1] /\ n \in Nat /\ \A j \in 1 .. n : l[j] \in Nat
  BY <1>1
<1>5. ToSet(Tail(l)) = {l[j] : j \in 2 .. n}
  <2> DEFINE t == Tail(l)
  <2>1. DOMAIN t = 1 .. n - 1 /\ \A j \in 1 .. n - 1 : t[j] = l[j + 1]
    BY <1>1
  <2>2. ToSet(t) = {t[j] : j \in 1 .. n - 1}
    BY <2>1 DEF ToSet
  <2> HIDE DEF t, n, l
  <2>3. ASSUME NEW j \in 2 .. n PROVE l[j] \in {t[k] : k \in 1 .. n - 1}
    <3>1. j - 1 \in 1 .. n - 1 /\ t[j - 1] = l[j - 1 + 1] /\ j - 1 + 1 = j
      BY <1>3, <2>1
    <3> QED BY <3>1
  <2>4. ASSUME NEW k \in 1 .. n - 1 PROVE t[k] \in {l[j] : j \in 2 .. n}
    <3>1. k + 1 \in 2 .. n /\ t[k] = l[k + 1]
      BY <1>3, <2>1
    <3> QED BY <3>1
  <2>5. {t[k] : k \in 1 .. n - 1} = {l[j] : j \in 2 .. n}
    BY <2>3, <2>4
  <2> QED BY <2>2, <2>5 DEF t
<1>6. \A j \in 2 .. n : l[1] <= l[j]
  <2>1. \A i, j \in 1 .. n : i < j => l[i] <= l[j]
    BY <1>1 DEF Ascending
  <2> HIDE DEF l, n
  <2> TAKE j \in 2 .. n
  <2>2. 1 \in 1 .. n /\ j \in 1 .. n /\ 1 < j
    BY <1>3
  <2> QED BY <2>1, <2>2
<1> HIDE DEF l, n
<1>7. {l[j] : j \in 2 .. n} \ {l[1]} = {x \in acked : x > l[1]}
  <2>0. 1 \in 1 .. n /\ l[1] \in Nat /\ acked \subseteq Nat
    BY <1>1, <1>3 DEF acked, Xids
  <2>1. ASSUME NEW j \in 2 .. n, l[j] # l[1] PROVE l[j] \in acked /\ l[j] > l[1]
    <3>1. j \in 1 .. n /\ l[j] \in Nat
      BY <1>3
    <3>2. l[j] > l[1]
      BY <1>6, <2>0, <2>1, <3>1
    <3> QED BY <1>2, <3>1, <3>2 DEF Occurs, n
  <2>2. ASSUME NEW x \in acked, x > l[1] PROVE x \in {l[j] : j \in 2 .. n} \ {l[1]}
    <3>1. PICK j \in 1 .. n : l[j] = x
      BY <1>2, <2>0, <2>2 DEF Occurs, n
    <3>2. x # l[1]
      BY <2>0, <2>2
    <3>3. j \in 2 .. n
      BY <1>3, <3>1, <3>2
    <3> QED BY <3>1, <3>2, <3>3
  <2> QED BY <2>1, <2>2
<1>8. Head(xid_rep_window) = l[1] /\ l = xid_rep_window
  BY <1>3 DEF l
<1>9. FrontIsXidRep
  BY <1>1, <1>8 DEF FrontIsXidRep
<1>10. ToSet(Tail(xid_rep_window)) \ {Head(xid_rep_window)} = {x \in acked : x > Head(xid_rep_window)}
  BY <1>5, <1>7, <1>8
<1>11. \A i, j \in 1 .. Len(xid_rep_window) : i < j => xid_rep_window[i] <= xid_rep_window[j]
  BY <1>1 DEF Ascending, l
<1>12. ListHoldsTheRest
  BY <1>10, <1>11, Zenon DEF ListHoldsTheRest, IsSorted
<1> QED BY <1>9, <1>12

\* For every number of xids: the front of the client's list, which every request
\* carries as xid_rep, is the end of the contiguous prefix of the xids that
\* update_xid_rep was called for.
THEOREM FrontIsXidRepHolds == DataSpec => []FrontIsXidRep
<1>1. DataInit => ClientInv
  BY InitClientInv DEF DataInit
<1>2. ClientInv /\ [DataNext]_<<vars, sample>> => ClientInv'
  BY NextClientInv DEF DataNext
<1>3. ClientInv => FrontIsXidRep
  BY ClientInvGives
<1> QED BY <1>1, <1>2, <1>3, PTL DEF DataSpec

\* For every number of xids: the list of update_xid_rep holds, in order, every
\* acknowledged xid beyond its front.
THEOREM ListHoldsTheRestHolds == DataSpec => []ListHoldsTheRest
<1>1. DataInit => ClientInv
  BY InitClientInv DEF DataInit
<1>2. ClientInv /\ [DataNext]_<<vars, sample>> => ClientInv'
  BY NextClientInv DEF DataNext
<1>3. ClientInv => ListHoldsTheRest
  BY ClientInvGives
<1> QED BY <1>1, <1>2, <1>3, PTL DEF DataSpec

-----------------------------------------------------------------------------
(* The first loop of checkduplicate_and_update *)

Reply_t == [xid : Xids, cb_present : BOOLEAN]

\* The recursive function Scanned is the loop.
LEMMA ScannedIs ==
  ASSUME NEW l \in Seq(Reply_t), NEW x, NEW r
  PROVE  /\ Scanned(l, x, r)[0] = [kept |-> <<>>, stat |-> "none"]
         /\ \A i \in 1 .. Len(l) : Scanned(l, x, r)[i] = ScanStep(Scanned(l, x, r)[i - 1], l[i], x, r)
<1> DEFINE n == Len(l)
           F(g, i) == IF i = 0 THEN [kept |-> <<>>, stat |-> "none"] ELSE ScanStep(g[i - 1], l[i], x, r)
           Is(g, m) == g = [i \in 0 .. m |-> F(g, i)]
           Bad == {m \in 0 .. n : ~ \E g : Is(g, m)}
<1>1. n \in Nat
  OBVIOUS
<1>2. CASE Bad # {}
  <2>1. PICK m \in Bad : m \in 0 .. n /\ \A k \in 0 .. m - 1 : k \notin Bad
    <3> HIDE DEF n
    <3>1. Bad \in SUBSET (0 .. n)
      OBVIOUS
    <3> HIDE DEF Bad
    <3> QED BY <1>1, <1>2, <3>1, FirstBad
  <2> DEFINE z == [i \in 0 .. 0 |-> [kept |-> <<>>, stat |-> "none"]]
  <2>2. Is(z, 0)
    OBVIOUS
  <2>3. m # 0 /\ m - 1 \in 0 .. n /\ m - 1 \notin Bad
    <3> HIDE DEF Is, z
    <3>1. m # 0
      BY <2>1, <2>2
    <3> HIDE DEF Bad
    <3> QED BY <1>1, <2>1, <3>1
  <2>4. PICK g : Is(g, m - 1)
    BY <2>3
  <2> DEFINE h == [i \in 0 .. m |-> F(g, i)]
  <2> HIDE DEF F
  <2>5. \A i \in 0 .. m - 1 : h[i] = g[i]
    <3>1. g = [i \in 0 .. m - 1 |-> F(g, i)]
      BY <2>4
    <3>2. \A i \in 0 .. m - 1 : g[i] = F(g, i)
      BY <3>1
    <3>3. \A i \in 0 .. m - 1 : i \in 0 .. m
      BY <2>1
    <3> QED BY <3>2, <3>3
  <2>6. \A i \in 0 .. m : F(h, i) = F(g, i)
    <3> HIDE DEF h
    <3>1. \A i \in 0 .. m : i # 0 => h[i - 1] = g[i - 1]
      BY <2>1, <2>5
    <3> QED BY <3>1 DEF F
  <2>7. Is(h, m)
    BY <2>6
  <2> QED BY <2>1, <2>7
<1>3. CASE Bad = {}
  <2>1. \E g : Is(g, n)
    BY <1>1, <1>3
  <2>2. Scanned(l, x, r) = CHOOSE g : Is(g, n)
    BY DEF Scanned
  <2> HIDE DEF Is
  <2>3. Is(Scanned(l, x, r), n)
    BY <2>1, <2>2
  <2> DEFINE S == Scanned(l, x, r)
  <2>4. S = [i \in 0 .. n |-> F(S, i)]
    BY <2>3 DEF Is
  <2> HIDE DEF S, F, n
  <2>5. \A i \in 0 .. n : S[i] = F(S, i)
    BY <2>4
  <2>6. S[0] = F(S, 0) /\ \A i \in 1 .. n : S[i] = F(S, i)
    BY <1>1, <2>5
  <2>7. S[0] = [kept |-> <<>>, stat |-> "none"]
    BY <2>6 DEF F
  <2>8. \A i \in 1 .. n : S[i] = ScanStep(S[i - 1], l[i], x, r)
    BY <2>6 DEF F
  <2> QED BY <2>7, <2>8 DEF S, n
<1> QED BY <1>2, <1>3

\* The state of the loop after i turns, when the first d elements of the list are
\* below xid_rep: what is left of the list so far, and what is known when the
\* function has or has not decided.
ScanInv(l, x, d, i, acc) ==
    /\ acc \in [kept : Seq(Reply_t), stat : {"none", "DONE", "INPROGRESS", "FORGOTTEN"}]
    /\ Len(acc.kept) = IF i > d THEN i - d ELSE 0
    /\ \A j \in 1 .. i - d : acc.kept[j] = l[d + j]
    /\ acc.stat = "none" => /\ \A j \in d + 1 .. i : l[j].xid # x
                            /\ i > d => l[d + 1].xid < x
    /\ acc.stat = "DONE" => \E j \in d + 1 .. i : l[j].xid = x /\ l[j].cb_present
    /\ acc.stat = "INPROGRESS" => \E j \in d + 1 .. i : l[j].xid = x /\ ~l[j].cb_present
    /\ acc.stat = "FORGOTTEN" => i > d /\ l[d + 1].xid > x

\* One turn of the loop.
LEMMA TurnStep ==
  ASSUME NEW l \in Seq(Reply_t), NEW x \in Nat, NEW r \in Nat, NEW d \in 0 .. Len(l),
         \A j \in 1 .. d : l[j].xid < r, \A j \in d + 1 .. Len(l) : l[j].xid >= r,
         NEW i \in 1 .. Len(l), NEW acc, ScanInv(l, x, d, i - 1, acc)
  PROVE  ScanInv(l, x, d, i, ScanStep(acc, l[i], x, r))
<1> DEFINE n == Len(l)
           k == Append(acc.kept, l[i])
           s == ScanStep(acc, l[i], x, r)
           Stats == {"none", "DONE", "INPROGRESS", "FORGOTTEN"}
<1>1. n \in Nat /\ i \in 1 .. n /\ d \in 0 .. n
  OBVIOUS
<1>2. \A j \in 1 .. n : l[j] \in Reply_t /\ l[j].xid \in Nat /\ l[j].cb_present \in BOOLEAN
  <2>1. \A j \in 1 .. n : l[j] \in Reply_t
    OBVIOUS
  <2> QED BY <2>1 DEF Reply_t, Xids
<1>3. acc.kept \in Seq(Reply_t) /\ acc.stat \in Stats /\ acc = [kept |-> acc.kept, stat |-> acc.stat]
  BY DEF ScanInv
<1>4. CASE i <= d
  <2>1. acc.stat = "none"
    <3>1. ~(i - 1 > d) /\ ~ \E j \in d + 1 .. i - 1 : TRUE
      BY <1>1, <1>4
    <3> QED BY <1>3, <3>1 DEF ScanInv
  <2>2. l[i].xid < r
    BY <1>1, <1>4
  <2>3. s = acc
    BY <2>1, <2>2 DEF ScanStep
  <2>4. ~(i > d) /\ ~(i - 1 > d)
    BY <1>1, <1>4
  <2>5. d + 1 .. i = {} /\ 1 .. i - d = {}
    BY <1>1, <1>4
  <2>6. ScanInv(l, x, d, i, acc)
    BY <1>3, <2>1, <2>4, <2>5 DEF ScanInv
  <2> QED BY <2>3, <2>6
<1>5. CASE i > d
  <2>1. l[i].xid >= r /\ ~(l[i].xid < r)
    BY <1>1, <1>2, <1>5
  <2>2. Len(acc.kept) = i - 1 - d
    <3>1. i - 1 > d \/ i - 1 = d
      BY <1>1, <1>5
    <3> QED BY <1>1, <3>1 DEF ScanInv
  <2>3. /\ k \in Seq(Reply_t) /\ Len(k) = i - d
        /\ \A j \in 1 .. i - d : k[j] = l[d + j]
    <3>1. k \in Seq(Reply_t) /\ Len(k) = Len(acc.kept) + 1
          /\ (\A j \in 1 .. Len(acc.kept) : k[j] = acc.kept[j]) /\ k[Len(acc.kept) + 1] = l[i]
      BY <1>1, <1>2, <1>3
    <3> HIDE DEF k
    <3>2. \A j \in 1 .. i - 1 - d : k[j] = l[d + j]
      BY <2>2, <3>1 DEF ScanInv
    <3>3. k[i - d] = l[d + (i - d)]
      <4>1. i - 1 - d + 1 = i - d /\ d + (i - d) = i
        BY <1>1
      <4> QED BY <2>2, <3>1, <4>1
    <3>4. \A j \in 1 .. i - d : j \in 1 .. i - 1 - d \/ j = i - d
      BY <1>1
    <3>5. Len(k) = i - d
      BY <1>1, <2>2, <3>1
    <3> QED BY <3>1, <3>2, <3>3, <3>4, <3>5
  <2>4. Head(k) = l[d + 1]
    <3>1. 1 \in 1 .. i - d
      BY <1>1, <1>5
    <3>2. Head(k) = k[1]
      <4> HIDE DEF k
      <4> QED BY <2>3, <3>1
    <3> QED BY <2>3, <3>1, <3>2
  <2> HIDE DEF k
  <2>5. (IF i > d THEN i - d ELSE 0) = i - d /\ i \in d + 1 .. i /\ d + 1 \in 1 .. n
    BY <1>1, <1>5
  <2>6. CASE acc.stat # "none"
    <3>1. s = [kept |-> k, stat |-> acc.stat]
      BY <1>3, <2>6 DEF ScanStep, k
    <3>2. \A j \in d + 1 .. i - 1 : j \in d + 1 .. i
      BY <1>1
    <3>3. i - 1 > d => i > d
      BY <1>1
    <3> HIDE DEF s
    <3>4. s \in [kept : Seq(Reply_t), stat : Stats] /\ s.kept = k /\ s.stat = acc.stat
      BY <1>3, <2>3, <3>1
    <3> QED BY <1>3, <2>3, <2>5, <2>6, <3>2, <3>3, <3>4 DEF ScanInv, s
  <2>7. CASE acc.stat = "none" /\ l[i].xid = x
    <3>1. s = [kept |-> k, stat |-> IF l[i].cb_present THEN "DONE" ELSE "INPROGRESS"]
      BY <2>1, <2>7 DEF ScanStep, k
    <3> HIDE DEF s
    <3>2. /\ s \in [kept : Seq(Reply_t), stat : Stats] /\ s.kept = k
          /\ s.stat = IF l[i].cb_present THEN "DONE" ELSE "INPROGRESS"
      BY <2>3, <3>1
    <3> QED BY <2>3, <2>5, <2>7, <3>2 DEF ScanInv, s
  <2>8. CASE acc.stat = "none" /\ l[i].xid # x
    <3>1. s = [kept |-> k, stat |-> IF l[d + 1].xid > x THEN "FORGOTTEN" ELSE "none"]
      BY <2>1, <2>4, <2>8 DEF ScanStep, k
    <3> HIDE DEF s
    <3>2. /\ s \in [kept : Seq(Reply_t), stat : Stats] /\ s.kept = k
          /\ s.stat = IF l[d + 1].xid > x THEN "FORGOTTEN" ELSE "none"
      BY <2>3, <3>1
    <3>3. \A j \in d + 1 .. i : j \in d + 1 .. i - 1 \/ j = i
      BY <1>1
    <3>4. \A j \in d + 1 .. i : l[j].xid # x
      BY <2>8, <3>3 DEF ScanInv
    <3>5. ~(l[d + 1].xid > x) => l[d + 1].xid < x
      BY <1>2, <2>5, <3>4
    <3> QED BY <1>5, <2>3, <2>5, <3>2, <3>4, <3>5 DEF ScanInv, s
  <2> QED BY <2>6, <2>7, <2>8
<1> QED BY <1>1, <1>4, <1>5

-----------------------------------------------------------------------------
(* The server's list *)

StrictlyAscending(l) == \A i, j \in 1 .. Len(l) : i < j => l[i].xid < l[j].xid

\* The list of the server, sorted and without duplicates.
ReplyList(l) == l \in Seq(Reply_t) /\ StrictlyAscending(l)

\* The elements of a reply list.
LEMMA ReplyIs ==
  ASSUME NEW l \in Seq(Reply_t)
  PROVE  /\ Len(l) \in Nat /\ DOMAIN l = 1 .. Len(l)
         /\ \A j \in 1 .. Len(l) : /\ l[j] \in Reply_t /\ l[j].xid \in Xids /\ l[j].xid \in Nat
                                   /\ l[j].cb_present \in BOOLEAN
<1>1. \A j \in 1 .. Len(l) : l[j] \in Reply_t
  OBVIOUS
<1> QED BY <1>1 DEF Reply_t, Xids

\* An xid occurs once, so its element alone says what the list says of it.
LEMMA AsWindowIs ==
  ASSUME NEW l, ReplyList(l)
  PROVE  /\ \A i \in 1 .. Len(l) :
              AsWindow(l)[l[i].xid] = IF l[i].cb_present THEN "present" ELSE "inprogress"
         /\ \A x \in Xids : (\A i \in 1 .. Len(l) : l[i].xid # x) => AsWindow(l)[x] = "absent"
         /\ \A x \in Xids : AsWindow(l)[x] # "absent" => \E i \in 1 .. Len(l) : l[i].xid = x
         /\ AsWindow(l) \in ReplyWindows
<1>1. /\ Len(l) \in Nat /\ DOMAIN l = 1 .. Len(l)
      /\ \A j \in 1 .. Len(l) : l[j].xid \in Xids /\ l[j].xid \in Nat /\ l[j].cb_present \in BOOLEAN
  BY ReplyIs DEF ReplyList
<1>2. \A i, j \in 1 .. Len(l) : l[i].xid = l[j].xid => i = j
  <2> SUFFICES ASSUME NEW i \in 1 .. Len(l), NEW j \in 1 .. Len(l), l[i].xid = l[j].xid, i # j
               PROVE  FALSE
    OBVIOUS
  <2>1. l[i].xid < l[j].xid \/ l[j].xid < l[i].xid
    <3>1. i < j \/ j < i
      BY <1>1
    <3> QED BY <3>1 DEF ReplyList, StrictlyAscending
  <2> QED BY <1>1, <2>1
<1>3. \A x \in Xids : AsWindow(l)[x] =
        IF \E i \in 1 .. Len(l) : l[i].xid = x /\ l[i].cb_present THEN "present"
        ELSE IF \E i \in 1 .. Len(l) : l[i].xid = x THEN "inprogress" ELSE "absent"
  BY <1>1 DEF AsWindow
<1>4. ASSUME NEW i \in 1 .. Len(l)
      PROVE  AsWindow(l)[l[i].xid] = IF l[i].cb_present THEN "present" ELSE "inprogress"
  <2>1. l[i].xid \in Xids /\ (\E j \in 1 .. Len(l) : l[j].xid = l[i].xid)
    BY <1>1
  <2>2. (\E j \in 1 .. Len(l) : l[j].xid = l[i].xid /\ l[j].cb_present) <=> l[i].cb_present
    BY <1>2
  <2> QED BY <1>3, <2>1, <2>2
<1>5. AsWindow(l) \in ReplyWindows
  BY DEF AsWindow, ReplyWindows
<1> QED BY <1>3, <1>4, <1>5

\* The elements from xid_rep on: the trimmed window.
LEMMA KeptIsTrimmed ==
  ASSUME NEW l, ReplyList(l), NEW r \in Nat, NEW d \in 0 .. Len(l),
         \A j \in 1 .. d : l[j].xid < r, \A j \in d + 1 .. Len(l) : l[j].xid >= r,
         NEW k \in Seq(Reply_t), Len(k) = Len(l) - d, \A j \in 1 .. Len(l) - d : k[j] = l[d + j]
  PROVE  ReplyList(k) /\ AsWindow(k) = Trim(AsWindow(l), r)
<1> DEFINE n == Len(l)
<1>1. /\ n \in Nat
      /\ \A j \in 1 .. n : l[j].xid \in Xids /\ l[j].xid \in Nat /\ l[j].cb_present \in BOOLEAN
  BY ReplyIs DEF ReplyList
<1>2. \A i \in 1 .. n - d : d + i \in 1 .. n /\ d + i \in d + 1 .. n
  BY <1>1
<1>3. ReplyList(k)
  <2> SUFFICES ASSUME NEW i \in 1 .. n - d, NEW j \in 1 .. n - d, i < j PROVE k[i].xid < k[j].xid
    BY DEF ReplyList, StrictlyAscending
  <2>1. d + i \in 1 .. n /\ d + j \in 1 .. n /\ d + i < d + j
    BY <1>1
  <2>2. l[d + i].xid < l[d + j].xid
    BY <2>1 DEF ReplyList, StrictlyAscending
  <2> QED BY <2>2
<1>4. ASSUME NEW x \in Xids PROVE AsWindow(k)[x] = IF x < r THEN "absent" ELSE AsWindow(l)[x]
  <2>1. CASE x < r
    <3>1. \A i \in 1 .. Len(k) : k[i].xid # x
      <4> SUFFICES ASSUME NEW i \in 1 .. n - d, k[i].xid = x PROVE FALSE
        OBVIOUS
      <4>1. k[i] = l[d + i] /\ d + i \in d + 1 .. n
        BY <1>2
      <4>2. l[d + i].xid >= r
        BY <4>1
      <4>3. x >= r /\ x \in Nat
        BY <4>1, <4>2 DEF Xids
      <4> QED BY <2>1, <4>3
    <3> QED BY <1>3, <2>1, <3>1, AsWindowIs
  <2>2. CASE ~(x < r)
    <3>1. CASE \E i \in 1 .. n : l[i].xid = x
      <4>1. PICK i \in 1 .. n : l[i].xid = x
        BY <3>1
      <4>2. i \in d + 1 .. n
        BY <1>1, <2>2, <4>1
      <4>3. i - d \in 1 .. n - d /\ d + (i - d) = i
        BY <1>1, <4>2
      <4>4. k[i - d] = l[i]
        BY <4>3
      <4>5. AsWindow(k)[k[i - d].xid] = IF k[i - d].cb_present THEN "present" ELSE "inprogress"
        BY <1>3, <4>3, AsWindowIs
      <4>6. AsWindow(l)[l[i].xid] = IF l[i].cb_present THEN "present" ELSE "inprogress"
        BY AsWindowIs
      <4> QED BY <2>2, <4>1, <4>4, <4>5, <4>6
    <3>2. CASE \A i \in 1 .. n : l[i].xid # x
      <4>1. \A i \in 1 .. Len(k) : k[i].xid # x
        BY <1>2, <3>2
      <4> QED BY <1>3, <2>2, <3>2, <4>1, AsWindowIs
    <3> QED BY <3>1, <3>2
  <2> QED BY <2>1, <2>2
<1>5. AsWindow(k) = [x \in Xids |-> AsWindow(k)[x]]
  BY DEF AsWindow
<1> QED BY <1>3, <1>4, <1>5 DEF Trim

\* The replies that the request allows to forget are the first d ones.
LEMMA ForgottenPrefix ==
  ASSUME NEW l, ReplyList(l), NEW r \in Nat
  PROVE  \E d \in 0 .. Len(l) : /\ \A j \in 1 .. d : l[j].xid < r
                                /\ \A j \in d + 1 .. Len(l) : l[j].xid >= r
<1> DEFINE n == Len(l)
           B == {j \in 1 .. n : l[j].xid >= r}
<1>1. n \in Nat /\ \A j \in 1 .. n : l[j].xid \in Nat
  BY ReplyIs DEF ReplyList
<1>2. \A i, j \in 1 .. n : i < j => l[i].xid < l[j].xid
  BY DEF ReplyList, StrictlyAscending
<1> HIDE DEF n
<1>3. CASE B = {}
  <2>1. \A j \in 1 .. n : l[j].xid < r
    BY <1>1, <1>3
  <2>2. n \in 0 .. n /\ n + 1 .. n = {}
    BY <1>1
  <2> QED BY <2>1, <2>2 DEF n
<1>4. CASE B # {}
  <2>1. PICK m \in B : \A j \in B : m <= j
    <3>1. B \in SUBSET Nat
      BY <1>1
    <3> HIDE DEF B
    <3> QED BY <1>4, <3>1, Least
  <2>2. m \in 1 .. n /\ l[m].xid >= r /\ m - 1 \in 0 .. n
    BY <1>1, <2>1
  <2>3. \A j \in 1 .. m - 1 : l[j].xid < r
    <3> TAKE j \in 1 .. m - 1
    <3>1. j \in 1 .. n /\ j \notin B
      BY <1>1, <2>1, <2>2
    <3> QED BY <1>1, <3>1
  <2>4. \A j \in m .. n : l[j].xid >= r
    <3> TAKE j \in m .. n
    <3>1. j \in 1 .. n
      BY <1>1, <2>2
    <3>2. CASE j = m
      BY <2>2, <3>2
    <3>3. CASE j # m
      <4>1. m < j
        BY <1>1, <2>2, <3>3
      <4>2. l[m].xid < l[j].xid
        BY <1>2, <2>2, <3>1, <4>1
      <4>3. l[m].xid \in Nat /\ l[j].xid \in Nat
        BY <1>1, <2>2, <3>1
      <4> QED BY <2>2, <4>2, <4>3
    <3> QED BY <3>2, <3>3
  <2>5. m - 1 + 1 = m
    BY <2>2
  <2> QED BY <2>2, <2>3, <2>4, <2>5 DEF n
<1> QED BY <1>3, <1>4

\* The second loop puts the new element between the smaller and the larger xids.
LEMMA InsertNewIs ==
  ASSUME NEW l, ReplyList(l), NEW x \in Xids, \A i \in 1 .. Len(l) : l[i].xid # x
  PROVE  \E p \in 1 .. Len(l) + 1 :
           /\ InsertNew(l, x) \in Seq(Reply_t) /\ Len(InsertNew(l, x)) = Len(l) + 1
           /\ \A j \in 1 .. Len(l) + 1 :
                InsertNew(l, x)[j] = IF j < p THEN l[j]
                                     ELSE IF j = p THEN [xid |-> x, cb_present |-> FALSE]
                                     ELSE l[j - 1]
           /\ \A j \in 1 .. p - 1 : l[j].xid < x
           /\ \A j \in p .. Len(l) : l[j].xid > x
<1> DEFINE I == {j \in 1 .. Len(l) : l[j].xid > x}
           e == [xid |-> x, cb_present |-> FALSE]
           n == Len(l)
<1>1. SelectInSeq(l, LAMBDA y : y.xid > x) = IF I # {} THEN Min(I) ELSE 0
  BY DEF SelectInSeq
<1>2. l \in Seq(Reply_t) /\ n \in Nat /\ \A j \in 1 .. n : l[j].xid \in Nat /\ l[j].xid # x
  BY ReplyIs DEF ReplyList
<1>3. \A i, j \in 1 .. n : i < j => l[i].xid < l[j].xid
  BY DEF ReplyList, StrictlyAscending
<1>4. e \in Reply_t /\ x \in Nat
  BY DEF Reply_t, Xids
<1>5. CASE I = {}
  <2>1. InsertNew(l, x) = Append(l, e)
    BY <1>1, <1>5 DEF InsertNew
  <2>2. \A j \in 1 .. n : l[j].xid < x
    BY <1>2, <1>4, <1>5
  <2>3. /\ Append(l, e) \in Seq(Reply_t) /\ Len(Append(l, e)) = n + 1
        /\ \A j \in 1 .. n + 1 : Append(l, e)[j] = IF j < n + 1 THEN l[j] ELSE e
    <3> HIDE DEF e
    <3> QED BY <1>2, <1>4
  <2> HIDE DEF I, e
  <2>4. /\ n + 1 \in 1 .. n + 1 /\ n + 1 - 1 = n /\ n + 1 .. n = {}
        /\ \A j \in 1 .. n + 1 : ~(j < n + 1) => j = n + 1
    BY <1>2
  <2> QED BY <2>1, <2>2, <2>3, <2>4 DEF e
<1>6. CASE I # {}
  <2> DEFINE q == Min(I)
  <2>1. q \in I /\ \A j \in I : q <= j
    <3>1. I \in SUBSET Nat
      OBVIOUS
    <3> QED BY <1>6, <3>1, MinIs
  <2>2. InsertNew(l, x) = InsertAt(l, q, e)
    <3>1. q # 0
      BY <2>1
    <3> QED BY <1>1, <1>6, <3>1 DEF InsertNew
  <2> HIDE DEF q
  <2>3. q \in 1 .. n /\ q \in 1 .. n + 1 /\ l[q].xid > x
    BY <1>2, <2>1
  <2>4. \A j \in 1 .. q - 1 : l[j].xid < x
    <3> TAKE j \in 1 .. q - 1
    <3>1. j \in 1 .. n /\ j \notin I
      BY <1>2, <2>1, <2>3
    <3> QED BY <1>2, <1>4, <3>1
  <2>5. \A j \in q .. n : l[j].xid > x
    <3> TAKE j \in q .. n
    <3>1. j \in 1 .. n /\ (j = q \/ q < j)
      BY <1>2, <2>3
    <3>2. CASE j = q
      BY <2>3, <3>2
    <3>3. CASE q < j
      <4>1. l[q].xid < l[j].xid /\ l[q].xid \in Nat /\ l[j].xid \in Nat
        BY <1>2, <1>3, <2>3, <3>1, <3>3
      <4> QED BY <1>4, <2>3, <4>1
    <3> QED BY <3>1, <3>2, <3>3
  <2>6. /\ InsertAt(l, q, e) \in Seq(Reply_t) /\ Len(InsertAt(l, q, e)) = n + 1
        /\ \A j \in 1 .. n + 1 :
             InsertAt(l, q, e)[j] = IF j < q THEN l[j] ELSE IF j = q THEN e ELSE l[j - 1]
    <3> HIDE DEF I, e
    <3>1. q \in 1 .. Len(l) + 1
      BY <2>3
    <3>2. InsertedAt(Reply_t, l, q, e, InsertAt(l, q, e))
      BY <1>2, <1>4, <3>1, InsertAtAny, Zenon
    <3> QED BY <3>2, Zenon DEF InsertedAt
  <2> HIDE DEF I
  <2> QED BY <2>2, <2>3, <2>4, <2>5, <2>6
<1> QED BY <1>5, <1>6

\* For the window the second loop marks the xid as running.
LEMMA InsertNewAdds ==
  ASSUME NEW l, ReplyList(l), NEW x \in Xids, \A i \in 1 .. Len(l) : l[i].xid # x
  PROVE  /\ ReplyList(InsertNew(l, x))
         /\ AsWindow(InsertNew(l, x)) = [AsWindow(l) EXCEPT ![x] = "inprogress"]
<1> DEFINE m == InsertNew(l, x)
           e == [xid |-> x, cb_present |-> FALSE]
           n == Len(l)
<1>1. PICK p \in 1 .. n + 1 :
         /\ m \in Seq(Reply_t) /\ Len(m) = n + 1
         /\ \A j \in 1 .. n + 1 : m[j] = IF j < p THEN l[j] ELSE IF j = p THEN e ELSE l[j - 1]
         /\ \A j \in 1 .. p - 1 : l[j].xid < x
         /\ \A j \in p .. n : l[j].xid > x
  BY InsertNewIs
<1> HIDE DEF m
<1>2. n \in Nat /\ (\A j \in 1 .. n : l[j].xid \in Nat /\ l[j].xid \in Xids) /\ x \in Nat
  BY ReplyIs DEF ReplyList, Xids
<1>3. \A i, j \in 1 .. n : i < j => l[i].xid < l[j].xid
  BY DEF ReplyList, StrictlyAscending
<1>4. e.xid = x /\ e.cb_present = FALSE
  OBVIOUS
<1> HIDE DEF n, e
<1>5. \A j \in 1 .. n + 1 : j < p => m[j] = l[j] /\ j \in 1 .. n /\ j \in 1 .. p - 1
  BY <1>1, <1>2
<1>6. m[p] = e
  BY <1>1, <1>2
<1>7. \A j \in 1 .. n + 1 : j > p => m[j] = l[j - 1] /\ j - 1 \in 1 .. n /\ j - 1 \in p .. n
  <2> TAKE j \in 1 .. n + 1
  <2> HAVE j > p
  <2>1. ~(j < p) /\ j # p /\ j - 1 \in 1 .. n /\ j - 1 \in p .. n
    BY <1>1, <1>2
  <2> QED BY <1>1, <2>1
<1>8. \A i, j \in 1 .. n + 1 : i < j => m[i].xid < m[j].xid
  <2> SUFFICES ASSUME NEW i \in 1 .. n + 1, NEW j \in 1 .. n + 1, i < j PROVE m[i].xid < m[j].xid
    OBVIOUS
  <2>0. i \in Int /\ j \in Int /\ p \in Int
    BY <1>1, <1>2
  <2>1. CASE j < p
    BY <1>3, <1>5, <2>0, <2>1
  <2>2. CASE j = p
    BY <1>1, <1>4, <1>5, <1>6, <2>2
  <2>3. CASE j > p /\ i < p
    <3>1. m[i].xid < x /\ x < m[j].xid /\ m[i].xid \in Nat /\ m[j].xid \in Nat
      <4>1. m[i] = l[i] /\ i \in 1 .. n /\ l[i].xid < x
        BY <1>1, <1>5, <2>3
      <4>2. m[j] = l[j - 1] /\ j - 1 \in 1 .. n /\ l[j - 1].xid > x
        BY <1>1, <1>7, <2>3
      <4> QED BY <1>2, <4>1, <4>2
    <3> QED BY <1>2, <3>1
  <2>4. CASE j > p /\ i = p
    <3>1. m[j] = l[j - 1] /\ j - 1 \in 1 .. n /\ l[j - 1].xid > x
      BY <1>1, <1>7, <2>4
    <3> QED BY <1>2, <1>4, <1>6, <2>4, <3>1
  <2>5. CASE i > p
    <3>1. j > p /\ i - 1 < j - 1
      BY <2>0, <2>5
    <3>2. m[i] = l[i - 1] /\ m[j] = l[j - 1] /\ i - 1 \in 1 .. n /\ j - 1 \in 1 .. n
      BY <1>7, <2>5, <3>1
    <3> QED BY <1>3, <3>1, <3>2
  <2> QED BY <2>0, <2>1, <2>2, <2>3, <2>4, <2>5
<1>9. ReplyList(m)
  BY <1>1, <1>8 DEF ReplyList, StrictlyAscending
<1>10. AsWindow(m)[x] = "inprogress"
  BY <1>1, <1>4, <1>6, <1>9, AsWindowIs
<1>11. ASSUME NEW y \in Xids, y # x PROVE AsWindow(m)[y] = AsWindow(l)[y]
  <2>1. CASE \E i \in 1 .. n : l[i].xid = y
    <3>1. PICK i \in 1 .. n : l[i].xid = y
      BY <2>1
    <3>2. \E j \in 1 .. n + 1 : m[j] = l[i]
      <4>1. CASE i < p
        <5>1. i \in 1 .. n + 1
          BY <1>2
        <5> QED BY <1>5, <4>1, <5>1
      <4>2. CASE ~(i < p)
        <5>1. i + 1 \in 1 .. n + 1 /\ i + 1 > p /\ i + 1 - 1 = i
          BY <1>1, <1>2, <4>2
        <5> QED BY <1>7, <5>1
      <4> QED BY <4>1, <4>2
    <3>3. PICK j \in 1 .. n + 1 : m[j] = l[i]
      BY <3>2
    <3>4. AsWindow(m)[m[j].xid] = IF m[j].cb_present THEN "present" ELSE "inprogress"
      BY <1>1, <1>9, AsWindowIs
    <3>5. AsWindow(l)[l[i].xid] = IF l[i].cb_present THEN "present" ELSE "inprogress"
      BY AsWindowIs DEF n
    <3> QED BY <3>1, <3>3, <3>4, <3>5
  <2>2. CASE \A i \in 1 .. n : l[i].xid # y
    <3>1. \A j \in 1 .. n + 1 : m[j].xid # y
      <4> TAKE j \in 1 .. n + 1
      <4>0. j \in Int /\ p \in Int
        BY <1>1, <1>2
      <4>1. CASE j < p
        BY <1>5, <2>2, <4>1
      <4>2. CASE j = p
        BY <1>4, <1>6, <1>11, <4>2
      <4>3. CASE j > p
        BY <1>7, <2>2, <4>3
      <4> QED BY <4>0, <4>1, <4>2, <4>3
    <3>2. AsWindow(m)[y] = "absent"
      BY <1>1, <1>9, <3>1, AsWindowIs
    <3>3. AsWindow(l)[y] = "absent"
      BY <2>2, AsWindowIs DEF n
    <3> QED BY <3>2, <3>3
  <2> QED BY <2>1, <2>2
<1>12. AsWindow(m) = [y \in Xids |-> AsWindow(m)[y]] /\ AsWindow(l) = [y \in Xids |-> AsWindow(l)[y]]
  BY DEF AsWindow
<1> DEFINE v == AsWindow(m)
           o == AsWindow(l)
<1>13. v = [o EXCEPT ![x] = "inprogress"]
  <2>1. /\ v = [y \in Xids |-> v[y]] /\ o = [y \in Xids |-> o[y]] /\ v[x] = "inprogress"
        /\ \A y \in Xids : y # x => v[y] = o[y]
    BY <1>10, <1>11, <1>12
  <2> HIDE DEF v, o
  <2> QED BY <2>1
<1> QED BY <1>9, <1>13 DEF m

\* What the first loop returns, and what it leaves of the list.
LEMMA ScanIs ==
  ASSUME NEW l, ReplyList(l), NEW x \in Xids, NEW r \in Nat
  PROVE  /\ ReplyList(Scan(l, x, r).kept)
         /\ AsWindow(Scan(l, x, r).kept) = Trim(AsWindow(l), r)
         /\ Scan(l, x, r).stat \in {"none", "DONE", "INPROGRESS", "FORGOTTEN"}
         /\ Scan(l, x, r).stat = "none" =>
              /\ \A j \in 1 .. Len(Scan(l, x, r).kept) : Scan(l, x, r).kept[j].xid # x
              /\ Len(Scan(l, x, r).kept) > 0 => Scan(l, x, r).kept[1].xid < x
         /\ Scan(l, x, r).stat = "DONE" =>
              \E j \in 1 .. Len(Scan(l, x, r).kept) :
                 Scan(l, x, r).kept[j].xid = x /\ Scan(l, x, r).kept[j].cb_present
         /\ Scan(l, x, r).stat = "INPROGRESS" =>
              \E j \in 1 .. Len(Scan(l, x, r).kept) :
                 Scan(l, x, r).kept[j].xid = x /\ ~Scan(l, x, r).kept[j].cb_present
         /\ Scan(l, x, r).stat = "FORGOTTEN" =>
              Len(Scan(l, x, r).kept) > 0 /\ Scan(l, x, r).kept[1].xid > x
<1> DEFINE n == Len(l)
           P == Scanned(l, x, r)
           z == [kept |-> <<>>, stat |-> "none"]
<1>1. l \in Seq(Reply_t) /\ n \in Nat /\ n \in 0 .. n /\ 0 \in 0 .. n /\ x \in Nat
  BY ReplyIs DEF ReplyList, Xids
<1>2. P[0] = z /\ \A i \in 1 .. n : P[i] = ScanStep(P[i - 1], l[i], x, r)
  BY <1>1, ScannedIs
<1> HIDE DEF P
<1>3. PICK d \in 0 .. n : /\ \A j \in 1 .. d : l[j].xid < r
                          /\ \A j \in d + 1 .. n : l[j].xid >= r
  BY ForgottenPrefix
<1> DEFINE Bad == {i \in 0 .. n : ~ScanInv(l, x, d, i, P[i])}
<1>4. ScanInv(l, x, d, 0, z)
  <2>1. ~(0 > d) /\ 1 .. 0 - d = {}
    BY <1>1, <1>3
  <2>2. z \in [kept : Seq(Reply_t), stat : {"none", "DONE", "INPROGRESS", "FORGOTTEN"}]
    OBVIOUS
  <2>3. z.kept = <<>> /\ z.stat = "none" /\ Len(<<>>) = 0
    OBVIOUS
  <2>4. d + 1 .. 0 = {}
    BY <1>1, <1>3
  <2> HIDE DEF z
  <2> QED BY <2>1, <2>2, <2>3, <2>4 DEF ScanInv
<1> HIDE DEF z
<1>5. CASE Bad # {}
  <2>1. PICK i \in Bad : i \in 0 .. n /\ \A k \in 0 .. i - 1 : k \notin Bad
    <3>1. Bad \in SUBSET (0 .. n) /\ 0 \in Nat
      OBVIOUS
    <3> HIDE DEF Bad, n
    <3> QED BY <1>1, <1>5, <3>1, FirstBad
  <2>2. i # 0 /\ i \in 1 .. n /\ i - 1 \in 0 .. n /\ i - 1 \notin Bad
    <3>1. i # 0
      BY <1>2, <1>4, <2>1
    <3> HIDE DEF Bad
    <3> QED BY <1>1, <2>1, <3>1
  <2>3. ScanInv(l, x, d, i - 1, P[i - 1])
    BY <2>2
  <2>4. ScanInv(l, x, d, i, ScanStep(P[i - 1], l[i], x, r))
    BY <1>1, <1>3, <2>2, <2>3, TurnStep
  <2> QED BY <1>2, <2>1, <2>2, <2>4
<1>6. CASE Bad = {}
  <2> DEFINE s == Scan(l, x, r)
             k == s.kept
  <2>1. s = P[n]
    BY DEF Scan, P
  <2>2. ScanInv(l, x, d, n, s)
    BY <1>1, <1>6, <2>1
  <2> HIDE DEF s
  <2>3. /\ k \in Seq(Reply_t) /\ s.stat \in {"none", "DONE", "INPROGRESS", "FORGOTTEN"}
        /\ Len(k) = IF n > d THEN n - d ELSE 0
        /\ \A j \in 1 .. n - d : k[j] = l[d + j]
    BY <2>2 DEF ScanInv
  <2> HIDE DEF k
  <2>4. Len(k) = n - d
    BY <1>1, <1>3, <2>3
  <2>5. ReplyList(k) /\ AsWindow(k) = Trim(AsWindow(l), r)
    BY <1>3, <2>3, <2>4, KeptIsTrimmed
  <2>6. \A j \in 1 .. n - d : d + j \in d + 1 .. n
    BY <1>1, <1>3
  <2>7. \A j \in d + 1 .. n : j - d \in 1 .. n - d /\ k[j - d] = l[j]
    <3> TAKE j \in d + 1 .. n
    <3>1. j - d \in 1 .. n - d /\ d + (j - d) = j
      BY <1>1, <1>3
    <3> QED BY <2>3, <3>1
  <2>8. n > d => n - d > 0 /\ 1 \in 1 .. n - d /\ k[1] = l[d + 1]
    BY <1>1, <1>3, <2>3
  <2>9. n - d > 0 => n > d
    BY <1>1, <1>3
  <2>10. ASSUME s.stat = "none"
         PROVE  (\A j \in 1 .. Len(k) : k[j].xid # x) /\ (Len(k) > 0 => k[1].xid < x)
    <3>1. (\A j \in d + 1 .. n : l[j].xid # x) /\ (n > d => l[d + 1].xid < x)
      BY <2>2, <2>10 DEF ScanInv
    <3> QED BY <2>3, <2>4, <2>6, <2>8, <2>9, <3>1
  <2>11. ASSUME s.stat = "DONE" PROVE \E j \in 1 .. Len(k) : k[j].xid = x /\ k[j].cb_present
    <3>1. PICK j \in d + 1 .. n : l[j].xid = x /\ l[j].cb_present
      BY <2>2, <2>11 DEF ScanInv
    <3> QED BY <2>4, <2>7, <3>1
  <2>12. ASSUME s.stat = "INPROGRESS" PROVE \E j \in 1 .. Len(k) : k[j].xid = x /\ ~k[j].cb_present
    <3>1. PICK j \in d + 1 .. n : l[j].xid = x /\ ~l[j].cb_present
      BY <2>2, <2>12 DEF ScanInv
    <3> QED BY <2>4, <2>7, <3>1
  <2>13. ASSUME s.stat = "FORGOTTEN" PROVE Len(k) > 0 /\ k[1].xid > x
    <3>1. n > d /\ l[d + 1].xid > x
      BY <2>2, <2>13 DEF ScanInv
    <3> QED BY <2>4, <2>8, <3>1
  <2> QED BY <2>3, <2>5, <2>10, <2>11, <2>12, <2>13 DEF s, k
<1> QED BY <1>5, <1>6

\* checkduplicate_and_update decides and keeps what the function says.
LEMMA ListDecides ==
  ASSUME NEW l, ReplyList(l), NEW x \in Xids, NEW r \in Nat,
         NEW s, s = Scan(l, x, r), NEW v, v = Trim(AsWindow(l), r),
         NEW res, res = IF s.stat = "none" THEN "NEW" ELSE s.stat,
         NEW new, new = IF s.stat = "none" THEN InsertNew(s.kept, x) ELSE s.kept
  PROVE  /\ Classify(v, x) = res
         /\ ReplyList(new)
         /\ AsWindow(new) = IF res = "NEW" THEN [v EXCEPT ![x] = "inprogress"] ELSE v
<1> DEFINE k == s.kept
           n == Len(k)
<1>1. /\ ReplyList(k) /\ AsWindow(k) = v
      /\ s.stat \in {"none", "DONE", "INPROGRESS", "FORGOTTEN"}
      /\ s.stat = "none" => (\A j \in 1 .. n : k[j].xid # x) /\ (n > 0 => k[1].xid < x)
      /\ s.stat = "DONE" => \E j \in 1 .. n : k[j].xid = x /\ k[j].cb_present
      /\ s.stat = "INPROGRESS" => \E j \in 1 .. n : k[j].xid = x /\ ~k[j].cb_present
      /\ s.stat = "FORGOTTEN" => n > 0 /\ k[1].xid > x
  BY ScanIs
<1> HIDE DEF k, n
<1>2. /\ n \in Nat /\ x \in Nat
      /\ \A j \in 1 .. n : k[j].xid \in Xids /\ k[j].xid \in Nat
  BY <1>1, ReplyIs DEF ReplyList, Xids, n
<1>3. /\ \A i \in 1 .. n : v[k[i].xid] = IF k[i].cb_present THEN "present" ELSE "inprogress"
      /\ \A y \in Xids : (\A i \in 1 .. n : k[i].xid # y) => v[y] = "absent"
      /\ \A y \in Xids : v[y] # "absent" => \E i \in 1 .. n : k[i].xid = y
  BY <1>1, AsWindowIs DEF n
<1>4. \A i \in 1 .. n : 1 \in 1 .. n /\ n > 0 /\ (i = 1 \/ k[1].xid < k[i].xid)
  <2> TAKE i \in 1 .. n
  <2>1. 1 \in 1 .. n /\ n > 0 /\ (i = 1 \/ 1 < i)
    BY <1>2
  <2> QED BY <1>1, <2>1 DEF ReplyList, StrictlyAscending, n
<1>5. CASE s.stat = "none"
  <2>1. v[x] = "absent"
    BY <1>1, <1>3, <1>5
  <2>2. ~IsForgotten(v, x)
    <3> SUFFICES ASSUME IsForgotten(v, x) PROVE FALSE
      OBVIOUS
    <3>1. PICK y \in Xids : v[y] # "absent"
      BY DEF IsForgotten
    <3>2. PICK i \in 1 .. n : k[i].xid = y
      BY <1>3, <3>1
    <3>3. 1 \in 1 .. n /\ k[1].xid < x /\ k[1].xid \in Xids /\ k[1].xid \in Nat
      BY <1>1, <1>2, <1>4, <1>5, <3>2
    <3>4. v[k[1].xid] # "absent"
      BY <1>3, <3>3
    <3>5. k[1].xid > x
      BY <3>3, <3>4 DEF IsForgotten
    <3> QED BY <1>2, <3>3, <3>5
  <2>3. Classify(v, x) = "NEW"
    BY <2>1, <2>2 DEF Classify
  <2>4. new = InsertNew(k, x) /\ res = "NEW"
    BY <1>5 DEF k
  <2>5. ReplyList(InsertNew(k, x)) /\ AsWindow(InsertNew(k, x)) = [AsWindow(k) EXCEPT ![x] = "inprogress"]
    BY <1>1, <1>5, InsertNewAdds DEF n
  <2> QED BY <1>1, <2>3, <2>4, <2>5
<1>6. CASE s.stat # "none"
  <2>1. new = k /\ res = s.stat
    BY <1>6 DEF k
  <2>2. res # "NEW"
    BY <1>1, <1>6, <2>1
  <2>3. Classify(v, x) = s.stat
    <3>1. CASE s.stat = "DONE"
      <4>1. v[x] = "present"
        BY <1>1, <1>3, <3>1
      <4> QED BY <3>1, <4>1 DEF Classify
    <3>2. CASE s.stat = "INPROGRESS"
      <4>1. v[x] = "inprogress"
        BY <1>1, <1>3, <3>2
      <4> QED BY <3>2, <4>1 DEF Classify
    <3>3. CASE s.stat = "FORGOTTEN"
      <4>1. 1 \in 1 .. n /\ k[1].xid > x
        BY <1>1, <1>2, <3>3
      <4>2. \A i \in 1 .. n : k[i].xid > x
        <5> TAKE i \in 1 .. n
        <5>1. k[i].xid \in Nat /\ k[1].xid \in Nat /\ (i = 1 \/ k[1].xid < k[i].xid)
          BY <1>2, <1>4, <4>1
        <5> QED BY <1>2, <4>1, <5>1
      <4>3. v[x] = "absent"
        <5>1. \A i \in 1 .. n : k[i].xid # x
          BY <1>2, <4>2
        <5> QED BY <1>3, <5>1
      <4>4. k[1].xid \in Xids /\ v[k[1].xid] # "absent"
        BY <1>2, <1>3, <4>1
      <4>5. \A y \in Xids : v[y] # "absent" => y > x
        BY <1>3, <4>2
      <4>6. IsForgotten(v, x)
        BY <4>4, <4>5 DEF IsForgotten
      <4> QED BY <3>3, <4>3, <4>6 DEF Classify
    <3> QED BY <1>1, <1>6, <3>1, <3>2, <3>3
  <2> QED BY <1>1, <2>1, <2>2, <2>3
<1> QED BY <1>5, <1>6

\* Marking the element of an xid as answered.
LEMMA PresentAdds ==
  ASSUME NEW l, ReplyList(l), NEW new \in Seq(Reply_t), Len(new) = Len(l),
         NEW i \in 1 .. Len(l), new[i].xid = l[i].xid, new[i].cb_present,
         \A j \in 1 .. Len(l) : j # i => new[j] = l[j]
  PROVE  ReplyList(new) /\ AsWindow(new) = Answered(AsWindow(l), l[i].xid)
<1> DEFINE n == Len(l)
           x == l[i].xid
           v == AsWindow(l)
           u == AsWindow(new)
<1>1. n \in Nat /\ x \in Xids
  BY ReplyIs DEF ReplyList
<1>2. v = [y \in Xids |-> v[y]] /\ u = [y \in Xids |-> u[y]]
  BY DEF AsWindow
<1>3. \A j \in 1 .. n : new[j].xid = l[j].xid
  OBVIOUS
<1>4. ReplyList(new)
  <2>1. \A j, k \in 1 .. n : j < k => new[j].xid < new[k].xid
    BY <1>3 DEF ReplyList, StrictlyAscending
  <2> QED BY <2>1 DEF ReplyList, StrictlyAscending
<1>5. /\ \A j \in 1 .. n : v[l[j].xid] = IF l[j].cb_present THEN "present" ELSE "inprogress"
      /\ \A y \in Xids : (\A j \in 1 .. n : l[j].xid # y) => v[y] = "absent"
  BY AsWindowIs
<1>6. /\ \A j \in 1 .. n : u[new[j].xid] = IF new[j].cb_present THEN "present" ELSE "inprogress"
      /\ \A y \in Xids : (\A j \in 1 .. n : new[j].xid # y) => u[y] = "absent"
  BY <1>4, AsWindowIs
<1> HIDE DEF u, v, n, x
<1>7. u[x] = "present"
  <2>1. u[new[i].xid] = "present"
    BY <1>6 DEF n
  <2> QED BY <2>1 DEF x
<1>8. v[x] # "absent"
  BY <1>5 DEF n, x
<1>9. ASSUME NEW y \in Xids, y # x PROVE u[y] = v[y]
  <2>1. CASE \E j \in 1 .. n : l[j].xid = y
    <3>1. PICK j \in 1 .. n : l[j].xid = y
      BY <2>1
    <3>2. new[j] = l[j]
      BY <1>9, <3>1 DEF n, x
    <3> QED BY <1>5, <1>6, <3>1, <3>2
  <2>2. CASE \A j \in 1 .. n : l[j].xid # y
    BY <1>3, <1>5, <1>6, <2>2
  <2> QED BY <2>1, <2>2
<1>10. u = Answered(v, x)
  BY <1>1, <1>2, <1>7, <1>8, <1>9 DEF Answered
<1> QED BY <1>4, <1>10 DEF u, v, x

\* add_reply finds the element of the xid, if it is still in the list.
LEMMA MarkAnswers ==
  ASSUME NEW l, ReplyList(l), NEW i \in 1 .. Len(l),
         NEW new, new = [l EXCEPT ![i].cb_present = TRUE]
  PROVE  ReplyList(new) /\ AsWindow(new) = Answered(AsWindow(l), l[i].xid)
<1>1. PICK e : e = [l[i] EXCEPT !.cb_present = TRUE]
  OBVIOUS
<1>2. new = [l EXCEPT ![i] = e]
  BY <1>1
<1>3. PICK a : a = l[i]
  OBVIOUS
<1>4. a \in Reply_t
  BY <1>3, ReplyIs DEF ReplyList
<1>5. e \in Reply_t /\ e.xid = a.xid /\ e.cb_present
  BY <1>1, <1>3, <1>4 DEF Reply_t
<1>9. l \in Seq(Reply_t)
  BY DEF ReplyList
<1>6. /\ [l EXCEPT ![i] = e] \in Seq(Reply_t) /\ Len([l EXCEPT ![i] = e]) = Len(l)
      /\ \A j \in 1 .. Len(l) : [l EXCEPT ![i] = e][j] = IF j = i THEN e ELSE l[j]
  BY <1>5, <1>9, ExceptSeq
<1>7. new \in Seq(Reply_t) /\ Len(new) = Len(l) /\ \A j \in 1 .. Len(l) : new[j] = IF j = i THEN e ELSE l[j]
  BY <1>2, <1>6, Zenon
<1>8. new[i] = e /\ \A j \in 1 .. Len(l) : j # i => new[j] = l[j]
  BY <1>7, Zenon
<1>10. new[i].xid = l[i].xid /\ new[i].cb_present
  BY <1>3, <1>5, <1>8, Zenon
<1> QED BY <1>7, <1>8, <1>10, PresentAdds

\* Without an element of the xid there is nothing to answer.
LEMMA AbsentAnswers ==
  ASSUME NEW l, ReplyList(l), NEW x \in Xids, \A j \in 1 .. Len(l) : l[j].xid # x
  PROVE  Answered(AsWindow(l), x) = AsWindow(l)
<1> DEFINE v == AsWindow(l)
<1>1. v[x] = "absent"
  BY AsWindowIs
<1>2. v = [y \in Xids |-> v[y]]
  BY DEF AsWindow
<1> HIDE DEF v
<1>3. Answered(v, x) = v
  BY <1>1, <1>2 DEF Answered
<1> QED BY <1>3 DEF v

\* The inductive invariant of the server's list.
ServerInv ==
    /\ ClientInv
    /\ ReplyList(list)
    /\ w = AsWindow(list)
    /\ result = verdict

\* The empty list is the empty window.
LEMMA InitServerInv == Init => ServerInv
<1> SUFFICES ASSUME Init PROVE ServerInv
  OBVIOUS
<1>1. ClientInv
  BY InitClientInv
<1>2. ReplyList(<<>>)
  <2> DEFINE l == <<>>
  <2>1. l \in Seq(Reply_t) /\ Len(l) = 0
    OBVIOUS
  <2> HIDE DEF l
  <2>2. ReplyList(l)
    BY <2>1 DEF ReplyList, StrictlyAscending
  <2> QED BY <2>2 DEF l
<1>3. AsWindow(<<>>) = EmptyWindow
  BY DEF AsWindow, EmptyWindow
<1> QED BY <1>1, <1>2, <1>3 DEF ServerInv, Init

\* Every step keeps the list and the function in agreement.
LEMMA NextServerInv == ServerInv /\ [Next]_vars => ServerInv'
<1> SUFFICES ASSUME ServerInv, [Next]_vars PROVE ServerInv'
  OBVIOUS
<1>1. ClientInv'
  BY NextClientInv DEF ServerInv
<1>2. DOMAIN rep \subseteq Xids /\ \A x \in DOMAIN rep : rep[x] \in Nat
  BY XidAssumption DEF ServerInv, ClientInv, Xids
<1>3. ReplyList(list) /\ w = AsWindow(list) /\ result = verdict
  BY DEF ServerInv
<1>4. ASSUME UNCHANGED serverVars PROVE ServerInv'
  BY <1>1, <1>3, <1>4 DEF serverVars, ServerInv
<1>5. CASE Request
  BY <1>4, <1>5 DEF Request
<1>6. ASSUME NEW x \in DOMAIN rep, update_xid_rep(x) PROVE ServerInv'
  BY <1>4, <1>6 DEF update_xid_rep
<1>7. ASSUME NEW x \in DOMAIN rep, checkduplicate_and_update(x, rep[x]) PROVE ServerInv'
  <2>1. PICK l, s, v, res, new :
          /\ l = list /\ s = Scan(l, x, rep[x]) /\ v = Trim(AsWindow(l), rep[x])
          /\ res = IF s.stat = "none" THEN "NEW" ELSE s.stat
          /\ new = IF s.stat = "none" THEN InsertNew(s.kept, x) ELSE s.kept
    OBVIOUS
  <2>2. x \in Xids /\ rep[x] \in Nat /\ ReplyList(l)
    BY <1>2, <1>3, <2>1
  <2>3. /\ Classify(v, x) = res /\ ReplyList(new)
        /\ AsWindow(new) = IF res = "NEW" THEN [v EXCEPT ![x] = "inprogress"] ELSE v
    BY <2>1, <2>2, ListDecides
  <2>4. v = Trim(w, rep[x])
    BY <1>3, <2>1
  <2>5. result' = res /\ list' = new
    BY <1>7, <2>1 DEF checkduplicate_and_update
  <2>6. verdict' = Classify(v, x) /\ w' = IF verdict' = "NEW" THEN [v EXCEPT ![x] = "inprogress"] ELSE v
    BY <1>7, <2>4 DEF checkduplicate_and_update
  <2>7. w' = AsWindow(list') /\ result' = verdict' /\ ReplyList(list')
    BY <2>3, <2>5, <2>6
  <2> QED BY <1>1, <2>7 DEF ServerInv
<1>8. ASSUME NEW x \in DOMAIN rep, add_reply(x) PROVE ServerInv'
  <2> DEFINE I == {j \in 1 .. Len(list) : list[j].xid = x}
             i == IF I # {} THEN Min(I) ELSE 0
  <2>1. x \in Xids
    BY <1>2
  <2>2. /\ list' = IF i = 0 THEN list ELSE [list EXCEPT ![i].cb_present = TRUE]
        /\ w' = Answered(w, x) /\ result' = result /\ verdict' = verdict
    BY <1>8 DEF add_reply, SelectInSeq
  <2>3. CASE I = {}
    <3>1. list' = list
      BY <2>2, <2>3
    <3>2. Answered(AsWindow(list), x) = AsWindow(list)
      BY <1>3, <2>1, <2>3, AbsentAnswers
    <3> QED BY <1>1, <1>3, <2>2, <3>1, <3>2 DEF ServerInv
  <2>4. CASE I # {}
    <3>1. i \in I
      <4>1. I \in SUBSET Nat
        OBVIOUS
      <4> QED BY <2>4, <4>1, MinIs
    <3> HIDE DEF i
    <3>2. i \in 1 .. Len(list) /\ list[i].xid = x /\ i # 0
      BY <3>1
    <3>3. list' = [list EXCEPT ![i].cb_present = TRUE]
      BY <2>2, <3>2
    <3>4. ReplyList(list') /\ AsWindow(list') = Answered(AsWindow(list), list[i].xid)
      BY <1>3, <3>2, <3>3, MarkAnswers
    <3> QED BY <1>1, <1>3, <2>2, <3>2, <3>4 DEF ServerInv
  <2> QED BY <2>3, <2>4
<1>9. CASE UNCHANGED vars
  BY <1>4, <1>9 DEF vars
<1> QED BY <1>5, <1>6, <1>7, <1>8, <1>9 DEF Next

\* For every number of xids: the loops over the reply list decide every request and
\* remember every reply as the function-valued window of Rpc does.
THEOREM ListImplementsWindowHolds == DataSpec => []ListImplementsWindow
<1>1. DataInit => ServerInv
  BY InitServerInv DEF DataInit
<1>2. ServerInv /\ [DataNext]_<<vars, sample>> => ServerInv'
  BY NextServerInv DEF DataNext
<1>3. ServerInv => ListImplementsWindow
  BY DEF ServerInv, ListImplementsWindow
<1> QED BY <1>1, <1>2, <1>3, PTL DEF DataSpec

-----------------------------------------------------------------------------
(* Marshalling: induction over the turns of its loops *)

HIDE UnitsAssumption

\* Induction over the turns of a loop: T is the set of the turns where the claim holds.
LEMMA UpTo ==
  ASSUME NEW n \in Nat, NEW T, 0 \in T, \A i \in 1 .. n : i - 1 \in T => i \in T
  PROVE  \A i \in 0 .. n : i \in T
<1> DEFINE Bad == (0 .. n) \ T
<1> SUFFICES ASSUME Bad # {} PROVE FALSE
  OBVIOUS
<1>1. PICK m \in Bad : m \in 0 .. n /\ \A i \in 0 .. m - 1 : i \notin Bad
  <2>1. Bad \in SUBSET (0 .. n) /\ 0 \in Nat
    OBVIOUS
  <2> HIDE DEF Bad
  <2> QED BY <2>1, FirstBad
<1>2. m # 0 /\ m \in 1 .. n /\ m - 1 \in 0 .. m - 1 /\ m - 1 \in 0 .. n
  BY <1>1
<1> QED BY <1>1, <1>2

-----------------------------------------------------------------------------
(* Bytes and integers *)

\* A byte has an even number of values.
LEMMA BaseIs ==
  Base \in Nat \ {0, 1} /\ \E h \in Nat : Base = 2 * h
<1>1. PICK h \in 1 .. 128 : Base = 2 * h
  BY SizesAssumption
<1> QED BY <1>1

\* The powers of a byte's values.
LEMMA PowIs ==
  /\ \A n \in 0 .. 8 : Pow[n] \in Nat \ {0}
  /\ Pow[0] = 1
  /\ \A n \in 1 .. 8 : Pow[n] = Base * Pow[n - 1]
<1> USE SizesAssumption
<1>0. Base \in Nat \ {0}
  OBVIOUS
<1> DEFINE Is(g, k) == g = [i \in 0 .. k |-> IF i = 0 THEN 1 ELSE Base * g[i - 1]]
           T == {k \in 0 .. 8 : \E g : Is(g, k)}
<1>1. 0 \in T
  <2>1. Is([i \in 0 .. 0 |-> 1], 0)
    OBVIOUS
  <2> HIDE DEF Is
  <2> QED BY <2>1
<1>2. ASSUME NEW k \in 1 .. 8, k - 1 \in T PROVE k \in T
  <2>1. PICK g : Is(g, k - 1)
    BY <1>2
  <2> DEFINE h == [i \in 0 .. k |-> IF i = 0 THEN 1 ELSE Base * g[i - 1]]
  <2>2. \A i \in 0 .. k - 1 : h[i] = g[i]
    BY <2>1
  <2>3. Is(h, k)
    <3>1. \A i \in 0 .. k : i # 0 => h[i - 1] = g[i - 1]
      <4> HIDE DEF h
      <4> QED BY <2>2
    <3> QED BY <3>1
  <2> HIDE DEF Is, h
  <2> QED BY <2>3
<1>3. \E g : Is(g, 8)
  <2>1. \A i \in 0 .. 8 : i \in T
    <3> HIDE DEF T
    <3> QED BY <1>1, <1>2, UpTo
  <2> QED BY <2>1
<1>4. Pow = [i \in 0 .. 8 |-> IF i = 0 THEN 1 ELSE Base * Pow[i - 1]]
  <2>1. Pow = CHOOSE g : Is(g, 8)
    BY DEF Pow
  <2> HIDE DEF Is
  <2>2. Is(Pow, 8)
    BY <1>3, <2>1
  <2> QED BY <2>2 DEF Is
<1>5. Pow[0] = 1 /\ \A n \in 1 .. 8 : Pow[n] = Base * Pow[n - 1]
  BY <1>4
<1> DEFINE P == {n \in 0 .. 8 : Pow[n] \in Nat \ {0}}
<1>6. 0 \in P
  BY <1>5
<1>7. ASSUME NEW n \in 1 .. 8, n - 1 \in P PROVE n \in P
  <2>1. Pow[n - 1] \in Nat \ {0} /\ Pow[n] = Base * Pow[n - 1]
    BY <1>5, <1>7
  <2>2. \A p \in Nat \ {0} : Base * p \in Nat \ {0}
    BY <1>0
  <2> QED BY <2>1, <2>2
<1>8. \A n \in 0 .. 8 : n \in P
  <2> HIDE DEF P
  <2> QED BY <1>6, <1>7, UpTo
<1> QED BY <1>5, <1>8

\* A quotient and a remainder in range are the quotient and the remainder.
LEMMA Quotient ==
  ASSUME NEW x \in Int, NEW m \in Nat \ {0}, NEW q \in Int, NEW r \in 0 .. m - 1, x = m * q + r
  PROVE  x \div m = q /\ x % m = r
<1>1. x \div m \in Int /\ x % m \in 0 .. m - 1 /\ x = m * (x \div m) + (x % m)
  OBVIOUS
<1> DEFINE a == x \div m
           b == x % m
<1>2. a \in Int /\ b \in 0 .. m - 1 /\ m * a + b = m * q + r
  BY <1>1
<1> HIDE DEF a, b
<1>3. a < q => m * (a + 1) <= m * q
  BY <1>2
<1>4. q < a => m * (q + 1) <= m * a
  BY <1>2
<1>5. a = q
  BY <1>2, <1>3, <1>4
<1> QED BY <1>2, <1>5 DEF a, b

\* Shifting twice: division by a product.
LEMMA DivTwice ==
  ASSUME NEW x \in Int, NEW a \in Nat \ {0}, NEW b \in Nat \ {0}
  PROVE  x \div (b * a) = (x \div a) \div b
<1> DEFINE q == x \div a
           r == x % a
           p == q \div b
           s == q % b
<1>1. q \in Int /\ r \in 0 .. a - 1 /\ x = a * q + r
  OBVIOUS
<1>2. p \in Int /\ s \in 0 .. b - 1 /\ q = b * p + s
  BY <1>1
<1> HIDE DEF q, r
<1> HIDE DEF p, s
<1>3. x = (b * a) * p + (a * s + r)
  <2>1. a * (b * p + s) = a * (b * p) + a * s
    BY <1>2
  <2>2. a * (b * p) = (b * a) * p
    BY <1>2
  <2>3. a * s \in Int /\ (b * a) * p \in Int
    BY <1>2
  <2> QED BY <1>1, <1>2, <2>1, <2>2, <2>3
<1>4. a * s + r \in 0 .. b * a - 1
  <2>1. a * s <= a * (b - 1) /\ a * s >= 0 /\ a * s \in Int
    BY <1>2
  <2>2. a * (b - 1) = b * a - a /\ b * a \in Int
    OBVIOUS
  <2> QED BY <1>1, <2>1, <2>2
<1>5. b * a \in Nat \ {0}
  OBVIOUS
<1> DEFINE m == b * a
           t == a * s + r
<1>6. m \in Nat \ {0} /\ t \in 0 .. m - 1 /\ x = m * p + t /\ p \in Int
  BY <1>2, <1>3, <1>4, <1>5
<1> HIDE DEF m, t
<1>7. x \div m = p
  BY <1>6, Quotient
<1> QED BY <1>7 DEF m, p, q

\* One more byte of an integer.
LEMMA DigitStep ==
  ASSUME NEW x \in Int, NEW k \in 0 .. 7
  PROVE  /\ x \div Pow[k] \in Int
         /\ (x \div Pow[k]) % Base \in 0 .. Base - 1
         /\ x \div Pow[k] = (x \div Pow[k + 1]) * Base + ((x \div Pow[k]) % Base)
<1>1. Base \in Nat \ {0} /\ Pow[k] \in Nat \ {0} /\ Pow[k + 1] = Base * Pow[k]
  <2>1. k + 1 \in 1 .. 8 /\ (k + 1) - 1 = k
    OBVIOUS
  <2> QED BY <2>1, PowIs, SizesAssumption
<1>2. x \div Pow[k + 1] = (x \div Pow[k]) \div Base
  BY <1>1, DivTwice
<1> DEFINE q == x \div Pow[k]
<1>3. q \in Int
  BY <1>1
<1> HIDE DEF q
<1>4. q = Base * (q \div Base) + (q % Base) /\ q % Base \in 0 .. Base - 1 /\ q \div Base \in Int
  BY <1>1, <1>3
<1>5. Base * (q \div Base) = (q \div Base) * Base
  BY <1>1, <1>4
<1> QED BY <1>2, <1>3, <1>4, <1>5 DEF q

\* What is left above the bytes of an integer: its sign.
LEMMA Top ==
  ASSUME NEW x \in Int, NEW p \in Nat \ {0}, -p <= x, x < p
  PROVE  x \div p = IF x < 0 THEN -1 ELSE 0
<1>1. CASE x < 0
  <2>1. x = p * (-1) + (x + p) /\ x + p \in 0 .. p - 1
    BY <1>1
  <2> QED BY <1>1, <2>1, Quotient
<1>2. CASE x >= 0
  <2>1. x = p * 0 + x /\ x \in 0 .. p - 1
    BY <1>2
  <2> QED BY <1>2, <2>1, Quotient
<1> QED BY <1>1, <1>2

\* A byte that is read as a signed char and masked is the byte.
LEMMA SignedByte ==
  ASSUME NEW y \in 0 .. Base - 1
  PROVE  Signed(y, 1) \in Int /\ (Signed(y, 1) % Word) % Base = y
<1>1. Base \in Nat \ {0} /\ Pow[1] = Base /\ Pow[3] \in Nat \ {0} /\ Word = Base * Pow[3]
      /\ Word \in Nat \ {0}
  <2>1. 1 \in 1 .. 8 /\ 4 \in 1 .. 8 /\ 1 - 1 = 0 /\ 4 - 1 = 3 /\ 3 \in 0 .. 8 /\ 4 \in 0 .. 8
    OBVIOUS
  <2>2. Pow[1] = Base * 1 /\ Pow[4] = Base * Pow[3] /\ Pow[3] \in Nat \ {0} /\ Pow[4] \in Nat \ {0}
    BY <2>1, PowIs
  <2>3. Base \in Nat \ {0}
    BY SizesAssumption
  <2> QED BY <2>2, <2>3 DEF Word
<1>2. Base <= Word
  BY <1>1
<1>3. CASE 2 * y >= Base
  <2>1. Signed(y, 1) = y - Base
    BY <1>1, <1>3 DEF Signed
  <2>2. y - Base = Word * (-1) + (y - Base + Word) /\ y - Base + Word \in 0 .. Word - 1
    BY <1>1, <1>2
  <2>3. (y - Base) % Word = y - Base + Word
    <3> DEFINE z == y - Base
               r == y - Base + Word
    <3>1. z \in Int /\ z = Word * (-1) + r /\ r \in 0 .. Word - 1 /\ -1 \in Int
      BY <1>1, <2>2
    <3> HIDE DEF z, r
    <3>2. z % Word = r
      BY <1>1, <3>1, Quotient
    <3> QED BY <3>2 DEF z, r
  <2>4. y - Base + Word = Base * (Pow[3] - 1) + y
    <3> DEFINE p == Pow[3]
    <3>1. p \in Int /\ Word = Base * p /\ Base \in Int /\ y \in Int
      BY <1>1
    <3> HIDE DEF p
    <3>2. Base * (p - 1) = Base * p - Base /\ Base * p \in Int
      BY <3>1
    <3>3. y - Base + Word = Base * (p - 1) + y
      BY <3>1, <3>2
    <3> QED BY <3>3 DEF p
  <2>5. (y - Base + Word) % Base = y
    <3> DEFINE z == y - Base + Word
    <3>1. z \in Int /\ z = Base * (Pow[3] - 1) + y /\ Pow[3] - 1 \in Int
      BY <1>1, <2>4
    <3> HIDE DEF z
    <3>2. z % Base = y
      BY <1>1, <3>1, Quotient
    <3> QED BY <3>2 DEF z
  <2> QED BY <1>1, <2>1, <2>3, <2>5
<1>4. CASE 2 * y < Base
  <2>1. Signed(y, 1) = y
    BY <1>1, <1>4 DEF Signed
  <2>2. y = Word * 0 + y /\ y \in 0 .. Word - 1 /\ y = Base * 0 + y
    BY <1>1, <1>2
  <2> QED BY <1>1, <2>1, <2>2, Quotient
<1> QED BY <1>1, <1>3, <1>4

-----------------------------------------------------------------------------
(* class marshall *)

\* A marshall object whose write head is in its buffer and its buffer in its memory.
Obj(m) == /\ m = [buf |-> m.buf, capa |-> m.capa, ind |-> m.ind]
          /\ m.buf \in Seq(Int) /\ m.capa \in Nat \ {0}
          /\ m.ind \in 0 .. Len(m.buf) /\ m.ind <= m.capa

\* m1 is m after n bytes were written, and only they.
Wrote(m, m1, n) ==
  /\ Obj(m1) /\ n \in Nat /\ m1.ind = m.ind + n
  /\ Len(m1.buf) = IF m.ind + n > Len(m.buf) THEN m.ind + n ELSE Len(m.buf)
  /\ \A i \in 1 .. Len(m.buf) : (i <= m.ind \/ i > m.ind + n) => m1.buf[i] = m.buf[i]

\* The n bytes of b after the i-th are those of x.
IntAt(b, i, x, n) == \A j \in 1 .. n : b[i + j] = (x \div Pow[n - j]) % Base

\* m1 has the bytes before the write head of m.
Keeps(m, m1) == \A i \in 1 .. m.ind : m1.buf[i] = m.buf[i]

\* Max of two numbers, as Write uses it for the length of the memory.
LEMMA MaxTwo ==
  ASSUME NEW a \in Int, NEW b \in Int
  PROVE  Max({a, b}) = IF a > b THEN a ELSE b
<1> DEFINE c == IF a > b THEN a ELSE b
<1>1. c \in {a, b} /\ \A y \in {a, b} : c >= y
  OBVIOUS
<1>2. \A z \in {a, b} : (\A y \in {a, b} : z >= y) => z = c
  OBVIOUS
<1> HIDE DEF c
<1>3. Max({a, b}) = c
  BY <1>1, <1>2 DEF Max
<1> QED BY <1>3 DEF c

\* Writing within the capacity.
LEMMA WriteIs ==
  ASSUME NEW m, Obj(m), NEW s \in Seq(Int), NEW capa \in Nat \ {0}, m.ind + Len(s) <= capa
  PROVE  /\ Wrote(m, Write(m, capa, s), Len(s))
         /\ \A j \in 1 .. Len(s) : Write(m, capa, s).buf[m.ind + j] = s[j]
<1> DEFINE end == m.ind + Len(s)
           n == IF end > Len(m.buf) THEN end ELSE Len(m.buf)
           b == [i \in 1 .. n |-> IF i <= m.ind \/ i > end THEN m.buf[i]
                                  ELSE IF i <= capa THEN s[i - m.ind] ELSE Garbage]
<1>1. /\ end \in Nat /\ n \in Nat /\ m.ind \in Nat /\ Len(m.buf) \in Nat /\ Len(s) \in Nat
      /\ end <= n /\ Len(m.buf) <= n /\ m.ind <= Len(m.buf)
      /\ \A i \in 1 .. n : i > end => i <= Len(m.buf)
  BY DEF Obj
<1>2. Write(m, capa, s) = [buf |-> b, capa |-> capa, ind |-> end]
  <2>1. Max({end, Len(m.buf)}) = n
    <3> HIDE DEF end
    <3> QED BY <1>1, MaxTwo
  <2> HIDE DEF n
  <2> QED BY <2>1 DEF Write
<1> HIDE DEF n
<1>3. \A i \in 1 .. n : b[i] = IF i <= m.ind \/ i > end THEN m.buf[i] ELSE s[i - m.ind]
  BY <1>1
<1>4. \A i \in 1 .. n : b[i] \in Int
  <2>1. \A i \in 1 .. Len(m.buf) : m.buf[i] \in Int
    BY DEF Obj
  <2>2. \A i \in 1 .. Len(s) : s[i] \in Int
    OBVIOUS
  <2> SUFFICES ASSUME NEW i \in 1 .. n PROVE b[i] \in Int
    OBVIOUS
  <2>3. CASE i <= m.ind \/ i > end
    <3>1. i \in 1 .. Len(m.buf)
      BY <1>1, <2>3
    <3> QED BY <1>3, <2>1, <2>3, <3>1
  <2>4. CASE ~(i <= m.ind \/ i > end)
    <3>1. i - m.ind \in 1 .. Len(s)
      BY <1>1, <2>4
    <3> HIDE DEF b, end
    <3> QED BY <1>3, <2>2, <2>4, <3>1
  <2> QED BY <2>3, <2>4
<1>5. b \in Seq(Int) /\ Len(b) = n
  <2>1. DOMAIN b = 1 .. n /\ b = [i \in 1 .. n |-> b[i]]
    OBVIOUS
  <2> HIDE DEF b
  <2>2. b \in [1 .. n -> Int]
    BY <1>4, <2>1
  <2> QED BY <1>1, <2>1, <2>2
<1> HIDE DEF b
<1> DEFINE w1 == Write(m, capa, s)
<1>6. w1.buf = b /\ w1.capa = capa /\ w1.ind = end /\ w1 = [buf |-> b, capa |-> capa, ind |-> end]
  BY <1>2
<1>7. Obj(w1)
  BY <1>1, <1>5, <1>6 DEF Obj
<1>8. \A i \in 1 .. Len(m.buf) : (i <= m.ind \/ i > m.ind + Len(s)) => b[i] = m.buf[i]
  BY <1>1, <1>3
<1>9. \A j \in 1 .. Len(s) : b[m.ind + j] = s[j]
  <2> SUFFICES ASSUME NEW j \in 1 .. Len(s) PROVE b[m.ind + j] = s[j]
    OBVIOUS
  <2>1. m.ind + j \in 1 .. n /\ ~(m.ind + j <= m.ind \/ m.ind + j > end) /\ (m.ind + j) - m.ind = j
    BY <1>1
  <2> QED BY <1>3, <2>1
<1>10. Wrote(m, w1, Len(s))
  BY <1>1, <1>5, <1>6, <1>7, <1>8 DEF Wrote, n
<1> QED BY <1>6, <1>9, <1>10

\* rawbyte writes its byte: the capacity is doubled when the write head is at it.
LEMMA rawbyteIs ==
  ASSUME NEW m, Obj(m), NEW x \in Int
  PROVE  Wrote(m, rawbyte(m, x), 1) /\ rawbyte(m, x).buf[m.ind + 1] = x
<1> DEFINE capa == IF m.ind >= m.capa THEN 2 * m.capa ELSE m.capa
           s == <<x>>
<1>1. capa \in Nat \ {0} /\ m.ind + 1 <= capa
  BY DEF Obj
<1>2. s \in Seq(Int) /\ Len(s) = 1 /\ s[1] = x
  OBVIOUS
<1>3. rawbyte(m, x) = Write(m, capa, s)
  BY DEF rawbyte
<1> HIDE DEF capa, s
<1>4. m.ind + Len(s) <= capa
  BY <1>1, <1>2
<1>5. /\ Wrote(m, Write(m, capa, s), Len(s))
      /\ \A j \in 1 .. Len(s) : Write(m, capa, s).buf[m.ind + j] = s[j]
  BY <1>1, <1>2, <1>4, WriteIs
<1>6. 1 \in 1 .. Len(s)
  BY <1>2
<1> QED BY <1>2, <1>3, <1>5, <1>6

\* Growing by 2 * _capa or by _capa + n is enough.
LEMMA rawbytesIs ==
  ASSUME NEW m, Obj(m), NEW s \in Seq(Int)
  PROVE  /\ Wrote(m, rawbytes(m, s), Len(s))
         /\ \A j \in 1 .. Len(s) : rawbytes(m, s).buf[m.ind + j] = s[j]
<1> DEFINE n == Len(s)
           capa == IF m.ind + n > m.capa THEN IF m.capa > n THEN 2 * m.capa ELSE m.capa + n
                                         ELSE m.capa
<1>1. n \in Nat
  OBVIOUS
<1>2. rawbytes(m, s) = Write(m, capa, s)
  BY DEF rawbytes
<1>3. capa \in Nat \ {0} /\ m.ind + n <= capa
  <2> HIDE DEF n
  <2> QED BY <1>1 DEF Obj
<1> HIDE DEF capa
<1> QED BY <1>2, <1>3, WriteIs

\* A place that two writes of a and b bytes at i leave alone, both of them do.
LEMMA Apart ==
  ASSUME NEW a \in Nat, NEW b \in Nat, NEW i \in Nat, NEW l \in Nat, i <= l, NEW j \in 1 .. l,
         j <= i \/ j > i + (a + b)
  PROVE  /\ j \in 1 .. (IF i + a > l THEN i + a ELSE l)
         /\ j <= i + a \/ j > (i + a) + b
         /\ j <= i \/ j > i + a
  OBVIOUS

\* Writing twice.
LEMMA WroteTwice ==
  ASSUME NEW m, Obj(m), NEW m1, NEW m2, NEW a, NEW b, Wrote(m, m1, a), Wrote(m1, m2, b)
  PROVE  Wrote(m, m2, a + b) /\ Keeps(m1, m2)
<1>1. /\ a \in Nat /\ b \in Nat /\ m.ind \in Nat /\ Len(m.buf) \in Nat /\ m.ind <= Len(m.buf)
      /\ m1.ind = m.ind + a /\ m2.ind = m1.ind + b /\ m1.ind <= Len(m1.buf)
      /\ Len(m1.buf) = IF m.ind + a > Len(m.buf) THEN m.ind + a ELSE Len(m.buf)
      /\ Len(m2.buf) = IF m1.ind + b > Len(m1.buf) THEN m1.ind + b ELSE Len(m1.buf)
  BY DEF Wrote, Obj
<1>2. \A i \in 1 .. m1.ind : m2.buf[i] = m1.buf[i]
  <2>1. \A i \in 1 .. m1.ind : i \in 1 .. Len(m1.buf) /\ i <= m1.ind
    BY <1>1
  <2> QED BY <2>1 DEF Wrote
<1>3. \A i \in 1 .. Len(m.buf) : (i <= m.ind \/ i > m.ind + (a + b)) => m2.buf[i] = m.buf[i]
  <2> SUFFICES ASSUME NEW i \in 1 .. Len(m.buf), i <= m.ind \/ i > m.ind + (a + b)
               PROVE  m2.buf[i] = m.buf[i]
    OBVIOUS
  <2>1. i \in 1 .. Len(m1.buf) /\ (i <= m1.ind \/ i > m1.ind + b) /\ (i <= m.ind \/ i > m.ind + a)
    <3>1. /\ i \in 1 .. (IF m.ind + a > Len(m.buf) THEN m.ind + a ELSE Len(m.buf))
          /\ i <= m.ind + a \/ i > (m.ind + a) + b
          /\ i <= m.ind \/ i > m.ind + a
      BY <1>1, Apart
    <3> QED BY <1>1, <3>1
  <2>2. m2.buf[i] = m1.buf[i] /\ m1.buf[i] = m.buf[i]
    BY <2>1 DEF Wrote
  <2> QED BY <2>2
<1>4. a + b \in Nat /\ m2.ind = m.ind + (a + b) /\ Obj(m2)
      /\ Len(m2.buf) = IF m.ind + (a + b) > Len(m.buf) THEN m.ind + (a + b) ELSE Len(m.buf)
  <2>1. Obj(m2)
    BY DEF Wrote
  <2> QED BY <1>1, <2>1
<1> QED BY <1>2, <1>3, <1>4 DEF Wrote, Keeps

\* Nothing was written yet.
LEMMA WroteNone ==
  ASSUME NEW m, Obj(m)
  PROVE  Wrote(m, m, 0)
  BY DEF Wrote, Obj

\* The bytes of an integer, the highest one first.
LEMMA PutIntIs ==
  ASSUME NEW m, Obj(m), NEW x \in Int, NEW n \in 1 .. 8
  PROVE  Wrote(m, PutInt(m, x, n), n) /\ IntAt(PutInt(m, x, n).buf, m.ind, x, n)
<1> DEFINE d(j) == (x \div Pow[n - j]) % Base
           Is(g, k) == g = [i \in 0 .. k |-> IF i = 0 THEN m ELSE rawbyte(g[i - 1], d(i))]
           T == {k \in 0 .. n : \E g : Is(g, k)}
<1>0. n \in Nat /\ m.ind \in Nat
  BY DEF Obj
<1>1. 0 \in T
  <2>1. Is([i \in 0 .. 0 |-> m], 0)
    OBVIOUS
  <2> HIDE DEF Is
  <2> QED BY <2>1
<1>2. ASSUME NEW k \in 1 .. n, k - 1 \in T PROVE k \in T
  <2>1. PICK g : Is(g, k - 1)
    BY <1>2
  <2> HIDE DEF d
  <2> DEFINE h == [i \in 0 .. k |-> IF i = 0 THEN m ELSE rawbyte(g[i - 1], d(i))]
  <2>2. \A i \in 0 .. k - 1 : h[i] = g[i]
    BY <2>1
  <2>3. Is(h, k)
    <3>1. \A i \in 0 .. k : i # 0 => h[i - 1] = g[i - 1]
      <4> HIDE DEF h
      <4> QED BY <2>2
    <3> QED BY <3>1
  <2> HIDE DEF Is, h
  <2> QED BY <2>3
<1>3. \E g : Is(g, n)
  <2>1. \A i \in 0 .. n : i \in T
    <3> HIDE DEF T
    <3> QED BY <1>0, <1>1, <1>2, UpTo
  <2> HIDE DEF Is
  <2> QED BY <1>0, <2>1
<1> DEFINE put == CHOOSE g : Is(g, n)
<1>4. PutInt(m, x, n) = put[n]
  BY DEF PutInt
<1>5. Is(put, n)
  <2> HIDE DEF Is
  <2> QED BY <1>3
<1> HIDE DEF d, put
<1>6. put[0] = m /\ \A i \in 1 .. n : put[i] = rawbyte(put[i - 1], d(i))
  BY <1>5
<1> HIDE DEF Is
<1>7. \A i \in 1 .. n : d(i) \in Int
  <2> SUFFICES ASSUME NEW i \in 1 .. n PROVE d(i) \in Int
    OBVIOUS
  <2> DEFINE k == n - i
  <2>1. k \in 0 .. 7
    OBVIOUS
  <2> HIDE DEF k
  <2>2. (x \div Pow[k]) % Base \in 0 .. Base - 1
    BY <2>1, DigitStep
  <2>3. (x \div Pow[k]) % Base \in Int
    BY <2>2, SizesAssumption
  <2> QED BY <2>3 DEF d, k
<1> DEFINE P == {i \in 0 .. n : /\ Wrote(m, put[i], i)
                                /\ \A j \in 1 .. i : put[i].buf[m.ind + j] = d(j)}
<1>8. 0 \in P
  BY <1>6, WroteNone
<1>9. ASSUME NEW i \in 1 .. n, i - 1 \in P PROVE i \in P
  <2> DEFINE m1 == put[i - 1]
             m2 == put[i]
  <2>1. Wrote(m, m1, i - 1) /\ (\A j \in 1 .. i - 1 : m1.buf[m.ind + j] = d(j)) /\ m2 = rawbyte(m1, d(i))
    BY <1>6, <1>9
  <2> HIDE DEF m1, m2
  <2>2. Obj(m1) /\ m1.ind = m.ind + (i - 1)
    BY <2>1 DEF Wrote
  <2>3. Wrote(m1, m2, 1) /\ m2.buf[m1.ind + 1] = d(i)
    BY <1>7, <2>1, <2>2, rawbyteIs
  <2>4. Wrote(m, m2, (i - 1) + 1) /\ Keeps(m1, m2)
    BY <2>1, <2>3, WroteTwice
  <2>5. (i - 1) + 1 = i /\ m1.ind + 1 = m.ind + i
    BY <1>0, <2>2
  <2>6. \A j \in 1 .. i : m2.buf[m.ind + j] = d(j)
    <3> SUFFICES ASSUME NEW j \in 1 .. i PROVE m2.buf[m.ind + j] = d(j)
      OBVIOUS
    <3>1. CASE j = i
      BY <2>3, <2>5, <3>1
    <3>2. CASE j # i
      <4>1. j \in 1 .. i - 1 /\ m.ind + j \in 1 .. m1.ind
        BY <1>0, <2>2, <3>2
      <4> QED BY <2>1, <2>4, <4>1 DEF Keeps
    <3> QED BY <3>1, <3>2
  <2>7. Wrote(m, m2, i)
    BY <2>4, <2>5
  <2> QED BY <2>6, <2>7 DEF m2
<1>10. n \in P
  <2>1. \A i \in 0 .. n : i \in P
    <3> HIDE DEF P
    <3> QED BY <1>0, <1>8, <1>9, UpTo
  <2> HIDE DEF P
  <2> QED BY <1>0, <2>1
<1> QED BY <1>4, <1>10 DEF d, IntAt

-----------------------------------------------------------------------------
(* class unmarshall *)

\* An unmarshall object, and the value of ok after a failure.
U(b, i, o) == [buf |-> b, ind |-> i, ok |-> o]
No == FALSE

\* The fields of an unmarshall object, and what setting one of them does.
LEMMA UIs ==
  ASSUME NEW b, NEW i, NEW o
  PROVE  /\ U(b, i, o).buf = b /\ U(b, i, o).ind = i /\ U(b, i, o).ok = o
         /\ \A j : [U(b, i, o) EXCEPT !.ind = j] = U(b, j, o)
         /\ \A p : [U(b, i, o) EXCEPT !.ok = p] = U(b, i, p)
<1>1. ASSUME NEW j PROVE [U(b, i, o) EXCEPT !.ind = j] = U(b, j, o)
  BY DEF U
<1>2. ASSUME NEW p PROVE [U(b, i, o) EXCEPT !.ok = p] = U(b, i, p)
  BY DEF U
<1> QED BY <1>1, <1>2 DEF U

\* rawbyte of class unmarshall: the next byte, or 0 and ok switched off at the end.
LEMMA GetByteIs ==
  ASSUME NEW b \in Seq(Int), NEW i \in Nat, NEW o
  PROVE  IF i < Len(b) THEN /\ GetByte(U(b, i, o)).u = U(b, i + 1, o)
                            /\ b[i + 1] \in 0 .. Base - 1 => GetByte(U(b, i, o)).v % Base = b[i + 1]
                       ELSE GetByte(U(b, i, o)) = [v |-> 0, u |-> U(b, i, No)]
<1> DEFINE u == U(b, i, o)
<1>1. u.buf = b /\ u.ind = i /\ u.ok = o
  BY UIs
<1>2. [u EXCEPT !.ok = FALSE] = U(b, i, No) /\ [u EXCEPT !.ind = u.ind + 1] = U(b, i + 1, o)
  <2>1. [u EXCEPT !.ok = No] = U(b, i, No) /\ [u EXCEPT !.ind = i + 1] = U(b, i + 1, o)
    BY UIs
  <2>2. [u EXCEPT !.ok = FALSE] = U(b, i, No)
    BY <2>1 DEF No
  <2> QED BY <1>1, <2>1, <2>2
<1> HIDE DEF u
<1>3. GetByte(u) = IF i >= Len(b) THEN [v |-> 0, u |-> U(b, i, No)]
                   ELSE [v |-> Signed(b[i + 1], 1) % Word, u |-> U(b, i + 1, o)]
  BY <1>1, <1>2 DEF GetByte
<1>4. CASE i < Len(b)
  <2>1. ~(i >= Len(b))
    BY <1>4
  <2>2. GetByte(u) = [v |-> Signed(b[i + 1], 1) % Word, u |-> U(b, i + 1, o)]
    BY <1>3, <2>1
  <2>3. b[i + 1] \in 0 .. Base - 1 => (Signed(b[i + 1], 1) % Word) % Base = b[i + 1]
    BY SignedByte
  <2> QED BY <1>4, <2>2, <2>3 DEF u
<1>5. CASE ~(i < Len(b))
  <2>1. i >= Len(b)
    BY <1>5
  <2>2. GetByte(u) = [v |-> 0, u |-> U(b, i, No)]
    BY <1>3, <2>1
  <2> QED BY <1>5, <2>2 DEF u
<1> QED BY <1>4, <1>5

\* Nothing can be read at the end.
LEMMA AtEnd ==
  ASSUME NEW b \in Seq(Int), NEW o
  PROVE  GetByte(U(b, Len(b), o)) = [v |-> 0, u |-> U(b, Len(b), No)]
<1>1. Len(b) \in Nat /\ ~(Len(b) < Len(b))
  OBVIOUS
<1> QED BY <1>1, GetByteIs

\* The turns of reading an integer.
LEMMA GetIntTurns ==
  ASSUME NEW u, NEW n \in 1 .. 8
  PROVE  \E f : /\ f[0] = [v |-> 0, u |-> u]
                /\ \A i \in 1 .. n : f[i] = GetDigit(f[i - 1])
                /\ GetInt(u, n) = f[n]
<1> DEFINE Is(g, k) == g = [i \in 0 .. k |-> IF i = 0 THEN [v |-> 0, u |-> u] ELSE GetDigit(g[i - 1])]
           T == {k \in 0 .. n : \E g : Is(g, k)}
<1>0. n \in Nat
  OBVIOUS
<1>1. 0 \in T
  <2>1. Is([i \in 0 .. 0 |-> [v |-> 0, u |-> u]], 0)
    OBVIOUS
  <2> HIDE DEF Is
  <2> QED BY <2>1
<1>2. ASSUME NEW k \in 1 .. n, k - 1 \in T PROVE k \in T
  <2>1. PICK g : Is(g, k - 1)
    BY <1>2
  <2> DEFINE h == [i \in 0 .. k |-> IF i = 0 THEN [v |-> 0, u |-> u] ELSE GetDigit(g[i - 1])]
  <2>2. \A i \in 0 .. k - 1 : h[i] = g[i]
    BY <2>1
  <2>3. Is(h, k)
    <3>1. \A i \in 0 .. k : i # 0 => h[i - 1] = g[i - 1]
      <4> HIDE DEF h
      <4> QED BY <2>2
    <3> QED BY <3>1
  <2> HIDE DEF Is, h
  <2> QED BY <2>3
<1>3. \E g : Is(g, n)
  <2>1. \A i \in 0 .. n : i \in T
    <3> HIDE DEF T
    <3> QED BY <1>0, <1>1, <1>2, UpTo
  <2> HIDE DEF Is
  <2> QED BY <1>0, <2>1
<1> DEFINE got == CHOOSE g : Is(g, n)
<1>4. GetInt(u, n) = got[n]
  BY DEF GetInt
<1>5. Is(got, n)
  <2> HIDE DEF Is
  <2> QED BY <1>3
<1> HIDE DEF got
<1>6. got[0] = [v |-> 0, u |-> u] /\ \A i \in 1 .. n : got[i] = GetDigit(got[i - 1])
  BY <1>5
<1> QED BY <1>4, <1>6

\* Reading an integer moves the read head to its end, or to the end of the buffer,
\* and then ok is false; at the end there is nothing but zeros.
LEMMA GetIntMoves ==
  ASSUME NEW b \in Seq(Int), NEW i \in 0 .. Len(b), NEW o, NEW n \in 1 .. 8
  PROVE  /\ GetInt(U(b, i, o), n).u = IF i + n <= Len(b) THEN U(b, i + n, o) ELSE U(b, Len(b), No)
         /\ i = Len(b) => GetInt(U(b, i, o), n) = [v |-> 0, u |-> U(b, Len(b), No)]
<1>1. PICK f : /\ f[0] = [v |-> 0, u |-> U(b, i, o)]
               /\ \A k \in 1 .. n : f[k] = GetDigit(f[k - 1])
               /\ GetInt(U(b, i, o), n) = f[n]
  BY GetIntTurns
<1>2. n \in Nat /\ n >= 1 /\ i \in Nat /\ Len(b) \in Nat /\ i <= Len(b)
  OBVIOUS
<1> DEFINE Head_(k) == IF i + k <= Len(b) THEN U(b, i + k, o) ELSE U(b, Len(b), No)
           P == {k \in 0 .. n : f[k].u = Head_(k)}
           Q == {k \in 0 .. n : f[k].v = 0 /\ f[k] = [v |-> f[k].v, u |-> f[k].u]}
<1>3. 0 \in P /\ 0 \in Q
  BY <1>1, <1>2
<1>4. \A a : GetDigit(a) = [v |-> a.v * Base + (GetByte(a.u).v % Base), u |-> GetByte(a.u).u]
  BY DEF GetDigit
<1>5. ASSUME NEW k \in 1 .. n, k - 1 \in P PROVE k \in P
  <2>1. f[k - 1].u = Head_(k - 1) /\ f[k].u = GetByte(f[k - 1].u).u
    <3>1. f[k - 1].u = Head_(k - 1)
      BY <1>5
    <3> HIDE DEF Head_, P
    <3>2. f[k] = [v |-> f[k - 1].v * Base + (GetByte(f[k - 1].u).v % Base), u |-> GetByte(f[k - 1].u).u]
      BY <1>1, <1>4
    <3> QED BY <3>1, <3>2
  <2>2. CASE i + k <= Len(b)
    <3>1. i + (k - 1) < Len(b) /\ i + (k - 1) <= Len(b) /\ i + (k - 1) \in Nat /\ (i + (k - 1)) + 1 = i + k
      BY <1>2, <2>2
    <3>2. GetByte(U(b, i + (k - 1), o)).u = U(b, i + k, o)
      BY <3>1, GetByteIs
    <3> QED BY <2>1, <2>2, <3>1, <3>2
  <2>3. CASE ~(i + k <= Len(b))
    <3>1. Head_(k - 1) \in {U(b, Len(b), o), U(b, Len(b), No)}
      <4>1. i + (k - 1) <= Len(b) => i + (k - 1) = Len(b)
        BY <1>2, <2>3
      <4> QED BY <4>1
    <3>3. GetByte(U(b, Len(b), o)).u = U(b, Len(b), No) /\ GetByte(U(b, Len(b), No)).u = U(b, Len(b), No)
      BY <1>2, AtEnd
    <3>4. Head_(k) = U(b, Len(b), No)
      BY <2>3
    <3> HIDE DEF Head_
    <3>5. f[k].u = Head_(k)
      BY <2>1, <3>1, <3>3, <3>4
    <3> QED BY <3>5
  <2> QED BY <2>2, <2>3
<1>6. ASSUME i = Len(b), NEW k \in 1 .. n, k - 1 \in P, k - 1 \in Q PROVE k \in Q
  <2>1. f[k - 1].u = Head_(k - 1) /\ f[k - 1].v = 0
    BY <1>6
  <2>2. Head_(k - 1) \in {U(b, Len(b), o), U(b, Len(b), No)}
    <3>1. i + (k - 1) <= Len(b) => i + (k - 1) = Len(b)
      BY <1>2, <1>6
    <3> QED BY <3>1
  <2>4. GetByte(U(b, Len(b), o)).v = 0 /\ GetByte(U(b, Len(b), No)).v = 0
    BY <1>2, AtEnd
  <2> HIDE DEF Head_
  <2>5. GetByte(f[k - 1].u).v = 0
    BY <2>1, <2>2, <2>4
  <2>6. 0 * Base + (0 % Base) = 0
    <3>1. Base \in Nat \ {0}
      BY BaseIs
    <3>2. 0 % Base = 0 /\ 0 * Base = 0
      BY <3>1
    <3> QED BY <3>2
  <2>7. f[k] = [v |-> f[k - 1].v * Base + (GetByte(f[k - 1].u).v % Base), u |-> GetByte(f[k - 1].u).u]
    BY <1>1, <1>4
  <2>8. f[k] = [v |-> 0, u |-> GetByte(f[k - 1].u).u]
    BY <2>1, <2>5, <2>6, <2>7
  <2> QED BY <2>8
<1>7. \A k \in 0 .. n : k \in P
  <2> HIDE DEF P
  <2> QED BY <1>2, <1>3, <1>5, UpTo
<1>8. ASSUME i = Len(b) PROVE \A k \in 0 .. n : k \in Q
  <2>1. \A k \in 1 .. n : k - 1 \in Q => k \in Q
    <3> SUFFICES ASSUME NEW k \in 1 .. n, k - 1 \in Q PROVE k \in Q
      OBVIOUS
    <3>1. k - 1 \in 0 .. n
      OBVIOUS
    <3> HIDE DEF P, Q
    <3>2. k - 1 \in P
      BY <1>7, <3>1
    <3> QED BY <1>6, <1>8, <3>2
  <2> HIDE DEF Q
  <2> QED BY <1>2, <1>3, <2>1, UpTo
<1>9. n \in 0 .. n
  BY <1>2
<1>10. f[n].u = Head_(n)
  BY <1>7, <1>9
<1>11. i = Len(b) => f[n].v = 0 /\ f[n] = [v |-> f[n].v, u |-> f[n].u] /\ Head_(n) = U(b, Len(b), No)
  <2>1. i = Len(b) => ~(i + n <= Len(b))
    BY <1>2
  <2> QED BY <1>8, <1>9, <2>1
<1> QED BY <1>1, <1>10, <1>11

\* The n bytes from i on are those of x; and its value as an unsigned integer.
IntThere(b, i, x, n) ==
  i \in Nat /\ i + n <= Len(b) /\ x \in Int /\ -Pow[n] <= x /\ x < Pow[n] /\ IntAt(b, i, x, n)

Unsigned(x, n) == IF x < 0 THEN x + Pow[n] ELSE x

\* Reading the bytes of an integer: its value, as an unsigned one.
LEMMA GetIntIs ==
  ASSUME NEW b \in Seq(Int), NEW i, NEW o, NEW n \in 1 .. 8, NEW x, IntThere(b, i, x, n)
  PROVE  GetInt(U(b, i, o), n) = [v |-> Unsigned(x, n), u |-> U(b, i + n, o)]
<1> SUFFICES ASSUME i \in Nat, i + n <= Len(b), x \in Int, -Pow[n] <= x, x < Pow[n], IntAt(b, i, x, n)
             PROVE  GetInt(U(b, i, o), n) = [v |-> IF x < 0 THEN x + Pow[n] ELSE x, u |-> U(b, i + n, o)]
  BY DEF IntThere, Unsigned
<1>1. PICK f : /\ f[0] = [v |-> 0, u |-> U(b, i, o)]
               /\ \A k \in 1 .. n : f[k] = GetDigit(f[k - 1])
               /\ GetInt(U(b, i, o), n) = f[n]
  BY GetIntTurns
<1>2. n \in Nat /\ n >= 1 /\ Len(b) \in Nat /\ Base \in Nat \ {0}
  BY BaseIs
<1> DEFINE c(k) == IF x < 0 THEN Pow[k] ELSE 0
           val(k) == (x \div Pow[n - k]) + c(k)
           P == {k \in 0 .. n : f[k] = [v |-> val(k), u |-> U(b, i + k, o)]}
<1>3. \A k \in 0 .. 8 : Pow[k] \in Nat \ {0} /\ c(k) \in Int
  <2>1. ASSUME NEW k \in 0 .. 8 PROVE Pow[k] \in Nat \ {0} /\ c(k) \in Int
    <3>1. Pow[k] \in Nat \ {0}
      BY PowIs
    <3> QED BY <3>1
  <2> HIDE DEF c
  <2> QED BY <2>1
<1>4. 0 \in P
  <2>1. n \in 0 .. 8 /\ n - 0 = n /\ i + 0 = i
    OBVIOUS
  <2>2. x \div Pow[n] = IF x < 0 THEN -1 ELSE 0
    BY <1>3, <2>1, Top
  <2>3. c(0) = IF x < 0 THEN 1 ELSE 0
    <3>1. Pow[0] = 1
      BY PowIs
    <3> QED BY <3>1
  <2> HIDE DEF c
  <2>4. val(0) = 0
    BY <2>1, <2>2, <2>3
  <2> HIDE DEF val
  <2> QED BY <1>1, <2>1, <2>4
<1>5. ASSUME NEW k \in 1 .. n, k - 1 \in P PROVE k \in P
  <2> DEFINE l == n - k
             d == (x \div Pow[l]) % Base
             y == x \div Pow[l]
             z == x \div Pow[l + 1]
  <2>1. l \in 0 .. 7 /\ l + 1 = n - (k - 1) /\ k \in 1 .. 8 /\ k - 1 \in 0 .. 8 /\ k - 1 \in Nat
    OBVIOUS
  <2>2. y \in Int /\ d \in 0 .. Base - 1 /\ y = z * Base + d
    <3> HIDE DEF l
    <3> QED BY <2>1, DigitStep
  <2>3. z \in Int
    <3>1. Pow[l + 1] \in Nat \ {0}
      <4>1. l + 1 \in 0 .. 8
        BY <2>1
      <4> HIDE DEF l
      <4> QED BY <1>3, <4>1
    <3> HIDE DEF l
    <3> QED BY <3>1
  <2>4. c(k) = c(k - 1) * Base
    <3>1. Pow[k] = Base * Pow[k - 1] /\ Pow[k - 1] \in Nat
      BY <2>1, PowIs
    <3>2. Pow[k] = Pow[k - 1] * Base
      BY <1>2, <3>1
    <3>3. 0 = 0 * Base
      BY <1>2
    <3> QED BY <3>2, <3>3
  <2>5. f[k - 1] = [v |-> z + c(k - 1), u |-> U(b, i + (k - 1), o)]
    <3> HIDE DEF c
    <3> QED BY <1>5, <2>1
  <2>6. f[k] = [v |-> (z + c(k - 1)) * Base + (GetByte(U(b, i + (k - 1), o)).v % Base),
                u |-> GetByte(U(b, i + (k - 1), o)).u]
    <3> HIDE DEF c, z
    <3>1. f[k] = GetDigit(f[k - 1])
      BY <1>1
    <3> QED BY <2>5, <3>1 DEF GetDigit
  <2>7. /\ i + (k - 1) \in Nat /\ i + (k - 1) < Len(b) /\ (i + (k - 1)) + 1 = i + k
        /\ b[i + k] = d
    BY <1>2 DEF IntAt
  <2>8. GetByte(U(b, i + (k - 1), o)).u = U(b, i + k, o) /\ GetByte(U(b, i + (k - 1), o)).v % Base = d
    <3> HIDE DEF d
    <3>1. b[(i + (k - 1)) + 1] \in 0 .. Base - 1
      BY <2>2, <2>7
    <3> QED BY <2>7, <3>1, GetByteIs
  <2>9. (z + c(k - 1)) * Base + d = y + c(k)
    <3> DEFINE e == c(k - 1)
    <3>1. e \in Int
      BY <1>3, <2>1
    <3> HIDE DEF e, z, d, y
    <3>2. (z + e) * Base = z * Base + e * Base /\ z * Base \in Int /\ e * Base \in Int
      BY <1>2, <2>3, <3>1
    <3>3. c(k) = e * Base
      BY <2>4 DEF e
    <3> HIDE DEF c
    <3>4. d \in Int
      BY <1>2, <2>2
    <3>5. (z + e) * Base + d = y + c(k)
      BY <2>2, <3>2, <3>3, <3>4
    <3> QED BY <3>5 DEF e
  <2>10. f[k] = [v |-> y + c(k), u |-> U(b, i + k, o)]
    <3> HIDE DEF c, z, d, y
    <3> QED BY <2>6, <2>8, <2>9
  <2> HIDE DEF c
  <2> QED BY <2>10
<1>6. n \in P
  <2>1. \A k \in 0 .. n : k \in P
    <3> HIDE DEF P
    <3> QED BY <1>2, <1>4, <1>5, UpTo
  <2> HIDE DEF P
  <2> QED BY <1>2, <2>1
<1>7. val(n) = IF x < 0 THEN x + Pow[n] ELSE x
  <2>1. n - n = 0 /\ Pow[0] = 1 /\ x \div 1 = x
    <3>1. x = 1 * x + 0 /\ 0 \in 0 .. 1 - 1 /\ 1 \in Nat \ {0}
      OBVIOUS
    <3> QED BY <3>1, Quotient, PowIs
  <2>2. x \div Pow[n - n] = x
    BY <2>1
  <2>3. n \in 0 .. 8
    OBVIOUS
  <2>4. Pow[n] \in Nat /\ c(n) \in Int
    <3> HIDE DEF c
    <3> QED BY <1>3, <2>3
  <2>5. val(n) = x + c(n)
    <3> HIDE DEF c
    <3> QED BY <2>2
  <2> HIDE DEF val
  <2>6. CASE x < 0
    BY <2>4, <2>5, <2>6
  <2>7. CASE ~(x < 0)
    BY <2>4, <2>5, <2>7
  <2> QED BY <2>6, <2>7
<1> HIDE DEF val
<1> QED BY <1>1, <1>6, <1>7

\* Reading n bytes that are there.
LEMMA GetBytesIs ==
  ASSUME NEW b \in Seq(Int), NEW i \in Nat, NEW o, NEW n \in Nat, i + n <= Len(b), Len(b) < Word
  PROVE  GetBytes(U(b, i, o), n) = [v |-> SubSeq(b, i + 1, i + n), u |-> U(b, i + n, o)]
<1>1. Word \in Nat \ {0}
  BY PowIs DEF Word
<1>2. (i + n) % Word = i + n
  <2>1. i + n = Word * 0 + (i + n) /\ i + n \in 0 .. Word - 1 /\ i + n \in Int
    BY <1>1
  <2> DEFINE x == i + n
  <2> HIDE DEF x
  <2>2. x % Word = x
    BY <1>1, <2>1, Quotient DEF x
  <2> QED BY <2>2 DEF x
<1>3. ~((i + n) % Word > Len(b))
  BY <1>2
<1> DEFINE u == U(b, i, o)
<1>4. u.buf = b /\ u.ind = i /\ [u EXCEPT !.ind = u.ind + n] = U(b, i + n, o)
  BY UIs
<1> HIDE DEF u
<1>5. GetBytes(u, n) = [v |-> SubSeq(b, i + 1, i + n), u |-> U(b, i + n, o)]
  BY <1>3, <1>4 DEF GetBytes
<1> QED BY <1>5 DEF u

-----------------------------------------------------------------------------
(* One value: an integer or a string *)

\* The types that one << writes: the integers and the string.
Scalars == DOMAIN Widths \cup {"string"}

\* The values of a type of the language.
Fits(t, v) ==
  CASE t = "string"                 -> v \in Seq(0 .. Base - 1)
    [] t = "bool"                   -> v \in {0, 1}
    [] t \in {"char", "short", "int"} -> v \in Int /\ -Pow[Widths[t]] <= 2 * v /\ 2 * v < Pow[Widths[t]]
    [] OTHER                        -> v \in 0 .. Pow[Widths[t]] - 1

\* The bytes of a value.
Size(t, v) == IF t = "string" THEN 4 + Len(v) ELSE Widths[t]

\* b has the bytes between the write heads of m and m1.
Holds(b, m, m1) == m1.ind <= Len(b) /\ \A i \in m.ind + 1 .. m1.ind : b[i] = m1.buf[i]

\* A sequence over a set is one over every larger set.
LEMMA SeqOfMore ==
  ASSUME NEW S, NEW R, \A x \in S : x \in R, NEW s \in Seq(S)
  PROVE  s \in Seq(R) /\ Len(s) \in Nat
<1>1. Len(s) \in Nat /\ s \in [1 .. Len(s) -> S]
  OBVIOUS
<1>2. s \in [1 .. Len(s) -> R]
  BY <1>1
<1> QED BY <1>1, <1>2

\* Bytes that hold what two writes wrote hold what each of them wrote.
LEMMA HoldsBoth ==
  ASSUME NEW m, Obj(m), NEW m1, NEW m2, NEW a, NEW c, Wrote(m, m1, a), Wrote(m1, m2, c),
         NEW b \in Seq(Int), Holds(b, m, m2)
  PROVE  Holds(b, m, m1) /\ Holds(b, m1, m2)
<1>1. /\ m.ind \in Nat /\ a \in Nat /\ c \in Nat /\ m1.ind = m.ind + a /\ m2.ind = m1.ind + c
      /\ Len(b) \in Nat /\ m2.ind <= Len(b)
  BY DEF Wrote, Obj, Holds
<1>2. Keeps(m1, m2)
  BY WroteTwice
<1>3. ASSUME NEW i \in m.ind + 1 .. m1.ind PROVE b[i] = m1.buf[i]
  <2>1. i \in m.ind + 1 .. m2.ind /\ i \in 1 .. m1.ind
    BY <1>1
  <2>2. b[i] = m2.buf[i]
    BY <2>1 DEF Holds
  <2>3. m2.buf[i] = m1.buf[i]
    BY <1>2, <2>1 DEF Keeps
  <2> QED BY <2>2, <2>3
<1>4. ASSUME NEW i \in m1.ind + 1 .. m2.ind PROVE b[i] = m2.buf[i]
  <2>1. i \in m.ind + 1 .. m2.ind
    BY <1>1
  <2> QED BY <2>1 DEF Holds
<1>5. m1.ind <= Len(b) /\ m2.ind <= Len(b)
  BY <1>1
<1> QED BY <1>3, <1>4, <1>5 DEF Holds

\* The integer types, none of which is the string.
LEMMA WidthsAre ==
  /\ DOMAIN Widths = {"bool", "char", "uchar", "short", "ushort", "int", "uint", "ull"}
  /\ \A t \in DOMAIN Widths : Widths[t] \in 1 .. 8
  /\ "string" \notin DOMAIN Widths
<1>1. DOMAIN Widths = {"bool", "char", "uchar", "short", "ushort", "int", "uint", "ull"}
  BY DEF Widths
<1>2. Widths["bool"] = 1 /\ Widths["char"] = 1 /\ Widths["uchar"] = 1 /\ Widths["short"] = 2
      /\ Widths["ushort"] = 2 /\ Widths["int"] = 4 /\ Widths["uint"] = 4 /\ Widths["ull"] = 8
  BY DEF Widths
<1>3. \A t \in DOMAIN Widths : Widths[t] \in {1, 2, 4, 8}
  BY <1>1, <1>2
<1> QED BY <1>1, <1>3

\* An integer that fits is in the range of its bytes.
LEMMA FitsRange ==
  ASSUME NEW t \in DOMAIN Widths, NEW v, Fits(t, v)
  PROVE  v \in Int /\ -Pow[Widths[t]] <= v /\ v < Pow[Widths[t]]
<1> DEFINE p == Pow[Widths[t]]
<1>1. p \in Nat \ {0} /\ t # "string" /\ (t = "bool" => p >= 2)
  <2>1. Widths[t] \in 0 .. 8 /\ t # "string"
    BY WidthsAre
  <2>2. t = "bool" => Widths[t] = 1
    BY DEF Widths
  <2>3. Pow[1] = Base
    <3>1. 1 \in 1 .. 8 /\ 1 - 1 = 0
      OBVIOUS
    <3>2. Pow[1] = Base * 1
      BY <3>1, PowIs
    <3> QED BY <3>2, BaseIs
  <2>4. Pow[Widths[t]] \in Nat \ {0}
    BY <2>1, PowIs
  <2> QED BY <2>1, <2>2, <2>3, <2>4, BaseIs
<1>2. CASE t = "bool"
  BY <1>1, <1>2 DEF Fits
<1>3. CASE t \in {"char", "short", "int"}
  <2>1. v \in Int /\ -p <= 2 * v /\ 2 * v < p
    BY <1>1, <1>3 DEF Fits
  <2> HIDE DEF p
  <2>2. -p <= v /\ v < p
    BY <1>1, <2>1
  <2> QED BY <2>1, <2>2 DEF p
<1>4. CASE t \notin {"char", "short", "int", "bool"}
  <2>1. v \in 0 .. p - 1
    BY <1>1, <1>4 DEF Fits
  <2> HIDE DEF p
  <2>2. v \in Int /\ -p <= v /\ v < p
    BY <1>1, <2>1
  <2> QED BY <2>2 DEF p
<1> QED BY <1>2, <1>3, <1>4

\* The bytes that operator<< writes.
LEMMA PutScalarIs ==
  ASSUME NEW m, Obj(m), NEW t \in Scalars, NEW v, Fits(t, v)
  PROVE  Wrote(m, PutScalar(m, t, v), Size(t, v)) /\ Size(t, v) \in Nat \ {0}
<1>1. CASE t = "string"
  <2> DEFINE m1 == PutInt(m, Len(v), 4)
             m2 == rawbytes(m1, v)
  <2>1. PutScalar(m, t, v) = m2
    BY <1>1 DEF PutScalar
  <2>2. v \in Seq(0 .. Base - 1)
    BY <1>1 DEF Fits
  <2>3. v \in Seq(Int) /\ Len(v) \in Nat
    <3>1. \A x \in 0 .. Base - 1 : x \in Int
      BY BaseIs
    <3> QED BY <2>2, <3>1, SeqOfMore
  <2>4. Wrote(m, m1, 4)
    <3>1. 4 \in 1 .. 8
      OBVIOUS
    <3> QED BY <2>3, <3>1, PutIntIs
  <2> HIDE DEF m1
  <2>5. Wrote(m1, m2, Len(v))
    <3>1. Obj(m1)
      BY <2>4 DEF Wrote
    <3> QED BY <2>3, <3>1, rawbytesIs
  <2> HIDE DEF m2
  <2>6. Wrote(m, m2, 4 + Len(v))
    BY <2>4, <2>5, WroteTwice
  <2>7. Size(t, v) = 4 + Len(v)
    BY <1>1 DEF Size
  <2> QED BY <2>1, <2>3, <2>6, <2>7
<1>2. CASE t \in DOMAIN Widths
  <2>1. t # "string" /\ Widths[t] \in 1 .. 8
    BY <1>2, WidthsAre
  <2>2. PutScalar(m, t, v) = PutInt(m, v, Widths[t]) /\ Size(t, v) = Widths[t]
    BY <2>1 DEF PutScalar, Size
  <2>3. v \in Int
    BY <1>2, FitsRange
  <2> QED BY <2>1, <2>2, <2>3, PutIntIs
<1> QED BY <1>1, <1>2 DEF Scalars

\* The value of ok while nothing has failed.
Yes == TRUE

\* An integer is read back as it was written, as an unsigned one.
LEMMA IntExchange ==
  ASSUME NEW m, Obj(m), NEW n \in 1 .. 8, NEW x \in Int, -Pow[n] <= x, x < Pow[n],
         NEW b \in Seq(Int), Holds(b, m, PutInt(m, x, n)), NEW o
  PROVE  GetInt(U(b, m.ind, o), n) =
           [v |-> Unsigned(x, n), u |-> U(b, PutInt(m, x, n).ind, o)]
<1> DEFINE m1 == PutInt(m, x, n)
<1>1. Wrote(m, m1, n) /\ IntAt(m1.buf, m.ind, x, n)
  BY PutIntIs
<1>2. Holds(b, m, m1)
  OBVIOUS
<1> HIDE DEF m1
<1>3. m.ind \in Nat /\ m1.ind = m.ind + n /\ m.ind + n <= Len(b)
  BY <1>1, <1>2 DEF Wrote, Obj, Holds
<1>4. IntAt(b, m.ind, x, n)
  <2> SUFFICES ASSUME NEW j \in 1 .. n PROVE b[m.ind + j] = (x \div Pow[n - j]) % Base
    BY DEF IntAt
  <2>1. m.ind + j \in m.ind + 1 .. m1.ind
    BY <1>3
  <2>2. b[m.ind + j] = m1.buf[m.ind + j]
    BY <1>2, <2>1 DEF Holds
  <2> QED BY <1>1, <2>2 DEF IntAt
<1>5. GetInt(U(b, m.ind, o), n) = [v |-> Unsigned(x, n), u |-> U(b, m.ind + n, o)]
  <2>1. IntThere(b, m.ind, x, n)
    BY <1>3, <1>4 DEF IntThere
  <2> QED BY <2>1, GetIntIs
<1> QED BY <1>3, <1>5 DEF m1

\* A value is read back as it was written.
LEMMA ScalarExchange ==
  ASSUME NEW m, Obj(m), NEW t \in Scalars, NEW v, Fits(t, v),
         NEW b \in Seq(Int), Len(b) < Word, Holds(b, m, PutScalar(m, t, v))
  PROVE  GetScalar(U(b, m.ind, Yes), t) = [v |-> v, u |-> U(b, PutScalar(m, t, v).ind, Yes)]
<1>1. CASE t = "string"
  <2> DEFINE m1 == PutInt(m, Len(v), 4)
             m2 == rawbytes(m1, v)
  <2>1. PutScalar(m, t, v) = m2
    BY <1>1 DEF PutScalar
  <2>2. v \in Seq(0 .. Base - 1)
    BY <1>1 DEF Fits
  <2>3. v \in Seq(Int) /\ Len(v) \in Nat
    <3>1. \A x \in 0 .. Base - 1 : x \in Int
      BY BaseIs
    <3> QED BY <2>2, <3>1, SeqOfMore
  <2>4. Wrote(m, m1, 4)
    <3>1. 4 \in 1 .. 8
      OBVIOUS
    <3> QED BY <2>3, <3>1, PutIntIs
  <2> DEFINE l == m1.ind
  <2>5. Obj(m1) /\ l \in Nat
    BY <2>4 DEF Wrote, Obj
  <2>6. Wrote(m1, m2, Len(v)) /\ \A j \in 1 .. Len(v) : m2.buf[l + j] = v[j]
    <3> HIDE DEF m1
    <3> QED BY <2>3, <2>5, rawbytesIs
  <2>7. Holds(b, m, m1) /\ Holds(b, m1, m2)
    <3>1. Holds(b, m, m2)
      BY <2>1
    <3> HIDE DEF m1, m2
    <3> QED BY <2>4, <2>6, <3>1, HoldsBoth
  <2>8. GetInt(U(b, m.ind, Yes), 4) = [v |-> Len(v), u |-> U(b, l, Yes)]
    <3>1. 4 \in 1 .. 8 /\ ~(Len(v) < 0)
      BY <2>3
    <3>2. -Pow[4] <= Len(v) /\ Len(v) < Pow[4]
      <4>1. Len(v) <= Len(b)
        <5> HIDE DEF m1, m2
        <5> QED BY <2>3, <2>5, <2>6, <2>7 DEF Wrote, Holds
      <4>2. Pow[4] \in Nat /\ Len(b) \in Nat /\ Len(b) < Pow[4]
        <5>1. Pow[4] \in Nat
          BY PowIs
        <5> QED BY <5>1 DEF Word
      <4> QED BY <2>3, <4>1, <4>2
    <3>3. GetInt(U(b, m.ind, Yes), 4) =
            [v |-> IF Len(v) < 0 THEN Len(v) + Pow[4] ELSE Len(v), u |-> U(b, m1.ind, Yes)]
      <4> DEFINE x == Len(v)
      <4>1. x \in Int /\ -Pow[4] <= x /\ x < Pow[4] /\ Holds(b, m, PutInt(m, x, 4))
        BY <2>3, <2>7, <3>2
      <4> HIDE DEF x, m1
      <4>2. GetInt(U(b, m.ind, Yes), 4) =
              [v |-> Unsigned(x, 4), u |-> U(b, PutInt(m, x, 4).ind, Yes)]
        BY <3>1, <4>1, IntExchange
      <4> QED BY <4>2 DEF x, m1, Unsigned
    <3> HIDE DEF m1
    <3> QED BY <3>1, <3>3
  <2> DEFINE e == m2.ind
  <2>9. e = l + Len(v) /\ e <= Len(b)
    <3> HIDE DEF m1, m2
    <3> QED BY <2>6, <2>7 DEF Wrote, Holds
  <2>10. \A j \in 1 .. Len(v) : b[l + j] = v[j]
    <3> SUFFICES ASSUME NEW j \in 1 .. Len(v) PROVE b[l + j] = v[j]
      OBVIOUS
    <3> HIDE DEF m2
    <3>1. l + j \in l + 1 .. m2.ind
      <4> HIDE DEF l
      <4> QED BY <2>3, <2>5, <2>9
    <3>2. b[l + j] = m2.buf[l + j]
      <4> HIDE DEF m1
      <4> QED BY <2>7, <3>1 DEF Holds
    <3> QED BY <2>6, <3>2
  <2> HIDE DEF l, e, m1, m2
  <2>11. GetBytes(U(b, l, Yes), Len(v)) = [v |-> SubSeq(b, l + 1, l + Len(v)), u |-> U(b, l + Len(v), Yes)]
    BY <2>3, <2>5, <2>9, GetBytesIs
  <2>12. SubSeq(b, l + 1, l + Len(v)) = v
    <3> DEFINE s == SubSeq(b, l + 1, e)
    <3>1. l \in 0 .. Len(b) /\ e \in l .. Len(b) /\ e - l = Len(v)
      BY <2>3, <2>5, <2>9
    <3>2. s \in Seq(Int) /\ Len(s) = Len(v) /\ \A j \in 1 .. Len(v) : s[j] = b[l + j]
      BY <3>1, SubSeqIs
    <3> HIDE DEF s
    <3>3. s = v
      BY <2>3, <2>10, <3>2, SeqEqual
    <3> QED BY <2>9, <3>3 DEF s
  <2>13. GetScalar(U(b, m.ind, Yes), t) = GetBytes(U(b, l, Yes), Len(v))
    <3>1. U(b, l, Yes).ok
      <4>1. U(b, l, Yes).ok = Yes
        BY UIs
      <4> QED BY <4>1 DEF Yes
    <3> QED BY <1>1, <2>8, <3>1 DEF GetScalar
  <2> QED BY <2>1, <2>9, <2>11, <2>12, <2>13 DEF e
<1>2. CASE t \in DOMAIN Widths
  <2> DEFINE n == Widths[t]
             m1 == PutInt(m, v, n)
             raw == IF v < 0 THEN v + Pow[n] ELSE v
  <2>1. t # "string" /\ n \in 1 .. 8 /\ v \in Int /\ -Pow[n] <= v /\ v < Pow[n]
    BY <1>2, WidthsAre, FitsRange
  <2>2. PutScalar(m, t, v) = m1
    BY <2>1 DEF PutScalar
  <2>3. GetInt(U(b, m.ind, Yes), n) = [v |-> raw, u |-> U(b, m1.ind, Yes)]
    <3>1. Holds(b, m, m1)
      BY <2>2
    <3>2. GetInt(U(b, m.ind, Yes), n) = [v |-> Unsigned(v, n), u |-> U(b, m1.ind, Yes)]
      BY <2>1, <3>1, IntExchange
    <3> HIDE DEF m1
    <3> QED BY <3>2 DEF Unsigned
  <2>4. GetScalar(U(b, m.ind, Yes), t) =
          [v |-> CASE t \in {"char", "short", "int"} -> Signed(raw, n)
                   [] t = "bool" -> IF raw = 0 THEN 0 ELSE 1
                   [] OTHER -> raw,
           u |-> U(b, m1.ind, Yes)]
    <3> HIDE DEF raw, m1
    <3> QED BY <2>1, <2>3 DEF GetScalar
  <2> HIDE DEF m1
  <2>5. Pow[n] \in Nat \ {0}
    <3>1. n \in 0 .. 8
      BY <2>1
    <3> QED BY <3>1, PowIs
  <2>6. CASE t \in {"char", "short", "int"}
    <3>1. -Pow[n] <= 2 * v /\ 2 * v < Pow[n]
      BY <2>1, <2>6 DEF Fits
    <3>2. Signed(raw, n) = v
      <4> HIDE DEF n
      <4> QED BY <2>1, <2>5, <3>1 DEF Signed
    <3> QED BY <2>2, <2>4, <2>6, <3>2
  <2>7. CASE t = "bool"
    <3>1. v \in {0, 1}
      BY <2>7 DEF Fits
    <3>2. (IF raw = 0 THEN 0 ELSE 1) = v
      BY <3>1
    <3> HIDE DEF raw
    <3> QED BY <2>2, <2>4, <2>7, <3>2
  <2>8. CASE t \notin {"char", "short", "int", "bool"}
    <3>1. v \in 0 .. Pow[n] - 1
      BY <2>1, <2>8 DEF Fits
    <3>2. raw = v
      BY <2>5, <3>1
    <3> HIDE DEF raw
    <3> QED BY <2>2, <2>4, <2>8, <3>2
  <2> QED BY <2>6, <2>7, <2>8
<1> QED BY <1>1, <1>2 DEF Scalars

\* At the end of the buffer every value fails, and nothing is read.
LEMMA ScalarAtEnd ==
  ASSUME NEW b \in Seq(Int), NEW o, NEW t \in Scalars
  PROVE  GetScalar(U(b, Len(b), o), t).u = U(b, Len(b), No)
<1>1. \A n \in 1 .. 8 : GetInt(U(b, Len(b), o), n) = [v |-> 0, u |-> U(b, Len(b), No)]
  <2>1. Len(b) \in 0 .. Len(b)
    OBVIOUS
  <2> QED BY <2>1, GetIntMoves
<1>2. CASE t = "string"
  <2>1. GetInt(U(b, Len(b), o), 4) = [v |-> 0, u |-> U(b, Len(b), No)]
    BY <1>1
  <2>2. ~U(b, Len(b), No).ok
    <3>1. U(b, Len(b), No).ok = No
      BY UIs
    <3> QED BY <3>1 DEF No
  <2> QED BY <1>2, <2>1, <2>2 DEF GetScalar
<1>3. CASE t \in DOMAIN Widths
  <2>1. t # "string" /\ Widths[t] \in 1 .. 8
    BY <1>3, WidthsAre
  <2>2. GetScalar(U(b, Len(b), o), t).u = GetInt(U(b, Len(b), o), Widths[t]).u
    BY <2>1 DEF GetScalar
  <2> QED BY <1>1, <2>1, <2>2
<1> QED BY <1>2, <1>3 DEF Scalars

-----------------------------------------------------------------------------
(* One value after the other *)

\* m1 is m after some bytes were written.
More(m, m1) == \E c \in Nat : Wrote(m, m1, c)

\* Every object of f is the one before after some bytes were written.
Steps(f, n) == /\ n \in Nat /\ Obj(f[0])
               /\ \A i \in 1 .. n : Obj(f[i - 1]) => More(f[i - 1], f[i])

\* After every one of several writes the object is in order and has only grown.
LEMMA Chain ==
  ASSUME NEW n, NEW f, Steps(f, n)
  PROVE  \A i \in 0 .. n : Obj(f[i]) /\ More(f[0], f[i]) /\ More(f[i], f[n])
<1> DEFINE P == {i \in 0 .. n : Obj(f[i]) /\ More(f[0], f[i])}
           Q == {j \in 0 .. n : More(f[n - j], f[n])}
<1>0. n \in Nat /\ Obj(f[0])
  BY DEF Steps
<1>1. \A m, m1, m2 : Obj(m) /\ More(m, m1) /\ More(m1, m2) => More(m, m2)
  <2> SUFFICES ASSUME NEW m, NEW m1, NEW m2, Obj(m), More(m, m1), More(m1, m2) PROVE More(m, m2)
    OBVIOUS
  <2>1. PICK a \in Nat : Wrote(m, m1, a)
    BY DEF More
  <2>2. PICK c \in Nat : Wrote(m1, m2, c)
    BY DEF More
  <2>3. Wrote(m, m2, a + c) /\ a + c \in Nat
    BY <2>1, <2>2, WroteTwice
  <2> QED BY <2>3 DEF More
<1>2. \A m : Obj(m) => More(m, m)
  BY WroteNone DEF More
<1>3. \A m, m1 : More(m, m1) => Obj(m1)
  BY DEF More, Wrote
<1>4. 0 \in P
  BY <1>0, <1>2
<1>5. ASSUME NEW i \in 1 .. n, i - 1 \in P PROVE i \in P
  <2>1. Obj(f[i - 1]) /\ More(f[0], f[i - 1])
    BY <1>5
  <2>2. More(f[i - 1], f[i])
    BY <2>1 DEF Steps
  <2> QED BY <1>0, <1>1, <1>3, <2>1, <2>2
<1>6. \A i \in 0 .. n : i \in P
  <2> HIDE DEF P
  <2> QED BY <1>0, <1>4, <1>5, UpTo
<1>7. \A i \in 0 .. n : Obj(f[i]) /\ More(f[0], f[i])
  BY <1>6
<1>8. 0 \in Q
  <2>1. n - 0 = n /\ n \in 0 .. n
    BY <1>0
  <2>2. More(f[n], f[n])
    BY <1>2, <1>7, <2>1
  <2> QED BY <1>0, <2>1, <2>2
<1>9. ASSUME NEW j \in 1 .. n, j - 1 \in Q PROVE j \in Q
  <2> DEFINE i == n - (j - 1)
  <2>1. i \in 1 .. n /\ i - 1 = n - j /\ i - 1 \in 0 .. n
    BY <1>0
  <2>2. More(f[i], f[n])
    BY <1>9
  <2> HIDE DEF i
  <2>3. More(f[i - 1], f[i]) /\ Obj(f[i - 1])
    BY <1>7, <2>1 DEF Steps
  <2>4. More(f[i - 1], f[n])
    BY <1>1, <2>2, <2>3
  <2> QED BY <2>1, <2>4
<1>10. \A j \in 0 .. n : j \in Q
  <2> HIDE DEF Q
  <2> QED BY <1>0, <1>8, <1>9, UpTo
<1>11. ASSUME NEW i \in 0 .. n PROVE More(f[i], f[n])
  <2>1. n - i \in 0 .. n /\ n - (n - i) = i
    BY <1>0
  <2>2. More(f[n - (n - i)], f[n])
    BY <1>10, <2>1
  <2> QED BY <2>1, <2>2
<1> QED BY <1>7, <1>11

\* Bytes that hold what several writes wrote hold what each of them wrote.
LEMMA ChainHolds ==
  ASSUME NEW n, NEW f, Steps(f, n), NEW b \in Seq(Int), Holds(b, f[0], f[n])
  PROVE  \A i \in 1 .. n : Holds(b, f[i - 1], f[i])
<1> DEFINE P == {i \in 0 .. n : Holds(b, f[i], f[n])}
<1>0. n \in Nat
  BY DEF Steps
<1>1. \A i \in 0 .. n : Obj(f[i]) /\ More(f[i], f[n])
  BY Chain
<1>2. ASSUME NEW i \in 1 .. n, Holds(b, f[i - 1], f[n])
      PROVE  Holds(b, f[i - 1], f[i]) /\ Holds(b, f[i], f[n])
  <2>1. i - 1 \in 0 .. n /\ i \in 0 .. n
    BY <1>0
  <2>2. Obj(f[i - 1]) /\ More(f[i - 1], f[i]) /\ More(f[i], f[n])
    BY <1>1, <2>1 DEF Steps
  <2>3. PICK a \in Nat : Wrote(f[i - 1], f[i], a)
    BY <2>2 DEF More
  <2>4. PICK c \in Nat : Wrote(f[i], f[n], c)
    BY <2>2 DEF More
  <2> QED BY <1>2, <2>2, <2>3, <2>4, HoldsBoth
<1>3. 0 \in P
  BY <1>0
<1>4. ASSUME NEW i \in 1 .. n, i - 1 \in P PROVE i \in P
  BY <1>2, <1>4
<1>5. \A i \in 0 .. n : i \in P
  <2> HIDE DEF P
  <2> QED BY <1>0, <1>3, <1>4, UpTo
<1>6. ASSUME NEW i \in 1 .. n PROVE Holds(b, f[i - 1], f[i])
  <2>1. i - 1 \in 0 .. n
    BY <1>0
  <2>2. Holds(b, f[i - 1], f[n])
    BY <1>5, <2>1
  <2> QED BY <1>2, <2>2
<1> QED BY <1>6

\* A value for every type, and it fits.
Listed(ts, vs) == /\ Len(vs) \in Nat /\ Len(ts) = Len(vs) /\ vs = [i \in 1 .. Len(vs) |-> vs[i]]
                  /\ \A i \in 1 .. Len(vs) : ts[i] \in Scalars /\ Fits(ts[i], vs[i])

\* The turns of PutAll and of GetAll.
LEMMA PutAllTurns ==
  ASSUME NEW m, NEW ts, NEW vs, Len(vs) \in Nat
  PROVE  \E f : /\ f[0] = m
                /\ \A i \in 1 .. Len(vs) : f[i] = PutScalar(f[i - 1], ts[i], vs[i])
                /\ PutAll(m, ts, vs) = f[Len(vs)]
<1> DEFINE n == Len(vs)
           Is(g, k) == g = [i \in 0 .. k |-> IF i = 0 THEN m ELSE PutScalar(g[i - 1], ts[i], vs[i])]
           T == {k \in 0 .. n : \E g : Is(g, k)}
           put == CHOOSE g : Is(g, n)
<1>0. PutAll(m, ts, vs) = put[n]
  BY DEF PutAll
<1> HIDE DEF n, put
<1>1. n \in Nat
  BY DEF n
<1>2. 0 \in T
  <2>1. Is([i \in 0 .. 0 |-> m], 0)
    OBVIOUS
  <2> HIDE DEF Is
  <2> QED BY <1>1, <2>1
<1>3. ASSUME NEW k \in 1 .. n, k - 1 \in T PROVE k \in T
  <2>1. PICK g : Is(g, k - 1)
    BY <1>3
  <2> DEFINE h == [i \in 0 .. k |-> IF i = 0 THEN m ELSE PutScalar(g[i - 1], ts[i], vs[i])]
  <2>2. \A i \in 0 .. k - 1 : h[i] = g[i]
    BY <1>1, <2>1
  <2>3. Is(h, k)
    <3>1. \A i \in 0 .. k : i # 0 => h[i - 1] = g[i - 1]
      <4> HIDE DEF h
      <4> QED BY <1>1, <2>2
    <3> QED BY <3>1
  <2> HIDE DEF Is, h
  <2> QED BY <1>1, <2>3
<1>4. \E g : Is(g, n)
  <2>1. \A i \in 0 .. n : i \in T
    <3> HIDE DEF T
    <3> QED BY <1>1, <1>2, <1>3, UpTo
  <2> HIDE DEF Is
  <2> QED BY <1>1, <2>1
<1>5. Is(put, n)
  <2> HIDE DEF Is
  <2> QED BY <1>4 DEF put
<1>6. put[0] = m /\ \A i \in 1 .. n : put[i] = PutScalar(put[i - 1], ts[i], vs[i])
  BY <1>1, <1>5
<1> QED BY <1>0, <1>6 DEF n

\* The turns of GetAll.
LEMMA GetAllTurns ==
  ASSUME NEW u, NEW ts, Len(ts) \in Nat
  PROVE  \E f : /\ f[0] = [v |-> <<>>, u |-> u]
                /\ \A i \in 1 .. Len(ts) : f[i] = GetNext(f[i - 1], ts[i])
                /\ GetAll(u, ts) = f[Len(ts)]
<1> DEFINE n == Len(ts)
           Is(g, k) == g = [i \in 0 .. k |-> IF i = 0 THEN [v |-> <<>>, u |-> u] ELSE GetNext(g[i - 1], ts[i])]
           T == {k \in 0 .. n : \E g : Is(g, k)}
           got == CHOOSE g : Is(g, n)
<1>0. GetAll(u, ts) = got[n]
  BY DEF GetAll
<1> HIDE DEF n, got
<1>1. n \in Nat
  BY DEF n
<1>2. 0 \in T
  <2>1. Is([i \in 0 .. 0 |-> [v |-> <<>>, u |-> u]], 0)
    OBVIOUS
  <2> HIDE DEF Is
  <2> QED BY <1>1, <2>1
<1>3. ASSUME NEW k \in 1 .. n, k - 1 \in T PROVE k \in T
  <2>1. PICK g : Is(g, k - 1)
    BY <1>3
  <2> DEFINE h == [i \in 0 .. k |-> IF i = 0 THEN [v |-> <<>>, u |-> u] ELSE GetNext(g[i - 1], ts[i])]
  <2>2. \A i \in 0 .. k - 1 : h[i] = g[i]
    BY <1>1, <2>1
  <2>3. Is(h, k)
    <3>1. \A i \in 0 .. k : i # 0 => h[i - 1] = g[i - 1]
      <4> HIDE DEF h
      <4> QED BY <1>1, <2>2
    <3> QED BY <3>1
  <2> HIDE DEF Is, h
  <2> QED BY <1>1, <2>3
<1>4. \E g : Is(g, n)
  <2>1. \A i \in 0 .. n : i \in T
    <3> HIDE DEF T
    <3> QED BY <1>1, <1>2, <1>3, UpTo
  <2> HIDE DEF Is
  <2> QED BY <1>1, <2>1
<1>5. Is(got, n)
  <2> HIDE DEF Is
  <2> QED BY <1>4 DEF got
<1>6. got[0] = [v |-> <<>>, u |-> u] /\ \A i \in 1 .. n : got[i] = GetNext(got[i - 1], ts[i])
  BY <1>1, <1>5
<1> QED BY <1>0, <1>6 DEF n

\* PutAll as a row of writes, one value each.
LEMMA PutAllSteps ==
  ASSUME NEW m, Obj(m), NEW ts, NEW vs, Listed(ts, vs)
  PROVE  \E f : /\ f[0] = m /\ Steps(f, Len(vs))
                /\ \A i \in 1 .. Len(vs) : f[i] = PutScalar(f[i - 1], ts[i], vs[i])
                /\ PutAll(m, ts, vs) = f[Len(vs)]
<1>1. Len(vs) \in Nat
  BY DEF Listed
<1>2. PICK f : /\ f[0] = m
               /\ \A i \in 1 .. Len(vs) : f[i] = PutScalar(f[i - 1], ts[i], vs[i])
               /\ PutAll(m, ts, vs) = f[Len(vs)]
  BY <1>1, PutAllTurns
<1>3. ASSUME NEW i \in 1 .. Len(vs), Obj(f[i - 1]) PROVE More(f[i - 1], f[i])
  <2>1. ts[i] \in Scalars /\ Fits(ts[i], vs[i])
    BY DEF Listed
  <2>2. Wrote(f[i - 1], f[i], Size(ts[i], vs[i])) /\ Size(ts[i], vs[i]) \in Nat
    BY <1>2, <1>3, <2>1, PutScalarIs
  <2> QED BY <2>2 DEF More
<1>4. Steps(f, Len(vs))
  BY <1>1, <1>2, <1>3 DEF Steps
<1> QED BY <1>2, <1>4

\* Every step adds at most k.
LEMMA Sums ==
  ASSUME NEW n \in Nat, NEW k \in Nat, NEW g, g[0] \in Nat,
         \A i \in 1 .. n : g[i] \in Nat /\ g[i] <= g[i - 1] + k
  PROVE  g[n] <= g[0] + n * k
<1> DEFINE P == {i \in 0 .. n : g[i] \in Nat /\ g[i] <= g[0] + i * k}
<1>1. 0 \in P
  BY Z3
<1>2. ASSUME NEW i \in 1 .. n, i - 1 \in P PROVE i \in P
  <2>1. g[i - 1] \in Nat /\ g[i - 1] <= g[0] + (i - 1) * k
    BY <1>2
  <2>2. (i - 1) * k = i * k - k /\ i * k \in Nat
    OBVIOUS
  <2>3. g[i] \in Nat /\ g[i] <= g[i - 1] + k
    OBVIOUS
  <2> DEFINE s == i * k
  <2> HIDE DEF s
  <2>4. g[i] <= g[0] + s
    BY <2>1, <2>2, <2>3 DEF s
  <2> QED BY <2>3, <2>4 DEF s
<1>3. \A i \in 0 .. n : i \in P
  <2> HIDE DEF P
  <2> QED BY <1>1, <1>2, UpTo
<1>4. n \in 0 .. n
  OBVIOUS
<1> QED BY <1>3, <1>4

\* PutAll only adds to the buffer, and at most k bytes for every value of at most k bytes.
LEMMA PutAllIs ==
  ASSUME NEW m, Obj(m), NEW ts, NEW vs, Listed(ts, vs)
  PROVE  /\ More(m, PutAll(m, ts, vs))
         /\ \A k \in Nat : (\A i \in 1 .. Len(vs) : Size(ts[i], vs[i]) <= k) =>
              PutAll(m, ts, vs).ind <= m.ind + Len(vs) * k
<1> DEFINE n == Len(vs)
<1>1. PICK f : /\ f[0] = m /\ Steps(f, n)
               /\ \A i \in 1 .. n : f[i] = PutScalar(f[i - 1], ts[i], vs[i])
               /\ PutAll(m, ts, vs) = f[n]
  BY PutAllSteps
<1>2. n \in Nat
  BY DEF Listed
<1>3. \A i \in 1 .. n : ts[i] \in Scalars /\ Fits(ts[i], vs[i])
  BY DEF Listed
<1> HIDE DEF n
<1>4. \A i \in 0 .. n : Obj(f[i]) /\ More(f[0], f[i])
  BY <1>1, Chain
<1>5. n \in 0 .. n
  BY <1>2
<1>6. ASSUME NEW k \in Nat, \A i \in 1 .. n : Size(ts[i], vs[i]) <= k
      PROVE  f[n].ind <= f[0].ind + n * k
  <2> DEFINE g == [i \in 0 .. n |-> f[i].ind]
  <2>1. \A i \in 0 .. n : g[i] = f[i].ind /\ g[i] \in Nat
    <3>1. \A i \in 0 .. n : g[i] = f[i].ind
      OBVIOUS
    <3>2. \A x : Obj(x) => x.ind \in Nat
      BY DEF Obj
    <3> HIDE DEF g
    <3> QED BY <1>4, <3>1, <3>2
  <2>2. ASSUME NEW i \in 1 .. n PROVE g[i] \in Nat /\ g[i] <= g[i - 1] + k
    <3>1. i - 1 \in 0 .. n /\ i \in 0 .. n
      BY <1>2
    <3>2. Wrote(f[i - 1], f[i], Size(ts[i], vs[i])) /\ Size(ts[i], vs[i]) \in Nat
      BY <1>1, <1>3, <1>4, <3>1, PutScalarIs
    <3>3. f[i].ind = f[i - 1].ind + Size(ts[i], vs[i])
      BY <3>2 DEF Wrote
    <3> HIDE DEF g
    <3>4. Size(ts[i], vs[i]) <= k
      BY <1>6
    <3> QED BY <2>1, <3>1, <3>2, <3>3, <3>4
  <2>3. 0 \in 0 .. n
    BY <1>2
  <2> HIDE DEF g
  <2>4. g[n] <= g[0] + n * k
    BY <1>2, <2>1, <2>2, <2>3, Sums
  <2> QED BY <1>5, <2>1, <2>3, <2>4
<1> QED BY <1>1, <1>4, <1>5, <1>6 DEF n

\* One element more.
LEMMA AppendNext ==
  ASSUME NEW vs, NEW i \in Nat \ {0}
  PROVE  Append([j \in 1 .. i - 1 |-> vs[j]], vs[i]) = [j \in 1 .. i |-> vs[j]]
<1> DEFINE s == [j \in 1 .. i - 1 |-> vs[j]]
           t == [j \in 1 .. i |-> vs[j]]
           S == {vs[j] : j \in 1 .. i}
<1>1. i - 1 \in Nat /\ \A j \in 1 .. i - 1 : j \in 1 .. i
  OBVIOUS
<1>2. s \in Seq(S) /\ Len(s) = i - 1 /\ \A j \in 1 .. i - 1 : s[j] = vs[j]
  <2>1. s \in [1 .. i - 1 -> S]
    BY <1>1
  <2> HIDE DEF S
  <2> QED BY <1>1, <2>1
<1>3. t \in Seq(S) /\ Len(t) = i /\ \A j \in 1 .. i : t[j] = vs[j]
  <2>1. t \in [1 .. i -> S]
    OBVIOUS
  <2> HIDE DEF S
  <2> QED BY <2>1
<1>4. vs[i] \in S
  OBVIOUS
<1> DEFINE e == vs[i]
           a == Append(s, e)
<1> HIDE DEF S, s, t
<1>5. a \in Seq(S) /\ Len(a) = i /\ a[i] = e /\ \A j \in 1 .. i - 1 : a[j] = s[j]
  BY <1>1, <1>2, <1>4
<1> HIDE DEF a
<1>6. \A j \in 1 .. i : a[j] = t[j]
  <2> SUFFICES ASSUME NEW j \in 1 .. i PROVE a[j] = t[j]
    OBVIOUS
  <2>1. j = i \/ j \in 1 .. i - 1
    OBVIOUS
  <2> QED BY <1>2, <1>3, <1>5, <2>1
<1>7. a = t
  BY <1>3, <1>5, <1>6, SeqEqual
<1> QED BY <1>7 DEF a, s, t

\* A list of values is read back as it was written.
LEMMA AllExchange ==
  ASSUME NEW m, Obj(m), NEW ts, NEW vs, Listed(ts, vs),
         NEW b \in Seq(Int), Len(b) < Word, Holds(b, m, PutAll(m, ts, vs))
  PROVE  GetAll(U(b, m.ind, Yes), ts) = [v |-> vs, u |-> U(b, PutAll(m, ts, vs).ind, Yes)]
<1> DEFINE n == Len(vs)
<1>1. PICK f : /\ f[0] = m /\ Steps(f, n)
               /\ \A i \in 1 .. n : f[i] = PutScalar(f[i - 1], ts[i], vs[i])
               /\ PutAll(m, ts, vs) = f[n]
  BY PutAllSteps
<1>2. n \in Nat /\ Len(ts) = n /\ vs = [j \in 1 .. n |-> vs[j]]
  BY DEF Listed
<1>3. \A i \in 1 .. n : ts[i] \in Scalars /\ Fits(ts[i], vs[i])
  BY DEF Listed
<1> HIDE DEF n
<1>4. PICK g : /\ g[0] = [v |-> <<>>, u |-> U(b, m.ind, Yes)]
               /\ \A i \in 1 .. n : g[i] = GetNext(g[i - 1], ts[i])
               /\ GetAll(U(b, m.ind, Yes), ts) = g[n]
  <2>1. Len(ts) \in Nat
    BY <1>2
  <2>2. \E g : /\ g[0] = [v |-> <<>>, u |-> U(b, m.ind, Yes)]
               /\ \A i \in 1 .. Len(ts) : g[i] = GetNext(g[i - 1], ts[i])
               /\ GetAll(U(b, m.ind, Yes), ts) = g[Len(ts)]
    BY <2>1, GetAllTurns
  <2> QED BY <1>2, <2>2
<1>5. \A i \in 0 .. n : Obj(f[i])
  BY <1>1, Chain
<1>6. \A i \in 1 .. n : Holds(b, f[i - 1], f[i])
  BY <1>1, ChainHolds
<1> DEFINE Pre(i) == [j \in 1 .. i |-> vs[j]]
           P == {i \in 0 .. n : g[i] = [v |-> Pre(i), u |-> U(b, f[i].ind, Yes)]}
<1>7. 0 \in P
  <2>1. Pre(0) = <<>>
    OBVIOUS
  <2> HIDE DEF Pre
  <2> QED BY <1>1, <1>2, <1>4, <2>1
<1>8. ASSUME NEW i \in 1 .. n, i - 1 \in P PROVE i \in P
  <2>1. i \in Nat \ {0} /\ i - 1 \in 0 .. n
    BY <1>2
  <2>2. Append(Pre(i - 1), vs[i]) = Pre(i)
    BY <2>1, AppendNext
  <2> HIDE DEF Pre
  <2>3. g[i - 1] = [v |-> Pre(i - 1), u |-> U(b, f[i - 1].ind, Yes)] /\ g[i] = GetNext(g[i - 1], ts[i])
    BY <1>4, <1>8
  <2>4. GetScalar(U(b, f[i - 1].ind, Yes), ts[i]) = [v |-> vs[i], u |-> U(b, f[i].ind, Yes)]
    <3>1. Obj(f[i - 1]) /\ f[i] = PutScalar(f[i - 1], ts[i], vs[i]) /\ Holds(b, f[i - 1], f[i])
          /\ ts[i] \in Scalars /\ Fits(ts[i], vs[i])
      BY <1>1, <1>3, <1>5, <1>6, <2>1
    <3> QED BY <3>1, ScalarExchange
  <2>5. g[i] = [v |-> Pre(i), u |-> U(b, f[i].ind, Yes)]
    <3>1. \A a, t : GetNext(a, t) = [v |-> Append(a.v, GetScalar(a.u, t).v), u |-> GetScalar(a.u, t).u]
      BY DEF GetNext, Add
    <3>2. g[i] = [v |-> Append(g[i - 1].v, GetScalar(g[i - 1].u, ts[i]).v),
                  u |-> GetScalar(g[i - 1].u, ts[i]).u]
      BY <2>3, <3>1
    <3>3. g[i - 1].v = Pre(i - 1) /\ g[i - 1].u = U(b, f[i - 1].ind, Yes)
      BY <2>3
    <3>4. GetScalar(g[i - 1].u, ts[i]) = [v |-> vs[i], u |-> U(b, f[i].ind, Yes)]
      BY <2>4, <3>3
    <3>5. GetScalar(g[i - 1].u, ts[i]).v = vs[i] /\ GetScalar(g[i - 1].u, ts[i]).u = U(b, f[i].ind, Yes)
      BY <3>4
    <3>6. Append(g[i - 1].v, vs[i]) = Pre(i)
      BY <2>2, <3>3
    <3> QED BY <3>2, <3>5, <3>6
  <2> QED BY <2>5
<1>9. \A i \in 0 .. n : i \in P
  <2> HIDE DEF P
  <2> QED BY <1>2, <1>7, <1>8, UpTo
<1>10. g[n] = [v |-> Pre(n), u |-> U(b, f[n].ind, Yes)]
  <2>1. n \in 0 .. n
    BY <1>2
  <2> QED BY <1>9, <2>1
<1>11. Pre(n) = vs
  BY <1>2
<1> HIDE DEF Pre
<1> QED BY <1>1, <1>4, <1>10, <1>11

-----------------------------------------------------------------------------
(* The keys of a map in order *)

\* ks enumerates S upwards.
Ordered(ks, S, n) == ks \in [1 .. n -> S] /\ \A i, j \in 1 .. n : i < j => ks[i] < ks[j]

\* A finite set of integers can be enumerated upwards: take its largest element last.
LEMMA OrderExists ==
  ASSUME NEW K \in SUBSET Int, IsFiniteSet(K), NEW M \in Int, \A x \in K : x < M
  PROVE  \E ks : Ordered(ks, K, Cardinality(K))
<1> DEFINE N == Cardinality(K)
           T == {n \in 0 .. N : \A S \in SUBSET K : Cardinality(S) = n => \E ks : Ordered(ks, S, n)}
<1>1. N \in Nat
  BY FS_CardinalityType
<1> HIDE DEF N
<1>2. 0 \in T
  <2>1. ASSUME NEW S \in SUBSET K PROVE Ordered(<<>>, S, 0)
    BY DEF Ordered
  <2> QED BY <1>1, <2>1
<1>3. ASSUME NEW n \in 1 .. N, n - 1 \in T PROVE n \in T
  <2> SUFFICES ASSUME NEW S \in SUBSET K, Cardinality(S) = n PROVE \E ks : Ordered(ks, S, n)
    BY <1>1
  <2>1. IsFiniteSet(S) /\ S # {} /\ n \in Nat \ {0}
    <3>1. IsFiniteSet(S)
      BY FS_Subset
    <3>2. n \in Nat \ {0}
      BY <1>1
    <3> QED BY <3>1, <3>2, FS_EmptySet
  <2>2. PICK x \in S : \A y \in S : y <= x
    <3> DEFINE D == {d \in Nat : \E y \in S : d = M - y}
    <3>1. D \in SUBSET Nat
      OBVIOUS
    <3>2. \A y \in S : M - y \in Nat /\ y \in Int
      OBVIOUS
    <3>3. D # {}
      BY <2>1, <3>2
    <3>4. \A y \in S : M - y \in D
      BY <3>2
    <3>5. \A d \in D : \E y \in S : d = M - y
      OBVIOUS
    <3> HIDE DEF D
    <3>6. PICK d \in D : \A e \in D : d <= e
      BY <3>1, <3>3, Least
    <3>7. PICK x \in S : d = M - x
      BY <3>5
    <3>8. ASSUME NEW y \in S PROVE y <= x
      <4>1. d <= M - y
        BY <3>4, <3>6
      <4> QED BY <3>2, <3>7, <4>1
    <3> QED BY <3>8
  <2> DEFINE R == S \ {x}
  <2>3. R \in SUBSET K /\ Cardinality(R) = n - 1
    BY <2>1, FS_RemoveElement
  <2>4. PICK ks : Ordered(ks, R, n - 1)
    <3> HIDE DEF R
    <3> QED BY <1>3, <2>3
  <2>5. /\ ks \in [1 .. n - 1 -> R]
        /\ \A i, j \in 1 .. n - 1 : i < j => ks[i] < ks[j]
        /\ \A y \in R : y \in Int /\ x \in Int /\ y < x
    <3>1. \A y \in R : y \in Int /\ x \in Int /\ y < x
      BY <2>2
    <3> HIDE DEF R
    <3> QED BY <2>4, <3>1 DEF Ordered
  <2> DEFINE ls == [i \in 1 .. n |-> IF i = n THEN x ELSE ks[i]]
  <2>6. \A i \in 1 .. n : i # n => i \in 1 .. n - 1
    BY <2>1
  <2>7. ls \in [1 .. n -> S]
    BY <2>5, <2>6
  <2>8. ASSUME NEW i \in 1 .. n, NEW j \in 1 .. n, i < j PROVE ls[i] < ls[j]
    <3>1. i # n /\ i \in 1 .. n - 1 /\ ls[i] = ks[i] /\ ks[i] \in R
      BY <2>1, <2>5, <2>8
    <3>2. CASE j = n
      <4> HIDE DEF R
      <4> QED BY <2>5, <3>1, <3>2
    <3>3. CASE j # n
      <4>1. j \in 1 .. n - 1 /\ ls[j] = ks[j]
        BY <2>6, <3>3
      <4> HIDE DEF R, ls
      <4> QED BY <2>5, <2>8, <3>1, <4>1
    <3> QED BY <3>2, <3>3
  <2> HIDE DEF ls
  <2>9. Ordered(ls, S, n)
    BY <2>7, <2>8 DEF Ordered
  <2> QED BY <2>9
<1>4. \A n \in 0 .. N : n \in T
  <2> HIDE DEF T
  <2> QED BY <1>1, <1>2, <1>3, UpTo
<1>5. N \in 0 .. N /\ K \in SUBSET K
  BY <1>1
<1> QED BY <1>4, <1>5 DEF N

\* InOrder lists every key once.
LEMMA InOrderIs ==
  ASSUME NEW K \in SUBSET Int, IsFiniteSet(K), NEW M \in Int, \A x \in K : x < M
  PROVE  /\ Cardinality(K) \in Nat
         /\ InOrder(K) \in [1 .. Cardinality(K) -> K]
         /\ \A i, j \in 1 .. Cardinality(K) : InOrder(K)[i] = InOrder(K)[j] => i = j
         /\ \A k \in K : \E i \in 1 .. Cardinality(K) : InOrder(K)[i] = k
<1> DEFINE n == Cardinality(K)
           ks == InOrder(K)
<1>1. n \in Nat
  BY FS_CardinalityType
<1>2. Ordered(ks, K, n)
  <2>1. PICK ls : Ordered(ls, K, n)
    BY OrderExists
  <2> QED BY <2>1 DEF InOrder, Ordered
<1> HIDE DEF ks
<1>3. ks \in [1 .. n -> K] /\ \A i, j \in 1 .. n : i < j => ks[i] < ks[j]
  BY <1>2 DEF Ordered
<1>4. ASSUME NEW i \in 1 .. n, NEW j \in 1 .. n, ks[i] = ks[j] PROVE i = j
  <2> HIDE DEF n
  <2>1. ks[i] \in Int /\ ks[j] \in Int /\ i \in Int /\ j \in Int
    <3>1. ks[i] \in K /\ ks[j] \in K
      BY <1>3
    <3>2. i \in Int /\ j \in Int
      BY <1>1
    <3> QED BY <3>1, <3>2
  <2>2. ~(ks[i] < ks[j]) /\ ~(ks[j] < ks[i])
    BY <1>4, <2>1
  <2>3. ~(i < j) /\ ~(j < i)
    BY <1>3, <2>2
  <2> QED BY <2>1, <2>3
<1>5. ks \in Surjection(1 .. n, K)
  <2>1. ks \in Injection(1 .. n, K)
    BY <1>3, <1>4 DEF Injection, IsInjective
  <2>2. Cardinality(1 .. n) = n
    <3> HIDE DEF n
    <3>1. 1 \in Int /\ n \in Int
      BY <1>1
    <3>2. Cardinality(1 .. n) = IF 1 > n THEN 0 ELSE n - 1 + 1
      BY <3>1, FS_Interval
    <3> QED BY <1>1, <3>2
  <2> QED BY <2>1, <2>2, FS_Injection
<1>6. \A k \in K : \E i \in 1 .. n : ks[i] = k
  BY <1>5 DEF Surjection
<1> QED BY <1>1, <1>3, <1>4, <1>6 DEF ks

-----------------------------------------------------------------------------
(* One argument: a value, a vector or a map *)

\* The types of arguments and results; the keys of a map are integers.
IsType(t) == \/ \E s \in Scalars : t = <<s>>
             \/ \E s \in Scalars : t = <<"vector", s>>
             \/ \E k \in DOMAIN Widths, s \in Scalars : t = <<"map", k, s>>

\* The values of a type.  A size is an unsigned int.
FitsType(t, v) ==
  CASE t[1] = "vector" -> /\ Len(v) \in Nat /\ v = [i \in 1 .. Len(v) |-> v[i]] /\ Len(v) < Word
                          /\ \A i \in 1 .. Len(v) : Fits(t[2], v[i])
    [] t[1] = "map"    -> /\ IsFiniteSet(DOMAIN v) /\ v = [k \in DOMAIN v |-> v[k]]
                          /\ Cardinality(DOMAIN v) < Word
                          /\ \A k \in DOMAIN v : Fits(t[2], k) /\ Fits(t[3], v[k])
    [] OTHER           -> Fits(t[1], v)

\* The number of elements, and the values that follow it.
Count(t, v) == IF t[1] = "vector" THEN Len(v) ELSE Cardinality(DOMAIN v)
Parts(t, v) == IF t[1] = "vector" THEN v ELSE Flat(v)

\* A type is that of a scalar, a vector of scalars, or a map of integers to scalars.
LEMMA TypeCases ==
  ASSUME NEW t, IsType(t)
  PROVE  \/ t[1] \in Scalars /\ t[1] \notin {"vector", "map"}
         \/ t[1] = "vector" /\ t[2] \in Scalars
         \/ t[1] = "map" /\ t[2] \in DOMAIN Widths /\ t[2] \in Scalars /\ t[3] \in Scalars
<1>1. "vector" \notin Scalars /\ "map" \notin Scalars
  BY WidthsAre DEF Scalars
<1>2. CASE \E s \in Scalars : t = <<s>>
  BY <1>1, <1>2
<1>3. CASE \E s \in Scalars : t = <<"vector", s>>
  BY <1>3
<1>4. CASE \E k \in DOMAIN Widths, s \in Scalars : t = <<"map", k, s>>
  BY <1>4 DEF Scalars
<1> QED BY <1>2, <1>3, <1>4 DEF IsType

\* Halves.
LEMMA Halves ==
  ASSUME NEW n \in Nat, NEW i \in 1 .. 2 * n
  PROVE  IF i % 2 = 1 THEN (i + 1) \div 2 \in 1 .. n /\ i = 2 * ((i + 1) \div 2) - 1
                      ELSE i \div 2 \in 1 .. n /\ i = 2 * (i \div 2)
  OBVIOUS

\* The keys and values of a map in turn, and back.
LEMMA FlatIs ==
  ASSUME NEW t, IsType(t), t[1] = "map", NEW v, FitsType(t, v)
  PROVE  LET n == Cardinality(DOMAIN v) IN
         /\ n \in Nat /\ Len(Flat(v)) = 2 * n /\ Flat(v) = [i \in 1 .. 2 * n |-> Flat(v)[i]]
         /\ \A i \in 1 .. n : /\ Flat(v)[2 * i - 1] \in DOMAIN v
                              /\ Flat(v)[2 * i] = v[Flat(v)[2 * i - 1]]
         /\ \A i, j \in 1 .. n : Flat(v)[2 * i - 1] = Flat(v)[2 * j - 1] => i = j
         /\ \A k \in DOMAIN v : \E i \in 1 .. n : Flat(v)[2 * i - 1] = k
<1> DEFINE K == DOMAIN v
           n == Cardinality(K)
           ks == InOrder(K)
           M == Pow[Widths[t[2]]]
<1>1. t[2] \in DOMAIN Widths
  BY TypeCases
<1>2. IsFiniteSet(K) /\ \A k \in K : Fits(t[2], k)
  BY DEF FitsType
<1>3. \A k \in K : k \in Int /\ k < M
  BY <1>1, <1>2, FitsRange
<1>4. M \in Int
  <2>1. Widths[t[2]] \in 0 .. 8
    BY <1>1, WidthsAre
  <2> QED BY <2>1, PowIs
<1>5. /\ n \in Nat
      /\ ks \in [1 .. n -> K]
      /\ \A i, j \in 1 .. n : ks[i] = ks[j] => i = j
      /\ \A k \in K : \E i \in 1 .. n : ks[i] = k
  <2>1. K \in SUBSET Int /\ \A x \in K : x < M
    BY <1>3
  <2> HIDE DEF K, M
  <2> QED BY <1>2, <1>4, <2>1, InOrderIs
<1> DEFINE e(i) == IF i % 2 = 1 THEN ks[(i + 1) \div 2] ELSE v[ks[i \div 2]]
<1>6. Len(ks) = n
  BY <1>5
<1>7. Flat(v) = [i \in 1 .. 2 * n |-> e(i)]
  <2>1. Flat(v) = [i \in 1 .. 2 * Len(ks) |-> e(i)]
    BY DEF Flat
  <2> HIDE DEF e, ks
  <2> QED BY <1>6, <2>1
<1> DEFINE s == Flat(v)
<1> HIDE DEF ks, n, K, s
<1>8. 2 * n \in Nat /\ Len(s) = 2 * n /\ s = [i \in 1 .. 2 * n |-> s[i]] /\ \A i \in 1 .. 2 * n : s[i] = e(i)
  <2>1. 2 * n \in Nat
    BY <1>5
  <2>2. s = [i \in 1 .. 2 * n |-> e(i)]
    BY <1>7 DEF s
  <2> HIDE DEF e
  <2> QED BY <2>1, <2>2
<1>9. ASSUME NEW i \in 1 .. n PROVE s[2 * i - 1] = ks[i] /\ s[2 * i] = v[ks[i]]
  <2>1. /\ 2 * i - 1 \in 1 .. 2 * n /\ 2 * i \in 1 .. 2 * n
        /\ (2 * i - 1) % 2 = 1 /\ ((2 * i - 1) + 1) \div 2 = i
        /\ (2 * i) % 2 # 1 /\ (2 * i) \div 2 = i
    BY <1>5
  <2>2. e(2 * i - 1) = ks[i] /\ e(2 * i) = v[ks[i]]
    BY <2>1
  <2> HIDE DEF e
  <2> QED BY <1>8, <2>1, <2>2
<1>10. \A i \in 1 .. n : s[2 * i - 1] \in K /\ s[2 * i] = v[s[2 * i - 1]]
  BY <1>5, <1>9
<1>11. \A i, j \in 1 .. n : s[2 * i - 1] = s[2 * j - 1] => i = j
  BY <1>5, <1>9
<1>12. \A k \in K : \E i \in 1 .. n : s[2 * i - 1] = k
  BY <1>5, <1>9
<1> QED BY <1>5, <1>8, <1>10, <1>11, <1>12 DEF n, K, s

\* The keys and values in turn make the map again.
LEMMA UnflatIs ==
  ASSUME NEW t, IsType(t), t[1] = "map", NEW v, FitsType(t, v)
  PROVE  Unflat(Flat(v), Cardinality(DOMAIN v)) = v
<1> DEFINE K == DOMAIN v
           n == Cardinality(K)
           s == Flat(v)
<1>1. /\ n \in Nat
      /\ \A i \in 1 .. n : s[2 * i - 1] \in K /\ s[2 * i] = v[s[2 * i - 1]]
      /\ \A i, j \in 1 .. n : s[2 * i - 1] = s[2 * j - 1] => i = j
      /\ \A k \in K : \E i \in 1 .. n : s[2 * i - 1] = k
  BY FlatIs
<1>2. v = [k \in K |-> v[k]]
  BY DEF FitsType
<1> HIDE DEF K, n, s
<1>3. {s[2 * i - 1] : i \in 1 .. n} = K
  BY <1>1
<1>4. ASSUME NEW k \in K PROVE s[2 * Max({i \in 1 .. n : s[2 * i - 1] = k})] = v[k]
  <2>1. PICK i \in 1 .. n : s[2 * i - 1] = k
    BY <1>1
  <2>2. {j \in 1 .. n : s[2 * j - 1] = k} = {i}
    BY <1>1, <2>1
  <2>3. Max({i}) = i
    BY DEF Max
  <2> QED BY <1>1, <2>1, <2>2, <2>3
<1>5. Unflat(s, n) = [k \in K |-> s[2 * Max({i \in 1 .. n : s[2 * i - 1] = k})]]
  BY <1>3 DEF Unflat
<1>6. Unflat(s, n) = [k \in K |-> v[k]]
  BY <1>4, <1>5
<1> QED BY <1>2, <1>6 DEF n, K, s

\* The elements of a vector or of a map are values of their types.
LEMMA PartsListed ==
  ASSUME NEW t, IsType(t), t[1] \in {"vector", "map"}, NEW v, FitsType(t, v)
  PROVE  /\ Listed(Elements(t, Count(t, v)), Parts(t, v))
         /\ Count(t, v) \in Nat /\ Count(t, v) < Word
<1>1. CASE t[1] = "vector"
  <2> DEFINE n == Len(v)
             ts == Elements(t, n)
  <2>1. t[2] \in Scalars /\ t[1] # "map"
    BY <1>1, TypeCases
  <2>2. n \in Nat /\ v = [i \in 1 .. n |-> v[i]] /\ n < Word /\ \A i \in 1 .. n : Fits(t[2], v[i])
    BY <1>1, <2>1 DEF FitsType
  <2>3. Count(t, v) = n /\ Parts(t, v) = v
    BY <1>1 DEF Count, Parts
  <2>4. ts = [i \in 1 .. n |-> t[2]]
    BY <1>1 DEF Elements
  <2> HIDE DEF ts
  <2>5. Len(ts) = n
    <3> HIDE DEF n
    <3> QED BY <2>2, <2>4
  <2>6. \A i \in 1 .. n : ts[i] = t[2]
    BY <2>4
  <2>7. Listed(ts, v)
    BY <2>1, <2>2, <2>5, <2>6 DEF Listed
  <2> QED BY <2>2, <2>3, <2>7 DEF ts
<1>2. CASE t[1] = "map"
  <2> DEFINE n == Cardinality(DOMAIN v)
             s == Flat(v)
             ts == Elements(t, n)
  <2>1. t[2] \in Scalars /\ t[3] \in Scalars /\ t[1] # "vector"
    BY <1>2, TypeCases
  <2>2. /\ n \in Nat /\ Len(s) = 2 * n /\ s = [i \in 1 .. 2 * n |-> s[i]]
        /\ \A i \in 1 .. n : s[2 * i - 1] \in DOMAIN v /\ s[2 * i] = v[s[2 * i - 1]]
    BY <1>2, FlatIs
  <2>3. n < Word /\ \A k \in DOMAIN v : Fits(t[2], k) /\ Fits(t[3], v[k])
    BY <1>2, <2>1 DEF FitsType
  <2>4. Count(t, v) = n /\ Parts(t, v) = s
    BY <1>2 DEF Count, Parts
  <2>5. ts = [i \in 1 .. 2 * n |-> IF i % 2 = 1 THEN t[2] ELSE t[3]]
    BY <2>1 DEF Elements
  <2> HIDE DEF ts, s, n
  <2>6. 2 * n \in Nat
    BY <2>2
  <2>7. Len(ts) = 2 * n /\ \A i \in 1 .. 2 * n : ts[i] = IF i % 2 = 1 THEN t[2] ELSE t[3]
    BY <2>5, <2>6
  <2>8. ASSUME NEW i \in 1 .. 2 * n PROVE ts[i] \in Scalars /\ Fits(ts[i], s[i])
    <3>1. CASE i % 2 = 1
      <4> DEFINE j == (i + 1) \div 2
      <4>1. j \in 1 .. n /\ i = 2 * j - 1
        BY <2>2, <3>1, Halves
      <4> HIDE DEF j
      <4>2. s[i] \in DOMAIN v
        BY <2>2, <4>1
      <4> QED BY <2>1, <2>3, <2>7, <3>1, <4>2
    <3>2. CASE i % 2 # 1
      <4> DEFINE j == i \div 2
      <4>1. j \in 1 .. n /\ i = 2 * j
        BY <2>2, <3>2, Halves
      <4> HIDE DEF j
      <4>2. s[2 * j - 1] \in DOMAIN v /\ s[i] = v[s[2 * j - 1]]
        BY <2>2, <4>1
      <4> QED BY <2>1, <2>3, <2>7, <3>2, <4>2
    <3> QED BY <3>1, <3>2
  <2>9. Listed(ts, s)
    BY <2>2, <2>6, <2>7, <2>8 DEF Listed
  <2> QED BY <2>2, <2>3, <2>4, <2>9 DEF ts
<1> QED BY <1>1, <1>2

\* operator<< of a vector or a map: the number of elements, then the elements.
LEMMA PutParts ==
  ASSUME NEW m, NEW t, t[1] \in {"vector", "map"}, NEW v
  PROVE  Put(m, t, v) = PutAll(PutInt(m, Count(t, v), 4), Elements(t, Count(t, v)), Parts(t, v))
<1>1. CASE t[1] = "vector"
  BY <1>1 DEF Put, Count, Parts
<1>2. CASE t[1] = "map"
  BY <1>2 DEF Put, Count, Parts
<1> QED BY <1>1, <1>2

\* operator<< of anything else writes the value alone.
LEMMA PutOne ==
  ASSUME NEW m, NEW t, t[1] \notin {"vector", "map"}, NEW v
  PROVE  Put(m, t, v) = PutScalar(m, t[1], v)
<1>1. t[1] # "vector" /\ t[1] # "map"
  OBVIOUS
<1> QED BY <1>1 DEF Put

\* The number of elements goes first.
LEMMA PutCount ==
  ASSUME NEW m, Obj(m), NEW x \in Nat
  PROVE  Wrote(m, PutInt(m, x, 4), 4) /\ Obj(PutInt(m, x, 4))
<1>1. 4 \in 1 .. 8
  OBVIOUS
<1>2. Wrote(m, PutInt(m, x, 4), 4)
  BY <1>1, PutIntIs
<1> QED BY <1>2 DEF Wrote

\* Every argument takes at least a byte.
LEMMA PutIs ==
  ASSUME NEW m, Obj(m), NEW t, IsType(t), NEW v, FitsType(t, v)
  PROVE  \E c \in Nat \ {0} : Wrote(m, Put(m, t, v), c)
<1>1. CASE t[1] \in {"vector", "map"}
  <2> DEFINE n == Count(t, v)
             m1 == PutInt(m, n, 4)
             m2 == PutAll(m1, Elements(t, n), Parts(t, v))
  <2>1. Listed(Elements(t, n), Parts(t, v)) /\ n \in Nat
    BY <1>1, PartsListed
  <2>2. Put(m, t, v) = m2
    BY <1>1, PutParts
  <2>3. Wrote(m, m1, 4) /\ Obj(m1)
    BY <2>1, PutCount
  <2>4. More(m1, m2)
    <3> HIDE DEF m1, n
    <3> QED BY <2>1, <2>3, PutAllIs
  <2> HIDE DEF m1, m2
  <2>5. PICK c \in Nat : Wrote(m1, m2, c)
    BY <2>4 DEF More
  <2>6. Wrote(m, m2, 4 + c) /\ 4 + c \in Nat \ {0}
    BY <2>3, <2>5, WroteTwice
  <2> QED BY <2>2, <2>6
<1>2. CASE t[1] \notin {"vector", "map"}
  <2>1. t[1] \in Scalars
    BY <1>2, TypeCases
  <2>2. Fits(t[1], v)
    BY <1>2 DEF FitsType
  <2>3. Put(m, t, v) = PutScalar(m, t[1], v)
    BY <1>2, PutOne
  <2> QED BY <2>1, <2>2, <2>3, PutScalarIs
<1> QED BY <1>1, <1>2

\* An argument is read back as it was written.
LEMMA TypeExchange ==
  ASSUME NEW m, Obj(m), NEW t, IsType(t), NEW v, FitsType(t, v),
         NEW b \in Seq(Int), Len(b) < Word, Holds(b, m, Put(m, t, v))
  PROVE  Get(U(b, m.ind, Yes), t) = [v |-> v, u |-> U(b, Put(m, t, v).ind, Yes)]
<1>1. CASE t[1] \in {"vector", "map"}
  <2> DEFINE n == Count(t, v)
             m1 == PutInt(m, n, 4)
             ts == Elements(t, n)
             m2 == PutAll(m1, ts, Parts(t, v))
  <2>1. Listed(ts, Parts(t, v)) /\ n \in Nat /\ n < Word
    BY <1>1, PartsListed
  <2>2. Put(m, t, v) = m2
    BY <1>1, PutParts
  <2>3. Wrote(m, m1, 4) /\ Obj(m1)
    BY <2>1, PutCount
  <2>4. More(m1, m2)
    <3> HIDE DEF m1, ts
    <3> QED BY <2>1, <2>3, PutAllIs
  <2>5. Holds(b, m, m1) /\ Holds(b, m1, m2)
    <3>1. Holds(b, m, m2)
      BY <2>2
    <3> HIDE DEF m1, m2
    <3>2. PICK c \in Nat : Wrote(m1, m2, c)
      BY <2>4 DEF More
    <3> QED BY <2>3, <3>1, <3>2, HoldsBoth
  <2> HIDE DEF n
  <2>6. GetInt(U(b, m.ind, Yes), 4) = [v |-> n, u |-> U(b, m1.ind, Yes)]
    <3>1. 4 \in 1 .. 8 /\ ~(n < 0) /\ n \in Int
      BY <2>1
    <3>2. -Pow[4] <= n /\ n < Pow[4]
      <4>1. Pow[4] \in Nat
        BY PowIs
      <4> QED BY <2>1, <4>1 DEF Word
    <3>3. GetInt(U(b, m.ind, Yes), 4) = [v |-> Unsigned(n, 4), u |-> U(b, m1.ind, Yes)]
      BY <2>5, <3>1, <3>2, IntExchange
    <3> HIDE DEF m1
    <3> QED BY <3>1, <3>3 DEF Unsigned
  <2>7. GetAll(U(b, m1.ind, Yes), ts) = [v |-> Parts(t, v), u |-> U(b, m2.ind, Yes)]
    <3> HIDE DEF m1, ts
    <3> QED BY <2>1, <2>3, <2>5, AllExchange
  <2> HIDE DEF m1, m2
  <2>8. CASE t[1] = "vector"
    <3>1. Get(U(b, m.ind, Yes), t) = [v |-> Parts(t, v), u |-> U(b, m2.ind, Yes)]
      BY <2>6, <2>7, <2>8 DEF Get
    <3>2. Parts(t, v) = v
      BY <2>8 DEF Parts
    <3> QED BY <2>2, <3>1, <3>2
  <2>9. CASE t[1] = "map"
    <3> DEFINE e == [v |-> Parts(t, v), u |-> U(b, m2.ind, Yes)]
    <3>1. Get(U(b, m.ind, Yes), t) = [e EXCEPT !.v = Unflat(e.v, n)]
      BY <2>6, <2>7, <2>9 DEF Get
    <3>2. Parts(t, v) = Flat(v) /\ n = Cardinality(DOMAIN v)
      BY <2>9 DEF Parts, Count, n
    <3>3. Unflat(Flat(v), Cardinality(DOMAIN v)) = v
      BY <2>9, UnflatIs
    <3>4. Unflat(e.v, n) = v
      BY <3>2, <3>3
    <3>5. [e EXCEPT !.v = v] = [v |-> v, u |-> U(b, m2.ind, Yes)]
      OBVIOUS
    <3> HIDE DEF e
    <3> QED BY <2>2, <3>1, <3>4, <3>5
  <2> QED BY <1>1, <2>8, <2>9
<1>2. CASE t[1] \notin {"vector", "map"}
  <2>1. t[1] \in Scalars /\ t[1] # "vector" /\ t[1] # "map"
    BY <1>2, TypeCases
  <2>2. Fits(t[1], v)
    BY <2>1 DEF FitsType
  <2>3. Put(m, t, v) = PutScalar(m, t[1], v)
    BY <1>2, PutOne
  <2>4. Get(U(b, m.ind, Yes), t) = GetScalar(U(b, m.ind, Yes), t[1])
    BY <2>1 DEF Get
  <2> QED BY <2>1, <2>2, <2>3, <2>4, ScalarExchange
<1> QED BY <1>1, <1>2

\* At the end of the buffer nothing can be read, whatever it should be.
LEMMA TypeAtEnd ==
  ASSUME NEW b \in Seq(Int), NEW o, NEW t, IsType(t)
  PROVE  Get(U(b, Len(b), o), t).u = U(b, Len(b), No)
<1>1. CASE t[1] \in {"vector", "map"}
  <2>1. GetInt(U(b, Len(b), o), 4) = [v |-> 0, u |-> U(b, Len(b), No)]
    <3>1. Len(b) \in 0 .. Len(b) /\ 4 \in 1 .. 8
      OBVIOUS
    <3> QED BY <3>1, GetIntMoves
  <2> DEFINE u1 == U(b, Len(b), No)
             ts == Elements(t, 0)
  <2>2. Len(ts) = 0
    BY DEF Elements
  <2> HIDE DEF ts, u1
  <2>3. GetAll(u1, ts) = [v |-> <<>>, u |-> u1]
    <3>1. Len(ts) \in Nat
      BY <2>2
    <3>2. PICK f : f[0] = [v |-> <<>>, u |-> u1] /\ GetAll(u1, ts) = f[Len(ts)]
      BY <3>1, GetAllTurns
    <3> QED BY <2>2, <3>2
  <2>4. CASE t[1] = "vector"
    <3>1. Get(U(b, Len(b), o), t) = GetAll(u1, ts)
      BY <2>1, <2>4 DEF Get, ts, u1
    <3> QED BY <2>3, <3>1 DEF u1
  <2>5. CASE t[1] = "map"
    <3> DEFINE e == GetAll(u1, ts)
    <3>1. Get(U(b, Len(b), o), t) = [e EXCEPT !.v = Unflat(e.v, 0)]
      BY <2>1, <2>5 DEF Get, ts, u1
    <3>2. e = [v |-> <<>>, u |-> u1]
      BY <2>3
    <3> HIDE DEF e
    <3>3. [e EXCEPT !.v = Unflat(e.v, 0)].u = u1
      BY <3>2
    <3> QED BY <3>1, <3>3 DEF u1
  <2> QED BY <1>1, <2>4, <2>5
<1>2. CASE t[1] \notin {"vector", "map"}
  <2>1. t[1] \in Scalars /\ t[1] # "vector" /\ t[1] # "map"
    BY <1>2, TypeCases
  <2>2. Get(U(b, Len(b), o), t) = GetScalar(U(b, Len(b), o), t[1])
    BY <2>1 DEF Get
  <2> QED BY <2>1, <2>2, ScalarAtEnd
<1> QED BY <1>1, <1>2

-----------------------------------------------------------------------------
(* The arguments of a call *)

\* Arguments that fit their signature.
SigFits(sig, args) ==
  /\ Len(sig) \in Nat /\ args = [i \in 1 .. Len(sig) |-> args[i]]
  /\ \A i \in 1 .. Len(sig) : IsType(sig[i]) /\ FitsType(sig[i], args[i])

\* f is the buffer after every argument.
PutTurns(f, m, sig, args) ==
  /\ f[0] = m
  /\ \A i \in 1 .. Len(sig) : f[i] = Put(f[i - 1], sig[i], args[i])
  /\ PutArgs(m, sig, args) = f[Len(sig)]

\* The turns of PutArgs and of GetArgs.
LEMMA PutArgsTurns ==
  ASSUME NEW m, NEW sig, NEW args, Len(sig) \in Nat
  PROVE  \E f : PutTurns(f, m, sig, args)
<1> DEFINE n == Len(sig)
           Is(g, k) == g = [i \in 0 .. k |-> IF i = 0 THEN m ELSE Put(g[i - 1], sig[i], args[i])]
           T == {k \in 0 .. n : \E g : Is(g, k)}
           put == CHOOSE g : Is(g, n)
<1>0. PutArgs(m, sig, args) = put[n]
  BY DEF PutArgs
<1> HIDE DEF n, put
<1>1. n \in Nat
  BY DEF n
<1>2. 0 \in T
  <2>1. Is([i \in 0 .. 0 |-> m], 0)
    OBVIOUS
  <2> HIDE DEF Is
  <2> QED BY <1>1, <2>1
<1>3. ASSUME NEW k \in 1 .. n, k - 1 \in T PROVE k \in T
  <2>1. PICK g : Is(g, k - 1)
    BY <1>3
  <2> DEFINE h == [i \in 0 .. k |-> IF i = 0 THEN m ELSE Put(g[i - 1], sig[i], args[i])]
  <2>2. \A i \in 0 .. k - 1 : h[i] = g[i]
    BY <1>1, <2>1
  <2>3. Is(h, k)
    <3>1. \A i \in 0 .. k : i # 0 => h[i - 1] = g[i - 1]
      <4> HIDE DEF h
      <4> QED BY <1>1, <2>2
    <3> QED BY <3>1
  <2> HIDE DEF Is, h
  <2> QED BY <1>1, <2>3
<1>4. \E g : Is(g, n)
  <2>1. \A i \in 0 .. n : i \in T
    <3> HIDE DEF T
    <3> QED BY <1>1, <1>2, <1>3, UpTo
  <2> HIDE DEF Is
  <2> QED BY <1>1, <2>1
<1>5. Is(put, n)
  <2> HIDE DEF Is
  <2> QED BY <1>4 DEF put
<1>6. put[0] = m /\ \A i \in 1 .. n : put[i] = Put(put[i - 1], sig[i], args[i])
  BY <1>1, <1>5
<1>7. PutTurns(put, m, sig, args)
  BY <1>0, <1>6 DEF n, PutTurns
<1> QED BY <1>7

\* f is what has been read before every argument.
GetTurns(f, u, sig) ==
  /\ f[0] = [v |-> <<>>, u |-> u]
  /\ \A i \in 1 .. Len(sig) : f[i] = GetArg(f[i - 1], sig[i])
  /\ GetArgs(u, sig) = f[Len(sig)]

\* The turns of GetArgs.
LEMMA GetArgsTurns ==
  ASSUME NEW u, NEW sig, Len(sig) \in Nat
  PROVE  \E f : GetTurns(f, u, sig)
<1> DEFINE n == Len(sig)
           Is(g, k) == g = [i \in 0 .. k |-> IF i = 0 THEN [v |-> <<>>, u |-> u] ELSE GetArg(g[i - 1], sig[i])]
           T == {k \in 0 .. n : \E g : Is(g, k)}
           got == CHOOSE g : Is(g, n)
<1>0. GetArgs(u, sig) = got[n]
  BY DEF GetArgs
<1> HIDE DEF n, got
<1>1. n \in Nat
  BY DEF n
<1>2. 0 \in T
  <2>1. Is([i \in 0 .. 0 |-> [v |-> <<>>, u |-> u]], 0)
    OBVIOUS
  <2> HIDE DEF Is
  <2> QED BY <1>1, <2>1
<1>3. ASSUME NEW k \in 1 .. n, k - 1 \in T PROVE k \in T
  <2>1. PICK g : Is(g, k - 1)
    BY <1>3
  <2> DEFINE h == [i \in 0 .. k |-> IF i = 0 THEN [v |-> <<>>, u |-> u] ELSE GetArg(g[i - 1], sig[i])]
  <2>2. \A i \in 0 .. k - 1 : h[i] = g[i]
    BY <1>1, <2>1
  <2>3. Is(h, k)
    <3>1. \A i \in 0 .. k : i # 0 => h[i - 1] = g[i - 1]
      <4> HIDE DEF h
      <4> QED BY <1>1, <2>2
    <3> QED BY <3>1
  <2> HIDE DEF Is, h
  <2> QED BY <1>1, <2>3
<1>4. \E g : Is(g, n)
  <2>1. \A i \in 0 .. n : i \in T
    <3> HIDE DEF T
    <3> QED BY <1>1, <1>2, <1>3, UpTo
  <2> HIDE DEF Is
  <2> QED BY <1>1, <2>1
<1>5. Is(got, n)
  <2> HIDE DEF Is
  <2> QED BY <1>4 DEF got
<1>6. got[0] = [v |-> <<>>, u |-> u] /\ \A i \in 1 .. n : got[i] = GetArg(got[i - 1], sig[i])
  BY <1>1, <1>5
<1>7. GetTurns(got, u, sig)
  BY <1>0, <1>6 DEF n, GetTurns
<1> QED BY <1>7

\* and it grows with each of them.
Puts(f, m, sig, args) ==
  /\ f[0] = m /\ Steps(f, Len(sig))
  /\ \A i \in 1 .. Len(sig) : f[i] = Put(f[i - 1], sig[i], args[i]) /\ f[i - 1].ind < f[i].ind

\* PutArgs as a row of writes, one argument each.
LEMMA PutArgsSteps ==
  ASSUME NEW m, Obj(m), NEW sig, NEW args, SigFits(sig, args)
  PROVE  \E f : Puts(f, m, sig, args) /\ PutArgs(m, sig, args) = f[Len(sig)]
<1>a. Len(sig) \in Nat
  BY DEF SigFits
<1>b. PICK f : PutTurns(f, m, sig, args)
  BY <1>a, PutArgsTurns
<1> DEFINE n == Len(sig)
<1>1. n \in Nat
  BY <1>a
<1>2. /\ f[0] = m
      /\ \A i \in 1 .. n : f[i] = Put(f[i - 1], sig[i], args[i])
      /\ PutArgs(m, sig, args) = f[n]
  BY <1>b DEF PutTurns
<1>3. \A i \in 1 .. n : IsType(sig[i]) /\ FitsType(sig[i], args[i])
  BY DEF SigFits
<1> HIDE DEF n
<1>4. ASSUME NEW i \in 1 .. n, Obj(f[i - 1]) PROVE More(f[i - 1], f[i]) /\ f[i - 1].ind < f[i].ind
  <2>1. PICK c \in Nat \ {0} : Wrote(f[i - 1], f[i], c)
    BY <1>2, <1>3, <1>4, PutIs
  <2>2. f[i].ind = f[i - 1].ind + c /\ f[i - 1].ind \in Nat
    BY <1>4, <2>1 DEF Wrote, Obj
  <2>3. f[i - 1].ind < f[i].ind
    BY <2>2
  <2> QED BY <2>1, <2>3 DEF More
<1>5. Steps(f, n)
  BY <1>1, <1>2, <1>4 DEF Steps
<1>6. ASSUME NEW i \in 1 .. n PROVE f[i - 1].ind < f[i].ind
  <2>1. i - 1 \in 0 .. n
    BY <1>1
  <2>2. Obj(f[i - 1])
    BY <1>5, <2>1, Chain
  <2> QED BY <1>4, <2>2
<1>7. Puts(f, m, sig, args)
  BY <1>2, <1>5, <1>6 DEF Puts, n
<1> QED BY <1>2, <1>7 DEF n

\* g is what has been read after each of the first k arguments.
GotTo(g, u, sig, k) ==
  g[0] = [v |-> <<>>, u |-> u] /\ \A i \in 1 .. k : g[i] = GetArg(g[i - 1], sig[i])

\* What has been read after the first k arguments: them, up to where they were written.
ReadTo(b, f, args, k) == [v |-> [j \in 1 .. k |-> args[j]], u |-> U(b, f[k].ind, Yes)]

\* The first k arguments are read back as they were written.
LEMMA ArgsRead ==
  ASSUME NEW m, Obj(m), NEW sig, NEW args, SigFits(sig, args), NEW f, Puts(f, m, sig, args),
         NEW b \in Seq(Int), Len(b) < Word, Holds(b, m, f[Len(sig)]),
         NEW k \in 0 .. Len(sig), NEW g, GotTo(g, U(b, m.ind, Yes), sig, k)
  PROVE  g[k] = ReadTo(b, f, args, k)
<1> DEFINE n == Len(sig)
<1>1. n \in Nat /\ k \in Nat /\ k <= n
  BY DEF SigFits
<1>2. f[0] = m /\ Steps(f, n) /\ \A i \in 1 .. n : f[i] = Put(f[i - 1], sig[i], args[i])
  BY DEF Puts
<1>3. \A i \in 1 .. n : IsType(sig[i]) /\ FitsType(sig[i], args[i])
  BY DEF SigFits
<1>4. Holds(b, f[0], f[n])
  BY <1>2
<1> HIDE DEF n
<1>5. \A i \in 0 .. n : Obj(f[i])
  BY <1>2, Chain
<1>6. \A i \in 1 .. n : Holds(b, f[i - 1], f[i])
  BY <1>2, <1>4, ChainHolds
<1> DEFINE Pre(i) == [j \in 1 .. i |-> args[j]]
           P == {i \in 0 .. k : g[i] = [v |-> Pre(i), u |-> U(b, f[i].ind, Yes)]}
<1>g. g[0] = [v |-> <<>>, u |-> U(b, m.ind, Yes)] /\ \A i \in 1 .. k : g[i] = GetArg(g[i - 1], sig[i])
  BY DEF GotTo
<1>7. 0 \in P
  <2>1. Pre(0) = <<>>
    OBVIOUS
  <2> HIDE DEF Pre
  <2> QED BY <1>1, <1>2, <1>g, <2>1
<1>8. ASSUME NEW i \in 1 .. k, i - 1 \in P PROVE i \in P
  <2>1. i \in Nat \ {0} /\ i - 1 \in 0 .. n /\ i \in 1 .. n
    BY <1>1
  <2>2. Append(Pre(i - 1), args[i]) = Pre(i)
    BY <2>1, AppendNext
  <2> HIDE DEF Pre
  <2>3. g[i - 1] = [v |-> Pre(i - 1), u |-> U(b, f[i - 1].ind, Yes)] /\ g[i] = GetArg(g[i - 1], sig[i])
    BY <1>8, <1>g
  <2>4. Get(U(b, f[i - 1].ind, Yes), sig[i]) = [v |-> args[i], u |-> U(b, f[i].ind, Yes)]
    <3>1. Obj(f[i - 1]) /\ f[i] = Put(f[i - 1], sig[i], args[i]) /\ Holds(b, f[i - 1], f[i])
          /\ IsType(sig[i]) /\ FitsType(sig[i], args[i])
      BY <1>2, <1>3, <1>5, <1>6, <2>1
    <3> QED BY <3>1, TypeExchange
  <2>5. g[i] = [v |-> Pre(i), u |-> U(b, f[i].ind, Yes)]
    <3>1. \A a, t : GetArg(a, t) = [v |-> Append(a.v, Get(a.u, t).v), u |-> Get(a.u, t).u]
      BY DEF GetArg, Add
    <3>2. g[i] = [v |-> Append(g[i - 1].v, Get(g[i - 1].u, sig[i]).v),
                  u |-> Get(g[i - 1].u, sig[i]).u]
      BY <2>3, <3>1
    <3>3. g[i - 1].v = Pre(i - 1) /\ g[i - 1].u = U(b, f[i - 1].ind, Yes)
      BY <2>3
    <3>4. Get(g[i - 1].u, sig[i]) = [v |-> args[i], u |-> U(b, f[i].ind, Yes)]
      BY <2>4, <3>3
    <3>5. Get(g[i - 1].u, sig[i]).v = args[i] /\ Get(g[i - 1].u, sig[i]).u = U(b, f[i].ind, Yes)
      BY <3>4
    <3>6. Append(g[i - 1].v, args[i]) = Pre(i)
      BY <2>2, <3>3
    <3> QED BY <3>2, <3>5, <3>6
  <2> QED BY <2>5
<1>9. \A i \in 0 .. k : i \in P
  <2> HIDE DEF P
  <2> QED BY <1>1, <1>7, <1>8, UpTo
<1>10. k \in 0 .. k
  BY <1>1
<1>11. g[k] = [v |-> Pre(k), u |-> U(b, f[k].ind, Yes)]
  BY <1>9, <1>10
<1> QED BY <1>11 DEF ReadTo

-----------------------------------------------------------------------------
(* The headers, and the exchange *)

\* A header ends before what follows it.
LEMMA InFront ==
  ASSUME NEW a \in 0 .. 24, NEW c \in Nat, c >= 24
  PROVE  a <= c /\ \A i \in 4 + 1 .. a : i \in 1 .. c
  OBVIOUS

\* A header is packed in front of what the buffer has, and is read back.
LEMMA PackIs ==
  ASSUME NEW m, Obj(m), m.ind >= RPC_HEADER_SZ, NEW ts, NEW vs, Listed(ts, vs), Len(vs) <= 5,
         \A i \in 1 .. Len(vs) : Size(ts[i], vs[i]) <= 4
  PROVE  LET b == Sent(PackHeader(m, ts, vs)) IN
         /\ b \in Seq(Int) /\ Len(b) = m.ind
         /\ \A i \in RPC_HEADER_SZ + 1 .. m.ind : b[i] = m.buf[i]
         /\ Len(b) < Word => UnpackHeader(NewUnmarshall(b), ts) = [v |-> vs, u |-> U(b, RPC_HEADER_SZ, Yes)]
<1> DEFINE m1 == [m EXCEPT !.ind = 4]
           m2 == PutAll(m1, ts, vs)
           b == Sent(PackHeader(m, ts, vs))
<1>1. RPC_HEADER_SZ = 24
  BY DEF RPC_HEADER_SZ
<1>2. /\ m.ind \in Nat /\ m.ind >= 24 /\ m.ind <= Len(m.buf) /\ Len(m.buf) \in Nat /\ m.ind <= m.capa
      /\ m.buf \in Seq(Int) /\ m.capa \in Nat \ {0}
      /\ m = [buf |-> m.buf, capa |-> m.capa, ind |-> m.ind]
  BY <1>1 DEF Obj
<1>3. m1 = [buf |-> m.buf, capa |-> m.capa, ind |-> 4]
  BY <1>2
<1> HIDE DEF m1
<1>4. m1.buf = m.buf /\ m1.capa = m.capa /\ m1.ind = 4
  BY <1>3
<1>5. Obj(m1)
  BY <1>2, <1>3, <1>4 DEF Obj
<1>6. m2.ind <= 24 /\ More(m1, m2)
  <2>1. More(m1, m2) /\ m2.ind <= m1.ind + Len(vs) * 4
    <3>1. 4 \in Nat
      OBVIOUS
    <3> QED BY <1>5, <3>1, PutAllIs
  <2>2. Len(vs) \in Nat
    BY DEF Listed
  <2>3. m2.ind \in Int
    BY <2>1 DEF More, Wrote, Obj
  <2> HIDE DEF m2
  <2> QED BY <1>4, <2>1, <2>2, <2>3
<1> HIDE DEF m2
<1>7. PICK c \in Nat : Wrote(m1, m2, c)
  BY <1>6 DEF More
<1>8. /\ m2.buf \in Seq(Int) /\ m2.ind \in 0 .. 24 /\ m2.ind = 4 + c
      /\ Len(m2.buf) \in Nat /\ Len(m2.buf) >= m.ind
      /\ m2 = [buf |-> m2.buf, capa |-> m2.capa, ind |-> m2.ind]
      /\ \A i \in 1 .. Len(m.buf) : i > 24 => m2.buf[i] = m.buf[i]
  <2>1. /\ Obj(m2) /\ m2.ind = 4 + c
        /\ Len(m2.buf) = IF 4 + c > Len(m.buf) THEN 4 + c ELSE Len(m.buf)
        /\ \A i \in 1 .. Len(m.buf) : (i <= 4 \/ i > 4 + c) => m2.buf[i] = m.buf[i]
    BY <1>4, <1>7 DEF Wrote
  <2>2. m2.buf \in Seq(Int) /\ m2 = [buf |-> m2.buf, capa |-> m2.capa, ind |-> m2.ind]
    BY <2>1 DEF Obj
  <2>3. m2.ind \in 0 .. 24 /\ 4 + c <= 24
    BY <1>6, <2>1
  <2>4. Len(m2.buf) \in Nat /\ Len(m2.buf) >= m.ind
    BY <1>2, <2>1, <2>2
  <2>5. \A i \in 1 .. Len(m.buf) : i > 24 => m2.buf[i] = m.buf[i]
    BY <1>2, <2>1, <2>3
  <2> QED BY <2>1, <2>2, <2>3, <2>4, <2>5
<1>9. b = SubSeq(m2.buf, 1, m.ind)
  <2>1. PackHeader(m, ts, vs) = [m2 EXCEPT !.ind = m.ind]
    BY DEF PackHeader, m1, m2
  <2>2. [m2 EXCEPT !.ind = m.ind] = [buf |-> m2.buf, capa |-> m2.capa, ind |-> m.ind]
    <3>1. m2 = [buf |-> m2.buf, capa |-> m2.capa, ind |-> m2.ind]
      BY <1>8
    <3> QED BY <3>1
  <2>3. PackHeader(m, ts, vs).buf = m2.buf /\ PackHeader(m, ts, vs).ind = m.ind
    BY <2>1, <2>2
  <2> QED BY <2>3 DEF Sent
<1> HIDE DEF b
<1>10. b \in Seq(Int) /\ Len(b) = m.ind /\ \A i \in 1 .. m.ind : b[i] = m2.buf[i]
  <2> DEFINE l == m2.buf
             s == SubSeq(l, 0 + 1, m.ind)
  <2>1. l \in Seq(Int) /\ 0 \in 0 .. Len(l) /\ m.ind \in 0 .. Len(l)
    BY <1>2, <1>8
  <2>2. s \in Seq(Int) /\ Len(s) = m.ind - 0 /\ \A j \in 1 .. m.ind - 0 : s[j] = l[0 + j]
    <3> HIDE DEF l
    <3> QED BY <2>1, SubSeqIs
  <2>3. b = s /\ m.ind - 0 = m.ind /\ \A j \in 1 .. m.ind : 0 + j = j
    BY <1>2, <1>9
  <2> HIDE DEF s
  <2> QED BY <2>2, <2>3
<1>11. \A i \in 25 .. m.ind : b[i] = m.buf[i]
  <2> SUFFICES ASSUME NEW i \in 25 .. m.ind PROVE b[i] = m.buf[i]
    OBVIOUS
  <2>1. i \in 1 .. m.ind /\ i \in 1 .. Len(m.buf) /\ i > 24
    BY <1>2
  <2> QED BY <1>8, <1>10, <2>1
<1>12. ASSUME Len(b) < Word
       PROVE  UnpackHeader(NewUnmarshall(b), ts) = [v |-> vs, u |-> U(b, 24, Yes)]
  <2>1. Holds(b, m1, m2)
    <3>0. m2.ind \in 0 .. 24 /\ m.ind \in Nat /\ m.ind >= 24 /\ Len(b) = m.ind /\ m1.ind = 4
      BY <1>2, <1>4, <1>8, <1>10
    <3>1. m2.ind <= m.ind /\ \A i \in 4 + 1 .. m2.ind : i \in 1 .. m.ind
      BY <3>0, InFront
    <3>2. m2.ind <= Len(b) /\ \A i \in m1.ind + 1 .. m2.ind : i \in 1 .. m.ind
      BY <3>0, <3>1
    <3> QED BY <1>10, <3>2 DEF Holds
  <2>2. GetAll(U(b, m1.ind, Yes), ts) = [v |-> vs, u |-> U(b, m2.ind, Yes)]
    BY <1>5, <1>10, <1>12, <2>1, AllExchange DEF m2
  <2>3. NewUnmarshall(b) = U(b, 0, Yes)
    BY DEF NewUnmarshall, U, Yes
  <2> DEFINE x == U(b, 0, Yes)
             e == GetAll([x EXCEPT !.ind = 4], ts)
  <2>4. [x EXCEPT !.ind = 4] = U(b, 4, Yes)
    BY UIs
  <2> HIDE DEF x
  <2>5. e = [v |-> vs, u |-> U(b, m2.ind, Yes)]
    BY <1>4, <2>2, <2>4
  <2>6. UnpackHeader(NewUnmarshall(b), ts) = [e EXCEPT !.u.ind = RPC_HEADER_SZ]
    BY <2>3 DEF UnpackHeader, x
  <2> HIDE DEF e
  <2>7. [e EXCEPT !.u.ind = RPC_HEADER_SZ] = [v |-> vs, u |-> [U(b, m2.ind, Yes) EXCEPT !.ind = RPC_HEADER_SZ]]
    BY <2>5
  <2>8. [U(b, m2.ind, Yes) EXCEPT !.ind = RPC_HEADER_SZ] = U(b, RPC_HEADER_SZ, Yes)
    BY UIs
  <2> QED BY <1>1, <2>6, <2>7, <2>8
<1> QED BY <1>1, <1>10, <1>11, <1>12 DEF b

\* A new marshall object has its write head behind the header.
LEMMA NewIs ==
  Obj(NewMarshall) /\ NewMarshall.ind = RPC_HEADER_SZ /\ RPC_HEADER_SZ = 24
<1> DEFINE s == [i \in 1 .. 24 |-> Garbage]
<1>1. RPC_HEADER_SZ = 24 /\ Garbage = -1
  BY DEF RPC_HEADER_SZ, Garbage
<1>2. s \in Seq(Int) /\ Len(s) = 24
  BY <1>1
<1>3. NewMarshall = [buf |-> s, capa |-> DEFAULT_RPC_SZ, ind |-> 24]
  BY <1>1 DEF NewMarshall
<1>4. DEFAULT_RPC_SZ \in Nat /\ DEFAULT_RPC_SZ >= 24
  BY <1>1, SizesAssumption
<1> HIDE DEF s
<1>5. NewMarshall.buf = s /\ NewMarshall.capa = DEFAULT_RPC_SZ /\ NewMarshall.ind = 24
      /\ NewMarshall = [buf |-> NewMarshall.buf, capa |-> NewMarshall.capa, ind |-> NewMarshall.ind]
  BY <1>3
<1>6. NewMarshall.buf \in Seq(Int) /\ NewMarshall.ind \in 0 .. Len(NewMarshall.buf)
  <2>1. NewMarshall.buf \in Seq(Int) /\ Len(NewMarshall.buf) = 24 /\ NewMarshall.ind = 24
    <3>1. NewMarshall.buf = s /\ NewMarshall.ind = 24
      BY <1>5
    <3> QED BY <1>2, <3>1
  <2>2. 24 \in 0 .. 24
    OBVIOUS
  <2> QED BY <2>1, <2>2
<1>7. NewMarshall.capa \in Nat \ {0} /\ NewMarshall.ind <= NewMarshall.capa
  BY <1>4, <1>5
<1>8. Obj(NewMarshall)
  BY <1>5, <1>6, <1>7 DEF Obj
<1> QED BY <1>1, <1>5, <1>8

\* The fields of a header are in the ranges of their types.
Ints(h) == <<h.xid, h.proc, h.clt_nonce, h.srv_nonce, h.xid_rep>>

HeaderFits(h) ==
  /\ h = [xid |-> h.xid, proc |-> h.proc, clt_nonce |-> h.clt_nonce, srv_nonce |-> h.srv_nonce,
          xid_rep |-> h.xid_rep]
  /\ \A x \in {h.xid, h.proc, h.xid_rep} : Fits("int", x)
  /\ \A x \in {h.clt_nonce, h.srv_nonce} : Fits("uint", x)

\* The five fields of a request header are values of their types, of four bytes each.
LEMMA HeaderListed ==
  ASSUME NEW h, HeaderFits(h)
  PROVE  /\ Listed(ReqTypes, Ints(h)) /\ Len(Ints(h)) = 5
         /\ \A i \in 1 .. Len(Ints(h)) : Size(ReqTypes[i], Ints(h)[i]) <= 4
<1> DEFINE s == Ints(h)
           t == ReqTypes
<1>1. /\ Len(s) = 5 /\ Len(t) = 5
      /\ s[1] = h.xid /\ s[2] = h.proc /\ s[3] = h.clt_nonce /\ s[4] = h.srv_nonce /\ s[5] = h.xid_rep
      /\ t[1] = "int" /\ t[2] = "int" /\ t[3] = "uint" /\ t[4] = "uint" /\ t[5] = "int"
  BY DEF Ints, ReqTypes
<1>2. s = [i \in 1 .. Len(s) |-> s[i]]
  BY DEF Ints
<1>3. "int" \in Scalars /\ "uint" \in Scalars /\ "int" # "string" /\ "uint" # "string"
      /\ Widths["int"] = 4 /\ Widths["uint"] = 4
  BY WidthsAre DEF Scalars, Widths
<1>4. \A x : Size("int", x) = 4 /\ Size("uint", x) = 4
  BY <1>3 DEF Size
<1> HIDE DEF s, t
<1>5. ASSUME NEW i \in 1 .. 5 PROVE t[i] \in Scalars /\ Fits(t[i], s[i]) /\ Size(t[i], s[i]) = 4
  <2>1. i = 1 \/ i = 2 \/ i = 3 \/ i = 4 \/ i = 5
    OBVIOUS
  <2>2. Fits("int", h.xid) /\ Fits("int", h.proc) /\ Fits("int", h.xid_rep)
        /\ Fits("uint", h.clt_nonce) /\ Fits("uint", h.srv_nonce)
    BY DEF HeaderFits
  <2> QED BY <1>1, <1>3, <1>4, <2>1, <2>2
<1>6. Listed(t, s)
  <2>1. Len(s) \in Nat /\ Len(t) = Len(s) /\ 1 .. Len(s) = 1 .. 5
    BY <1>1
  <2> QED BY <1>2, <1>5, <2>1 DEF Listed
<1>7. \A i \in 1 .. Len(s) : Size(t[i], s[i]) <= 4
  <2>1. 4 <= 4 /\ 1 .. Len(s) = 1 .. 5
    BY <1>1
  <2> QED BY <1>5, <2>1
<1> QED BY <1>1, <1>6, <1>7 DEF s, t

\* b is the request that calls with args; f is the buffer after every argument.
Requested(b, f, sig, args, h) ==
  /\ b \in Seq(Int) /\ Puts(f, NewMarshall, sig, args)
  /\ Len(b) = f[Len(sig)].ind /\ Holds(b, NewMarshall, f[Len(sig)])
  /\ Len(b) < Word => unpack_req_header(NewUnmarshall(b)) = [v |-> h, u |-> U(b, RPC_HEADER_SZ, Yes)]

\* A request holds every argument behind its header, and its header is read back.
LEMMA RequestIs ==
  ASSUME NEW sig, NEW args, SigFits(sig, args), NEW h, HeaderFits(h)
  PROVE  \E f : Requested(CallRequest(sig, args, h), f, sig, args, h)
                /\ PutArgs(NewMarshall, sig, args) = f[Len(sig)]
<1>1. Obj(NewMarshall) /\ NewMarshall.ind = RPC_HEADER_SZ /\ RPC_HEADER_SZ = 24
  BY NewIs
<1>2. PICK f : Puts(f, NewMarshall, sig, args) /\ PutArgs(NewMarshall, sig, args) = f[Len(sig)]
  BY <1>1, PutArgsSteps
<1> DEFINE n == Len(sig)
           m == f[n]
           b == CallRequest(sig, args, h)
           x == UnpackHeader(NewUnmarshall(b), ReqTypes)
<1>3. n \in Nat /\ f[0] = NewMarshall /\ Steps(f, n)
  BY <1>2 DEF Puts, SigFits
<1>4. Obj(m) /\ More(f[0], m)
  <2>1. n \in 0 .. n
    BY <1>3
  <2> HIDE DEF n
  <2> QED BY <1>3, <2>1, Chain
<1>5. m.ind >= RPC_HEADER_SZ
  <2>1. PICK c \in Nat : m.ind = f[0].ind + c
    BY <1>4 DEF More, Wrote
  <2> QED BY <1>1, <1>3, <2>1
<1>6. b = Sent(PackHeader(m, ReqTypes, Ints(h)))
  BY <1>2 DEF CallRequest, pack_req_header, Ints
<1> HIDE DEF b, m, n
<1>7. /\ b \in Seq(Int) /\ Len(b) = m.ind
      /\ \A i \in RPC_HEADER_SZ + 1 .. m.ind : b[i] = m.buf[i]
      /\ Len(b) < Word => x = [v |-> Ints(h), u |-> U(b, RPC_HEADER_SZ, Yes)]
  <2>1. Listed(ReqTypes, Ints(h)) /\ Len(Ints(h)) <= 5
        /\ \A i \in 1 .. Len(Ints(h)) : Size(ReqTypes[i], Ints(h)[i]) <= 4
    BY HeaderListed
  <2> QED BY <1>4, <1>5, <1>6, <2>1, PackIs
<1> HIDE DEF x
<1>8. Holds(b, NewMarshall, m)
  <2>1. m.ind <= Len(b)
    BY <1>4, <1>7 DEF Obj
  <2> QED BY <1>1, <1>7, <2>1 DEF Holds
<1>9. Len(b) < Word => unpack_req_header(NewUnmarshall(b)) = [v |-> h, u |-> U(b, RPC_HEADER_SZ, Yes)]
  <2> SUFFICES ASSUME Len(b) < Word
               PROVE  unpack_req_header(NewUnmarshall(b)) = [v |-> h, u |-> U(b, RPC_HEADER_SZ, Yes)]
    OBVIOUS
  <2>1. x.v = Ints(h) /\ x.u = U(b, RPC_HEADER_SZ, Yes)
    BY <1>7
  <2>2. x.v[1] = h.xid /\ x.v[2] = h.proc /\ x.v[3] = h.clt_nonce /\ x.v[4] = h.srv_nonce
        /\ x.v[5] = h.xid_rep
    BY <2>1 DEF Ints
  <2>3. unpack_req_header(NewUnmarshall(b)) =
          [v |-> [xid |-> x.v[1], proc |-> x.v[2], clt_nonce |-> x.v[3], srv_nonce |-> x.v[4],
                  xid_rep |-> x.v[5]],
           u |-> x.u]
    <3>1. unpack_req_header(NewUnmarshall(b)) =
            [x EXCEPT !.v = [xid |-> x.v[1], proc |-> x.v[2], clt_nonce |-> x.v[3], srv_nonce |-> x.v[4],
                             xid_rep |-> x.v[5]]]
      BY DEF unpack_req_header, x
    <3>2. x = [v |-> Ints(h), u |-> U(b, RPC_HEADER_SZ, Yes)]
      BY <1>7
    <3>3. \A v, y, z : [[v |-> y, u |-> z] EXCEPT !.v = v] = [v |-> v, u |-> z]
      OBVIOUS
    <3>4. \A v : [x EXCEPT !.v = v] = [v |-> v, u |-> x.u]
      BY <2>1, <3>2, <3>3
    <3> QED BY <3>1, <3>4
  <2>4. h = [xid |-> h.xid, proc |-> h.proc, clt_nonce |-> h.clt_nonce, srv_nonce |-> h.srv_nonce,
             xid_rep |-> h.xid_rep]
    BY DEF HeaderFits
  <2> QED BY <2>1, <2>2, <2>3, <2>4
<1>10. Requested(b, f, sig, args, h)
  BY <1>2, <1>7, <1>8, <1>9 DEF Requested, m, n
<1> QED BY <1>2, <1>10 DEF b

\* dispatch reads the header of a request and leaves the read head at the arguments.
LEMMA HandlerGets ==
  ASSUME NEW sig, NEW args, NEW h, NEW b, NEW f, Requested(b, f, sig, args, h), Len(b) < Word, NEW s
  PROVE  Dispatched(b, s) = [handled |-> TRUE, h |-> h, fn |-> HandlerArgs(U(b, RPC_HEADER_SZ, Yes), s)]
<1> DEFINE req == unpack_req_header(NewUnmarshall(b))
<1>1. req = [v |-> h, u |-> U(b, RPC_HEADER_SZ, Yes)]
  BY DEF Requested
<1>2. Dispatched(b, s) = IF req.u.ok THEN [handled |-> TRUE, h |-> req.v, fn |-> HandlerArgs(req.u, s)]
                         ELSE [handled |-> FALSE]
  BY DEF Dispatched
<1> HIDE DEF req
<1>3. req.v = h /\ req.u = U(b, RPC_HEADER_SZ, Yes)
  BY <1>1
<1>4. req.u.ok
  <2>1. req.u.ok = Yes
    BY <1>3, UIs
  <2> QED BY <2>1 DEF Yes
<1> QED BY <1>2, <1>3, <1>4

\* What the handler has unmarshalled of the types that the caller marshalled.
LEMMA PrefixRead ==
  ASSUME NEW sig, NEW args, SigFits(sig, args), NEW h, NEW b, NEW f, Requested(b, f, sig, args, h),
         Len(b) < Word, NEW k \in 0 .. Len(sig), NEW s, NEW g, GetTurns(g, U(b, RPC_HEADER_SZ, Yes), s),
         Len(s) \in Nat, k <= Len(s), \A i \in 1 .. k : s[i] = sig[i]
  PROVE  g[k] = ReadTo(b, f, args, k)
<1>1. Obj(NewMarshall) /\ NewMarshall.ind = RPC_HEADER_SZ
  BY NewIs
<1>2. g[0] = [v |-> <<>>, u |-> U(b, NewMarshall.ind, Yes)]
  BY <1>1 DEF GetTurns
<1>3. \A i \in 1 .. k : g[i] = GetArg(g[i - 1], sig[i])
  <2> SUFFICES ASSUME NEW i \in 1 .. k PROVE g[i] = GetArg(g[i - 1], sig[i])
    OBVIOUS
  <2>1. Len(sig) \in Nat
    BY DEF SigFits
  <2>2. i \in 1 .. Len(s)
    BY <2>1
  <2> QED BY <2>2 DEF GetTurns
<1>4. b \in Seq(Int) /\ Puts(f, NewMarshall, sig, args) /\ Holds(b, NewMarshall, f[Len(sig)])
  BY DEF Requested
<1>5. GotTo(g, U(b, NewMarshall.ind, Yes), sig, k)
  BY <1>2, <1>3 DEF GotTo
<1> QED BY <1>1, <1>4, <1>5, ArgsRead

\* fn calls the method if the content was read completely and not beyond.
LEMMA Finished ==
  ASSUME NEW u, NEW s, NEW b, NEW i, NEW v, GetArgs(u, s) = [v |-> v, u |-> U(b, i, Yes)]
  PROVE  HandlerArgs(u, s) = IF i = Len(b) THEN [called |-> TRUE, args |-> v]
                             ELSE [called |-> FALSE, ret |-> unmarshal_args_failure]
<1> DEFINE a == GetArgs(u, s)
<1>1. HandlerArgs(u, s) = IF okdone(a.u) THEN [called |-> TRUE, args |-> a.v]
                          ELSE [called |-> FALSE, ret |-> unmarshal_args_failure]
  BY DEF HandlerArgs
<1> HIDE DEF a
<1>2. a.v = v /\ a.u = U(b, i, Yes)
  BY DEF a
<1>3. okdone(a.u) <=> i = Len(b)
  <2>1. a.u.ok = Yes /\ a.u.ind = i /\ a.u.buf = b
    BY <1>2, UIs
  <2> QED BY <2>1 DEF okdone, Yes
<1> QED BY <1>1, <1>2, <1>3

\* fn does not call the method when a read went beyond the content.
LEMMA Unfinished ==
  ASSUME NEW u, NEW s, NEW b, NEW i, GetArgs(u, s).u = U(b, i, No)
  PROVE  HandlerArgs(u, s) = [called |-> FALSE, ret |-> unmarshal_args_failure]
<1> DEFINE a == GetArgs(u, s)
<1>1. HandlerArgs(u, s) = IF okdone(a.u) THEN [called |-> TRUE, args |-> a.v]
                          ELSE [called |-> FALSE, ret |-> unmarshal_args_failure]
  BY DEF HandlerArgs
<1> HIDE DEF a
<1>2. a.u.ok = No
  BY UIs DEF a
<1>3. ~okdone(a.u)
  BY <1>2 DEF okdone, No
<1> QED BY <1>1, <1>3

\* A handler of the caller's signature is called with the caller's arguments, and dispatch
\* sees the caller's header: what rpcc::call and its << wrote is what the >> of rpcs::reg read.
THEOREM CallIsExact ==
  ASSUME NEW sig, NEW args, SigFits(sig, args), NEW h, HeaderFits(h),
         Len(CallRequest(sig, args, h)) < Word
  PROVE  Dispatched(CallRequest(sig, args, h), sig) =
           [handled |-> TRUE, h |-> h, fn |-> [called |-> TRUE, args |-> args]]
<1> DEFINE b == CallRequest(sig, args, h)
           n == Len(sig)
           u == U(b, RPC_HEADER_SZ, Yes)
<1>1. PICK f : Requested(b, f, sig, args, h)
  BY RequestIs
<1>2. Dispatched(b, sig) = [handled |-> TRUE, h |-> h, fn |-> HandlerArgs(u, sig)]
  BY <1>1, HandlerGets
<1>3. n \in Nat /\ args = [j \in 1 .. n |-> args[j]]
  BY DEF SigFits
<1>4. PICK g : GetTurns(g, u, sig)
  BY <1>3, GetArgsTurns
<1>5. g[n] = ReadTo(b, f, args, n)
  <2>1. n \in 0 .. Len(sig) /\ n <= Len(sig) /\ Len(sig) \in Nat
    BY <1>3
  <2>2. \A i \in 1 .. n : sig[i] = sig[i]
    OBVIOUS
  <2>3. Len(b) < Word
    OBVIOUS
  <2> HIDE DEF b, n
  <2> QED BY <1>1, <1>4, <2>1, <2>2, <2>3, PrefixRead
<1>6. GetArgs(u, sig) = [v |-> args, u |-> U(b, f[n].ind, Yes)]
  BY <1>3, <1>4, <1>5 DEF GetTurns, ReadTo
<1>7. f[n].ind = Len(b)
  BY <1>1 DEF Requested
<1>8. HandlerArgs(u, sig) = [called |-> TRUE, args |-> args]
  <2> HIDE DEF u, b, n
  <2> QED BY <1>6, <1>7, Finished
<1> HIDE DEF u
<1> QED BY <1>2, <1>8

\* A handler that has only the first k of the parameters is not called.
LEMMA TooManyArguments ==
  ASSUME NEW sig, NEW args, SigFits(sig, args), NEW h, HeaderFits(h),
         Len(CallRequest(sig, args, h)) < Word,
         NEW s, Len(s) \in 0 .. Len(sig) - 1, \A i \in 1 .. Len(s) : s[i] = sig[i]
  PROVE  Dispatched(CallRequest(sig, args, h), s).fn =
           [called |-> FALSE, ret |-> unmarshal_args_failure]
<1> DEFINE b == CallRequest(sig, args, h)
           n == Len(sig)
           k == Len(s)
           u == U(b, RPC_HEADER_SZ, Yes)
<1>1. PICK f : Requested(b, f, sig, args, h)
  BY RequestIs
<1>2. Dispatched(b, s) = [handled |-> TRUE, h |-> h, fn |-> HandlerArgs(u, s)]
  BY <1>1, HandlerGets
<1>3. n \in Nat /\ k \in 0 .. n /\ k \in Nat /\ k + 1 \in 1 .. n /\ (k + 1) - 1 = k
  BY DEF SigFits
<1>4. PICK g : GetTurns(g, u, s)
  BY <1>3, GetArgsTurns
<1>5. g[k] = ReadTo(b, f, args, k)
  <2>1. k \in 0 .. Len(sig) /\ k <= Len(s) /\ Len(s) \in Nat /\ Len(b) < Word
    BY <1>3
  <2> HIDE DEF b
  <2> QED BY <1>1, <1>4, <2>1, PrefixRead
<1>6. GetArgs(u, s) = [v |-> [j \in 1 .. k |-> args[j]], u |-> U(b, f[k].ind, Yes)]
  BY <1>4, <1>5 DEF GetTurns, ReadTo
<1>7. f[k].ind # Len(b)
  <2>1. Steps(f, n) /\ f[(k + 1) - 1].ind < f[k + 1].ind /\ Len(b) = f[n].ind
    BY <1>1, <1>3 DEF Requested, Puts
  <2> HIDE DEF b, n, k
  <2>2. Obj(f[k]) /\ Obj(f[k + 1]) /\ More(f[k + 1], f[n])
    <3>1. k + 1 \in 0 .. n
      BY <1>3
    <3> QED BY <1>3, <2>1, <3>1, Chain
  <2>3. PICK c \in Nat : f[n].ind = f[k + 1].ind + c
    BY <2>2 DEF More, Wrote
  <2>4. f[k].ind \in Int /\ f[k + 1].ind \in Int
    BY <2>2 DEF Obj
  <2> QED BY <1>3, <2>1, <2>3, <2>4
<1>8. HandlerArgs(u, s) = [called |-> FALSE, ret |-> unmarshal_args_failure]
  <2> DEFINE v == [j \in 1 .. k |-> args[j]]
  <2>1. GetArgs(u, s) = [v |-> v, u |-> U(b, f[k].ind, Yes)]
    BY <1>6
  <2> HIDE DEF u, b, k, v
  <2> QED BY <1>7, <2>1, Finished
<1> HIDE DEF u
<1> QED BY <1>2, <1>8

\* Nor is a handler that has one parameter more.
LEMMA TooFewArguments ==
  ASSUME NEW sig, NEW args, SigFits(sig, args), NEW h, HeaderFits(h),
         Len(CallRequest(sig, args, h)) < Word,
         NEW s, Len(s) = Len(sig) + 1, \A i \in 1 .. Len(sig) : s[i] = sig[i], IsType(s[Len(s)])
  PROVE  Dispatched(CallRequest(sig, args, h), s).fn =
           [called |-> FALSE, ret |-> unmarshal_args_failure]
<1> DEFINE b == CallRequest(sig, args, h)
           n == Len(sig)
           u == U(b, RPC_HEADER_SZ, Yes)
<1>1. PICK f : Requested(b, f, sig, args, h)
  BY RequestIs
<1>2. Dispatched(b, s) = [handled |-> TRUE, h |-> h, fn |-> HandlerArgs(u, s)]
  BY <1>1, HandlerGets
<1>3. n \in Nat /\ Len(s) = n + 1 /\ Len(s) \in Nat /\ n \in 0 .. n /\ n <= Len(s)
      /\ n + 1 \in 1 .. Len(s) /\ (n + 1) - 1 = n
  BY DEF SigFits
<1>4. PICK g : GetTurns(g, u, s)
  BY <1>3, GetArgsTurns
<1>5. g[n] = ReadTo(b, f, args, n)
  <2>1. n \in 0 .. Len(sig) /\ n <= Len(s) /\ Len(s) \in Nat /\ Len(b) < Word
        /\ \A i \in 1 .. n : s[i] = sig[i]
    BY <1>3
  <2> HIDE DEF b, n
  <2> QED BY <1>1, <1>4, <2>1, PrefixRead
<1>6. f[n].ind = Len(b) /\ b \in Seq(Int)
  BY <1>1 DEF Requested
<1> HIDE DEF b
<1>7. g[n].u = U(b, Len(b), Yes)
  BY <1>5, <1>6 DEF ReadTo
<1>8. GetArgs(u, s).u = U(b, Len(b), No)
  <2>1. g[n + 1] = GetArg(g[(n + 1) - 1], s[n + 1]) /\ GetArgs(u, s) = g[n + 1]
    BY <1>3, <1>4 DEF GetTurns
  <2>2. \A a, t : GetArg(a, t).u = Get(a.u, t).u
    BY DEF GetArg, Add
  <2>3. GetArgs(u, s).u = Get(g[n].u, s[n + 1]).u
    BY <1>3, <2>1, <2>2
  <2>4. Get(U(b, Len(b), Yes), s[n + 1]).u = U(b, Len(b), No)
    BY <1>3, <1>6, TypeAtEnd
  <2> QED BY <1>7, <2>3, <2>4
<1>9. HandlerArgs(u, s) = [called |-> FALSE, ret |-> unmarshal_args_failure]
  <2> HIDE DEF u
  <2> QED BY <1>8, Unfinished
<1> HIDE DEF u
<1> QED BY <1>2, <1>9 DEF b

-----------------------------------------------------------------------------
(* The result of a call *)

\* The two fields of a reply header are values of their types, of four bytes each.
LEMMA ReplyListed ==
  /\ Listed(ReplyTypes, <<1, 0>>) /\ Len(<<1, 0>>) = 2 /\ Len(<<1, 0>>) <= 5
  /\ \A i \in 1 .. Len(<<1, 0>>) : Size(ReplyTypes[i], <<1, 0>>[i]) <= 4
<1> DEFINE ints == <<1, 0>>
<1>1. Len(ints) = 2 /\ Len(ReplyTypes) = 2 /\ ints = [i \in 1 .. Len(ints) |-> ints[i]]
      /\ ints[1] = 1 /\ ints[2] = 0 /\ ReplyTypes[1] = "int" /\ ReplyTypes[2] = "int"
  BY DEF ReplyTypes
<1>2. "int" \in Scalars /\ Widths["int"] = 4 /\ "int" # "string" /\ "int" # "bool"
  BY WidthsAre DEF Scalars, Widths
<1>3. \A v : Size("int", v) = 4
  BY <1>2 DEF Size
<1>4. Fits("int", 0) /\ Fits("int", 1)
  <2>1. \A v : Fits("int", v) <=> v \in Int /\ -Pow[4] <= 2 * v /\ 2 * v < Pow[4]
    BY <1>2 DEF Fits
  <2>2. Pow[4] > 4 /\ Pow[4] \in Nat
    <3>1. Pow[4] \in Nat
      BY PowIs
    <3>2. 8 * DEFAULT_RPC_SZ + 40 < Pow[4] /\ DEFAULT_RPC_SZ \in Nat
      BY SizesAssumption DEF Word
    <3> QED BY <3>1, <3>2
  <2>3. -Pow[4] <= 2 * 0 /\ 2 * 0 < Pow[4] /\ -Pow[4] <= 2 * 1 /\ 2 * 1 < Pow[4]
    BY <2>2
  <2> QED BY <2>1, <2>3
<1> HIDE DEF ints
<1>5. \A i \in 1 .. Len(ints) : ReplyTypes[i] = "int" /\ Fits("int", ints[i])
  <2>1. \A i \in 1 .. Len(ints) : i = 1 \/ i = 2
    BY <1>1
  <2> QED BY <1>1, <1>4, <2>1
<1>6. Len(ints) \in Nat /\ Len(ints) <= 5 /\ 4 <= 4
  BY <1>1
<1>7. Listed(ReplyTypes, ints)
  BY <1>1, <1>2, <1>5, <1>6 DEF Listed
<1> QED BY <1>1, <1>3, <1>5, <1>6, <1>7 DEF ints

\* b is the reply with the result r, which the write head reaches.
LEMMA ReplyHolds ==
  ASSUME NEW t, IsType(t), NEW r, FitsType(t, r), Len(Reply(1, 0, t, r)) < Word
  PROVE  LET b == Reply(1, 0, t, r)
             m == Put(NewMarshall, t, r) IN
         /\ b \in Seq(Int) /\ Len(b) = m.ind /\ Len(b) >= RPC_HEADER_SZ
         /\ Holds(b, NewMarshall, m)
         /\ unpack_reply_header(NewUnmarshall(b)) = [v |-> [xid |-> 1, ret |-> 0], u |-> U(b, RPC_HEADER_SZ, Yes)]
<1> DEFINE b == Reply(1, 0, t, r)
           m == Put(NewMarshall, t, r)
           ints == <<1, 0>>
           x == UnpackHeader(NewUnmarshall(b), ReplyTypes)
<1>1. Obj(NewMarshall) /\ NewMarshall.ind = RPC_HEADER_SZ /\ RPC_HEADER_SZ = 24
  BY NewIs
<1>2. PICK c \in Nat \ {0} : Wrote(NewMarshall, m, c)
  BY <1>1, PutIs
<1>3. Obj(m) /\ m.ind = RPC_HEADER_SZ + c
  BY <1>1, <1>2 DEF Wrote
<1>4. m.ind \in Nat /\ m.ind >= RPC_HEADER_SZ
  BY <1>1, <1>3
<1>5. b = Sent(PackHeader(m, ReplyTypes, ints))
  <2>1. \A a, d : [xid |-> a, ret |-> d].xid = a /\ [xid |-> a, ret |-> d].ret = d
    OBVIOUS
  <2> QED BY <2>1 DEF Reply, pack_reply_header
<1>6. /\ Listed(ReplyTypes, ints) /\ Len(ints) = 2 /\ Len(ints) <= 5
      /\ \A i \in 1 .. Len(ints) : Size(ReplyTypes[i], ints[i]) <= 4
  BY ReplyListed
<1> HIDE DEF ints, b, m
<1>7. /\ b \in Seq(Int) /\ Len(b) = m.ind
      /\ \A i \in RPC_HEADER_SZ + 1 .. m.ind : b[i] = m.buf[i]
      /\ Len(b) < Word => x = [v |-> ints, u |-> U(b, RPC_HEADER_SZ, Yes)]
  <2>1. Obj(m) /\ m.ind >= RPC_HEADER_SZ /\ Listed(ReplyTypes, ints) /\ Len(ints) <= 5
        /\ \A i \in 1 .. Len(ints) : Size(ReplyTypes[i], ints[i]) <= 4
    BY <1>3, <1>4, <1>6
  <2> QED BY <1>5, <2>1, PackIs
<1>8. Holds(b, NewMarshall, m)
  <2>1. m.ind <= Len(b)
    BY <1>4, <1>7
  <2> QED BY <1>1, <1>7, <2>1 DEF Holds
<1>9. x = [v |-> ints, u |-> U(b, RPC_HEADER_SZ, Yes)]
  BY <1>7 DEF b
<1> HIDE DEF x
<1>10. unpack_reply_header(NewUnmarshall(b)) = [v |-> [xid |-> 1, ret |-> 0], u |-> U(b, RPC_HEADER_SZ, Yes)]
  <2>1. x.v[1] = 1 /\ x.v[2] = 0 /\ x.u = U(b, RPC_HEADER_SZ, Yes)
    BY <1>9 DEF ints
  <2>2. unpack_reply_header(NewUnmarshall(b)) = [v |-> [xid |-> x.v[1], ret |-> x.v[2]], u |-> x.u]
    <3>1. unpack_reply_header(NewUnmarshall(b)) = [x EXCEPT !.v = [xid |-> x.v[1], ret |-> x.v[2]]]
      BY DEF unpack_reply_header, x
    <3>2. \A v, y, z : [[v |-> y, u |-> z] EXCEPT !.v = v] = [v |-> v, u |-> z]
      OBVIOUS
    <3>3. \A v : [x EXCEPT !.v = v] = [v |-> v, u |-> x.u]
      BY <1>9, <2>1, <3>2
    <3> QED BY <3>1, <3>3
  <2> QED BY <2>1, <2>2
<1>11. Len(b) >= RPC_HEADER_SZ
  BY <1>4, <1>7
<1> QED BY <1>7, <1>8, <1>10, <1>11 DEF b, m

\* call_m, after the header of a reply that says 0.
LEMMA Taken ==
  ASSUME NEW t, IsType(t), NEW r, FitsType(t, r), Len(Reply(1, 0, t, r)) < Word, NEW into
  PROVE  LET b == Reply(1, 0, t, r)
             e == Get(U(b, RPC_HEADER_SZ, Yes), into)
         IN  CallResult(b, into) = IF okdone(e.u) THEN [ret |-> 0, r |-> e.v]
                                   ELSE [ret |-> unmarshal_reply_failure]
<1> DEFINE b == Reply(1, 0, t, r)
           rp == unpack_reply_header(NewUnmarshall(b))
           e == Get(take_in(rp.u), into)
<1>1. rp = [v |-> [xid |-> 1, ret |-> 0], u |-> U(b, RPC_HEADER_SZ, Yes)] /\ Len(b) >= RPC_HEADER_SZ
  BY ReplyHolds
<1>2. CallResult(b, into) = IF rp.v.ret < 0 THEN [ret |-> rp.v.ret]
                            ELSE IF okdone(e.u) THEN [ret |-> rp.v.ret, r |-> e.v]
                            ELSE [ret |-> unmarshal_reply_failure]
  BY DEF CallResult
<1> HIDE DEF e, rp, b
<1>3. rp.v.ret = 0 /\ rp.u = U(b, RPC_HEADER_SZ, Yes)
  BY <1>1
<1>4. take_in(rp.u) = U(b, RPC_HEADER_SZ, Yes)
  <2>1. rp.u.buf = b
    BY <1>3, UIs
  <2>2. take_in(rp.u) = [buf |-> rp.u.buf, ind |-> RPC_HEADER_SZ, ok |-> Len(rp.u.buf) >= RPC_HEADER_SZ]
    BY DEF take_in
  <2>3. (Len(rp.u.buf) >= RPC_HEADER_SZ) = Yes
    BY <1>1, <2>1 DEF Yes
  <2> QED BY <2>1, <2>2, <2>3 DEF U
<1>5. ~(rp.v.ret < 0)
  BY <1>3
<1>6. CallResult(b, into) = IF okdone(e.u) THEN [ret |-> 0, r |-> e.v]
                            ELSE [ret |-> unmarshal_reply_failure]
  BY <1>2, <1>3, <1>5
<1>7. e = Get(U(b, RPC_HEADER_SZ, Yes), into)
  BY <1>4 DEF e
<1> QED BY <1>6, <1>7 DEF b

\* The result that call_m takes out of the reply is what the handler returned.
THEOREM ResultIsExact ==
  ASSUME NEW t, IsType(t), NEW r, FitsType(t, r), Len(Reply(1, 0, t, r)) < Word
  PROVE  CallResult(Reply(1, 0, t, r), t) = [ret |-> 0, r |-> r]
<1> DEFINE b == Reply(1, 0, t, r)
           m == Put(NewMarshall, t, r)
           e == Get(U(b, RPC_HEADER_SZ, Yes), t)
<1>1. b \in Seq(Int) /\ Len(b) = m.ind /\ Holds(b, NewMarshall, m)
  BY ReplyHolds
<1>2. CallResult(b, t) = IF okdone(e.u) THEN [ret |-> 0, r |-> e.v] ELSE [ret |-> unmarshal_reply_failure]
  BY Taken
<1>3. e = [v |-> r, u |-> U(b, m.ind, Yes)]
  <2>1. Obj(NewMarshall) /\ NewMarshall.ind = RPC_HEADER_SZ
    BY NewIs
  <2>2. Len(b) < Word
    OBVIOUS
  <2>3. Get(U(b, NewMarshall.ind, Yes), t) = [v |-> r, u |-> U(b, m.ind, Yes)]
    <3> HIDE DEF b
    <3> QED BY <1>1, <2>1, <2>2, TypeExchange
  <2> QED BY <2>1, <2>3
<1> HIDE DEF e, b, m
<1>4. e.v = r /\ e.u = U(b, m.ind, Yes)
  BY <1>3
<1>5. okdone(e.u)
  <2>1. e.u.ok = Yes /\ e.u.ind = m.ind /\ e.u.buf = b
    BY <1>4, UIs
  <2> QED BY <1>1, <2>1 DEF okdone, Yes
<1>6. CallResult(b, t) = [ret |-> 0, r |-> r]
  BY <1>2, <1>4, <1>5
<1> QED BY <1>6 DEF b

\* An integer is taken out of a result of its size, and of no other.
LEMMA ResultIsRefused ==
  ASSUME NEW t, IsType(t), NEW r, FitsType(t, r), Len(Reply(1, 0, t, r)) < Word,
         NEW s \in DOMAIN Widths
  PROVE  CallResult(Reply(1, 0, t, r), <<s>>).ret =
           IF Len(Reply(1, 0, t, r)) = RPC_HEADER_SZ + Widths[s] THEN 0 ELSE unmarshal_reply_failure
<1> DEFINE b == Reply(1, 0, t, r)
           into == <<s>>
           wd == Widths[s]
           u == U(b, RPC_HEADER_SZ, Yes)
           e == Get(u, into)
<1>1. b \in Seq(Int) /\ Len(b) >= RPC_HEADER_SZ
  BY ReplyHolds
<1>2. CallResult(b, into) = IF okdone(e.u) THEN [ret |-> 0, r |-> e.v] ELSE [ret |-> unmarshal_reply_failure]
  BY Taken
<1>3. wd \in 1 .. 8 /\ s # "string" /\ s # "vector" /\ s # "map"
  BY WidthsAre
<1> HIDE DEF b, wd
<1>4. e.u = GetInt(u, wd).u
  <2>1. Get(u, into) = GetScalar(u, into[1])
    <3>1. into[1] = s
      OBVIOUS
    <3>2. into[1] # "vector" /\ into[1] # "map"
      BY <1>3, <3>1
    <3> HIDE DEF into, u
    <3> QED BY <3>2 DEF Get
  <2>2. GetScalar(u, s).u = GetInt(u, wd).u
    <3> HIDE DEF u
    <3> QED BY <1>3 DEF GetScalar, wd
  <2>3. into[1] = s
    OBVIOUS
  <2> QED BY <2>1, <2>2, <2>3
<1> DEFINE i == RPC_HEADER_SZ
<1>5. i = 24 /\ i \in 0 .. Len(b)
  <2>1. Len(b) \in Nat
    BY <1>1
  <2> QED BY <1>1, <2>1, NewIs
<1> HIDE DEF i
<1>6. e.u = IF i + wd <= Len(b) THEN U(b, i + wd, Yes) ELSE U(b, Len(b), No)
  <2>1. GetInt(U(b, i, Yes), wd).u = IF i + wd <= Len(b) THEN U(b, i + wd, Yes) ELSE U(b, Len(b), No)
    BY <1>1, <1>3, <1>5, GetIntMoves
  <2> QED BY <1>4, <2>1 DEF i
<1> HIDE DEF e, u, into
<1>7. okdone(e.u) <=> Len(b) = i + wd
  <2>1. Len(b) \in Nat /\ i + wd \in Nat
    <3>1. Len(b) \in Nat
      BY <1>1
    <3>2. wd \in 1 .. 8 /\ i = 24
      BY <1>3, <1>5
    <3> QED BY <3>1, <3>2
  <2>2. CASE i + wd <= Len(b)
    <3>1. e.u.ok = Yes /\ e.u.ind = i + wd /\ e.u.buf = b
      BY <1>6, <2>2, UIs
    <3>2. okdone(e.u) <=> i + wd = Len(b)
      BY <3>1 DEF okdone, Yes
    <3> QED BY <3>2
  <2>3. CASE ~(i + wd <= Len(b))
    <3>1. e.u.ok = No
      BY <1>6, <2>3, UIs
    <3>2. ~okdone(e.u)
      BY <3>1 DEF okdone, No
    <3>3. Len(b) # i + wd
      BY <2>1, <2>3
    <3> QED BY <3>2, <3>3
  <2> QED BY <2>2, <2>3
<1>8. CallResult(b, into).ret = IF Len(b) = i + wd THEN 0 ELSE unmarshal_reply_failure
  <2>1. CASE okdone(e.u)
    <3>1. CallResult(b, into) = [ret |-> 0, r |-> e.v]
      BY <1>2, <2>1
    <3>2. CallResult(b, into).ret = 0
      BY <3>1
    <3> QED BY <1>7, <2>1, <3>2
  <2>2. CASE ~okdone(e.u)
    <3>1. CallResult(b, into) = [ret |-> unmarshal_reply_failure]
      BY <1>2, <2>2
    <3>2. CallResult(b, into).ret = unmarshal_reply_failure
      BY <3>1
    <3> QED BY <1>7, <2>2, <3>2
  <2> QED BY <2>1, <2>2
<1> QED BY <1>8 DEF b, wd, i, into

-----------------------------------------------------------------------------
(* The samples *)

\* An int has room for the sizes that occur, so that a byte has more than two values.
LEMMA RoomIs ==
  /\ Base >= 3 /\ DEFAULT_RPC_SZ \in Nat /\ DEFAULT_RPC_SZ >= 24
  /\ \A n \in 1 .. 8 : Pow[n] \in Nat /\ Pow[n] >= 3
  /\ Word = Pow[4] /\ Word \in Nat /\ 8 * DEFAULT_RPC_SZ + 40 < Word
<1>1. DEFAULT_RPC_SZ \in Nat /\ DEFAULT_RPC_SZ >= 24 /\ 8 * DEFAULT_RPC_SZ + 40 < Word
  BY SizesAssumption DEF RPC_HEADER_SZ
<1>2. Base \in Nat \ {0, 1}
  BY BaseIs
<1>3. Word = Pow[4] /\ Word \in Nat
  BY PowIs DEF Word
<1>4. Base # 2
  <2> SUFFICES ASSUME Base = 2 PROVE FALSE
    OBVIOUS
  <2>1. Pow[0] = 1 /\ Pow[1] = 2 * Pow[0] /\ Pow[2] = 2 * Pow[1] /\ Pow[3] = 2 * Pow[2]
        /\ Pow[4] = 2 * Pow[3]
    <3>1. 1 - 1 = 0 /\ 2 - 1 = 1 /\ 3 - 1 = 2 /\ 4 - 1 = 3
      OBVIOUS
    <3>2. 1 \in 1 .. 8 /\ 2 \in 1 .. 8 /\ 3 \in 1 .. 8 /\ 4 \in 1 .. 8
      OBVIOUS
    <3> QED BY <3>1, <3>2, PowIs
  <2>2. Word = 16
    BY <1>3, <2>1
  <2> QED BY <1>1, <2>2
<1>5. Base \in Nat /\ Base >= 3
  BY <1>2, <1>4
<1>6. ASSUME NEW n \in 1 .. 8 PROVE Pow[n] \in Nat /\ Pow[n] >= 3
  <2>1. Pow[n] = Base * Pow[n - 1] /\ Pow[n - 1] \in Nat \ {0} /\ Pow[n] \in Nat
    <3>1. n - 1 \in 0 .. 8 /\ n \in 0 .. 8
      OBVIOUS
    <3> QED BY <3>1, PowIs
  <2> DEFINE p == Pow[n - 1]
  <2>2. p \in Nat /\ p >= 1 /\ Pow[n] = Base * p
    BY <2>1
  <2> HIDE DEF p
  <2>3. Base * p >= Base
    BY <1>5, <2>2
  <2> QED BY <1>5, <2>1, <2>2, <2>3
<1> QED BY <1>1, <1>3, <1>5, <1>6

\* The ends of the range of an integer type are in it.
LEMMA EndsFit ==
  ASSUME NEW t \in DOMAIN Widths, NEW v \in Ends(t)
  PROVE  Fits(t, v)
<1> DEFINE p == Pow[Widths[t]]
           q == p \div 2
<1>1. Widths[t] \in 1 .. 8 /\ t # "string"
  BY WidthsAre
<1>2. p \in Nat /\ p >= 3
  BY <1>1, RoomIs
<1>3. CASE t = "bool"
  <2>1. v \in {0, 1}
    BY <1>3 DEF Ends
  <2> QED BY <1>3, <2>1 DEF Fits
<1>4. CASE t \in {"char", "short", "int"}
  <2>1. t # "bool"
    BY <1>4
  <2>2. v \in {-q, -1, 0, q - 1}
    BY <1>4, <2>1 DEF Ends
  <2> HIDE DEF p
  <2>3. v \in Int /\ -p <= 2 * v /\ 2 * v < p
    BY <1>2, <2>2
  <2> QED BY <1>1, <1>4, <2>1, <2>3 DEF Fits, p
<1>5. CASE t # "bool" /\ t \notin {"char", "short", "int"}
  <2>1. v \in {0, q, p - 1}
    BY <1>5 DEF Ends
  <2> HIDE DEF p
  <2>2. v \in 0 .. p - 1
    BY <1>2, <2>1
  <2> QED BY <1>1, <1>5, <2>2 DEF Fits, p
<1> QED BY <1>3, <1>4, <1>5

\* The strings that the run draws are strings of bytes, of at most four new buffers.
LEMMA StringsFit ==
  ASSUME NEW v \in Strings
  PROVE  Fits("string", v) /\ Len(v) \in Nat /\ Len(v) <= 4 * DEFAULT_RPC_SZ
<1> DEFINE D == 0 .. Base - 1
           N == 4 * DEFAULT_RPC_SZ
           s == [i \in 1 .. N |-> i % Base]
<1>1. Base \in Nat /\ Base >= 3 /\ N \in Nat /\ N >= 1
  BY RoomIs, BaseIs
<1> HIDE DEF N
<1>2. <<>> \in Seq(D) /\ Len(<<>>) = 0
  OBVIOUS
<1>3. <<Base - 1>> \in Seq(D) /\ Len(<<Base - 1>>) = 1
  <2>1. Base - 1 \in D
    BY <1>1
  <2> HIDE DEF D
  <2> QED BY <2>1
<1>4. s \in Seq(D) /\ Len(s) = N
  <2>1. \A i \in 1 .. N : i % Base \in D
    BY <1>1
  <2> HIDE DEF D
  <2> QED BY <1>1, <2>1
<1>5. v = <<>> \/ v = <<Base - 1>> \/ v = s
  BY DEF Strings, N
<1> HIDE DEF s, D
<1>6. v \in Seq(D) /\ Len(v) \in Nat /\ Len(v) <= N
  <2>1. v \in Seq(D) /\ (Len(v) = 0 \/ Len(v) = 1 \/ Len(v) = N)
    BY <1>2, <1>3, <1>4, <1>5
  <2>2. Len(v) \in Nat /\ Len(v) <= N
    BY <1>1, <2>1
  <2> QED BY <2>1, <2>2
<1>7. Fits("string", v)
  BY <1>6 DEF Fits, D
<1> QED BY <1>6, <1>7 DEF N

\* What marshalling a value adds at most.
Grows(t, v) == \A m : Obj(m) => Put(m, t, v).ind <= m.ind + 4 + 4 * DEFAULT_RPC_SZ

\* A type, a value of it, and the room that it takes.
Sample(t, v) == IsType(t) /\ FitsType(t, v) /\ Grows(t, v)

\* An integer, or a string of at most four new buffers.
LEMMA ScalarSample ==
  ASSUME NEW s \in Scalars, NEW v, Fits(s, v), Size(s, v) <= 4 + 4 * DEFAULT_RPC_SZ
  PROVE  Sample(<<s>>, v)
<1> DEFINE t == <<s>>
<1>1. t[1] = s /\ s # "vector" /\ s # "map"
  BY WidthsAre DEF Scalars
<1>2. IsType(t)
  BY DEF IsType
<1> HIDE DEF t
<1>3. FitsType(t, v)
  BY <1>1 DEF FitsType
<1>4. Grows(t, v)
  <2> SUFFICES ASSUME NEW m, Obj(m) PROVE Put(m, t, v).ind <= m.ind + 4 + 4 * DEFAULT_RPC_SZ
    BY DEF Grows
  <2>1. Put(m, t, v) = PutScalar(m, s, v)
    BY <1>1, PutOne
  <2>2. Put(m, t, v).ind = m.ind + Size(s, v) /\ m.ind \in Nat /\ Size(s, v) \in Nat
    BY <2>1, PutScalarIs DEF Wrote, Obj
  <2> QED BY <2>2, RoomIs
<1> QED BY <1>2, <1>3, <1>4 DEF Sample, t

\* A container with at most four elements, each of at most five bytes.
Short(t, v) ==
  /\ Len(Parts(t, v)) <= 4
  /\ \A i \in 1 .. Len(Parts(t, v)) : Size(Elements(t, Count(t, v))[i], Parts(t, v)[i]) <= 5

\* A container that is short adds less than four new buffers.
LEMMA ShortGrows ==
  ASSUME NEW t, IsType(t), t[1] \in {"vector", "map"}, NEW v, FitsType(t, v), Short(t, v)
  PROVE  Grows(t, v)
<1> SUFFICES ASSUME NEW m, Obj(m) PROVE Put(m, t, v).ind <= m.ind + 4 + 4 * DEFAULT_RPC_SZ
  BY DEF Grows
<1> DEFINE n == Count(t, v)
           ts == Elements(t, n)
           vs == Parts(t, v)
           m1 == PutInt(m, n, 4)
<1>1. Listed(ts, vs) /\ n \in Nat /\ Len(vs) <= 4 /\ \A i \in 1 .. Len(vs) : Size(ts[i], vs[i]) <= 5
  BY PartsListed DEF Short
<1>2. Put(m, t, v) = PutAll(m1, ts, vs)
  BY PutParts
<1> HIDE DEF n, ts, vs
<1>3. Wrote(m, m1, 4) /\ Obj(m1)
  BY <1>1, PutCount
<1> HIDE DEF m1
<1>4. More(m1, PutAll(m1, ts, vs)) /\ PutAll(m1, ts, vs).ind <= m1.ind + Len(vs) * 5
  <2>1. 5 \in Nat
    OBVIOUS
  <2> QED BY <1>1, <1>3, <2>1, PutAllIs
<1>5. m1.ind = m.ind + 4 /\ m.ind \in Nat /\ PutAll(m1, ts, vs).ind \in Nat /\ Len(vs) \in 0 .. 4
  <2>1. m1.ind = m.ind + 4 /\ m.ind \in Nat
    BY <1>3 DEF Wrote, Obj
  <2>2. Obj(PutAll(m1, ts, vs))
    BY <1>4 DEF More, Wrote
  <2>3. PutAll(m1, ts, vs).ind \in Nat
    BY <2>2 DEF Obj
  <2>4. Len(vs) \in 0 .. 4
    BY <1>1 DEF Listed
  <2> QED BY <2>1, <2>3, <2>4
<1> DEFINE l == Len(vs)
           e == PutAll(m1, ts, vs).ind
           i == m.ind
<1>6. l \in 0 .. 4 /\ i \in Nat /\ e \in Nat /\ e <= (i + 4) + l * 5
  BY <1>4, <1>5
<1>7. Put(m, t, v).ind = e
  BY <1>2
<1> HIDE DEF l, e, i
<1>8. e <= i + 4 + 4 * DEFAULT_RPC_SZ
  <2>1. l * 5 <= 20
    BY <1>6
  <2>2. DEFAULT_RPC_SZ \in Nat /\ DEFAULT_RPC_SZ >= 24
    BY RoomIs
  <2> QED BY <1>6, <2>1, <2>2
<1> QED BY <1>7, <1>8 DEF i

\* A short vector.
LEMMA VectorSample ==
  ASSUME NEW s \in Scalars, NEW v, Len(v) \in 0 .. 4, v = [i \in 1 .. Len(v) |-> v[i]],
         \A i \in 1 .. Len(v) : Fits(s, v[i]) /\ Size(s, v[i]) <= 5
  PROVE  Sample(<<"vector", s>>, v)
<1> DEFINE t == <<"vector", s>>
<1>1. t[1] = "vector" /\ t[2] = s
  OBVIOUS
<1>2. IsType(t)
  BY DEF IsType
<1> HIDE DEF t
<1>3. Len(v) \in Nat /\ Len(v) < Word /\ Len(v) <= 4
  <2> DEFINE n == Len(v)
  <2>1. n \in 0 .. 4
    OBVIOUS
  <2> HIDE DEF n
  <2>2. DEFAULT_RPC_SZ \in Nat /\ Word \in Nat /\ 8 * DEFAULT_RPC_SZ + 40 < Word
    BY RoomIs
  <2>3. n \in Nat /\ n < Word /\ n <= 4
    BY <2>1, <2>2
  <2> QED BY <2>3 DEF n
<1>4. FitsType(t, v)
  BY <1>1, <1>3 DEF FitsType
<1>5. Short(t, v)
  <2>1. Count(t, v) = Len(v) /\ Parts(t, v) = v
    BY <1>1 DEF Count, Parts
  <2>2. Elements(t, Len(v)) = [i \in 1 .. Len(v) |-> s]
    BY <1>1 DEF Elements
  <2>3. \A i \in 1 .. Len(v) : Elements(t, Len(v))[i] = s
    BY <2>2
  <2> QED BY <1>3, <2>1, <2>3 DEF Short
<1>6. Grows(t, v)
  BY <1>1, <1>2, <1>4, <1>5, ShortGrows
<1> QED BY <1>2, <1>4, <1>6 DEF Sample, t

\* A map with at most two keys.
LEMMA MapSample ==
  ASSUME NEW k \in DOMAIN Widths, NEW s \in Scalars, NEW v, v = [x \in DOMAIN v |-> v[x]],
         IsFiniteSet(DOMAIN v), Cardinality(DOMAIN v) \in 0 .. 2, Widths[k] <= 5,
         \A x \in DOMAIN v : Fits(k, x) /\ Fits(s, v[x]) /\ Size(s, v[x]) <= 5
  PROVE  Sample(<<"map", k, s>>, v)
<1> DEFINE t == <<"map", k, s>>
           n == Cardinality(DOMAIN v)
<1>1. t[1] = "map" /\ t[2] = k /\ t[3] = s
  OBVIOUS
<1>2. IsType(t)
  BY DEF IsType
<1> HIDE DEF t
<1>3. n \in Nat /\ n <= 2 /\ n < Word
  BY RoomIs
<1>4. FitsType(t, v)
  BY <1>1, <1>3 DEF FitsType
<1>5. Short(t, v)
  <2> DEFINE wd == Flat(v)
             ts == Elements(t, n)
  <2>1. Count(t, v) = n /\ Parts(t, v) = wd
    BY <1>1 DEF Count, Parts
  <2>2. Len(wd) = 2 * n /\ \A i \in 1 .. n : wd[2 * i - 1] \in DOMAIN v /\ wd[2 * i] = v[wd[2 * i - 1]]
    BY <1>1, <1>2, <1>4, FlatIs
  <2>3. ts = [i \in 1 .. 2 * n |-> IF i % 2 = 1 THEN k ELSE s]
    BY <1>1 DEF Elements
  <2> HIDE DEF n, wd
  <2>4. ASSUME NEW i \in 1 .. 2 * n PROVE Size(ts[i], wd[i]) <= 5
    <3>1. ts[i] = IF i % 2 = 1 THEN k ELSE s
      BY <2>3
    <3>2. CASE i % 2 = 1
      <4>1. ts[i] = k /\ k # "string"
        BY <3>1, <3>2, WidthsAre
      <4>2. Size(k, wd[i]) = Widths[k]
        BY <4>1 DEF Size
      <4> QED BY <4>1, <4>2
    <3>3. CASE i % 2 # 1
      <4>1. ts[i] = s
        BY <3>1, <3>3
      <4>2. i \div 2 \in 1 .. n /\ i = 2 * (i \div 2)
        BY <1>3, <3>3, Halves
      <4>3. wd[i] = v[wd[2 * (i \div 2) - 1]] /\ wd[2 * (i \div 2) - 1] \in DOMAIN v
        BY <2>2, <4>2
      <4> HIDE DEF ts
      <4> QED BY <4>1, <4>3
    <3> QED BY <3>2, <3>3
  <2>5. Len(wd) <= 4 /\ 1 .. Len(wd) = 1 .. 2 * n
    BY <1>3, <2>2
  <2> HIDE DEF ts
  <2>6. Len(Parts(t, v)) <= 4
    BY <2>1, <2>5
  <2>7. \A i \in 1 .. Len(Parts(t, v)) : Size(Elements(t, Count(t, v))[i], Parts(t, v)[i]) <= 5
    BY <2>1, <2>4, <2>5 DEF ts
  <2> QED BY <2>6, <2>7 DEF Short
<1>6. Grows(t, v)
  BY <1>1, <1>2, <1>4, <1>5, ShortGrows
<1> QED BY <1>2, <1>4, <1>6 DEF Sample, t

\* The values that the run draws are values of their types.
LEMMA SamplesAre ==
  ASSUME NEW t \in Types, NEW v \in Values(t)
  PROVE  Sample(t, v)
<1>1. Base \in Nat /\ Base >= 3 /\ DEFAULT_RPC_SZ \in Nat /\ DEFAULT_RPC_SZ >= 24
      /\ \A n \in 1 .. 8 : Pow[n] \in Nat /\ Pow[n] >= 3
  BY RoomIs, BaseIs
<1>2. DOMAIN Widths = {"bool", "char", "uchar", "short", "ushort", "int", "uint", "ull"}
      /\ \A s \in DOMAIN Widths : Widths[s] \in 1 .. 8
  BY WidthsAre
<1>3. "string" \in Scalars /\ "short" \in Scalars /\ "char" \in DOMAIN Widths /\ "short" # "string"
      /\ Widths["short"] = 2 /\ Widths["char"] = 1
  BY <1>2 DEF Scalars, Widths
<1>4. \A s \in DOMAIN Widths : s \in Scalars /\ s # "string"
  BY WidthsAre DEF Scalars
<1>5. /\ Len(<<"string">>) = 1 /\ Len(<<"vector", "short">>) = 2 /\ Len(<<"vector", "string">>) = 2
      /\ Len(<<"map", "char", "string">>) = 3 /\ \A s : Len(<<s>>) = 1 /\ <<s>>[1] = s
      /\ <<"vector", "short">>[2] = "short" /\ <<"vector", "string">>[2] = "string"
  OBVIOUS
<1>6. <<"string">>[1] = "string" /\ "short" # "string"
  OBVIOUS
<1>7. CASE \E s \in DOMAIN Widths : t = <<s>>
  <2>1. PICK s \in DOMAIN Widths : t = <<s>>
    BY <1>7
  <2>2. t # <<"string">> /\ t # <<"vector", "short">> /\ t # <<"vector", "string">>
        /\ t # <<"map", "char", "string">> /\ t[1] = s
    BY <1>4, <1>5, <1>6, <2>1
  <2>3. v \in Ends(s)
    BY <2>2 DEF Values
  <2>4. Fits(s, v)
    BY <2>3, EndsFit
  <2>5. Size(s, v) <= 4 + 4 * DEFAULT_RPC_SZ
    <3>1. Size(s, v) = Widths[s] /\ Widths[s] \in 1 .. 8
      BY <1>2, <1>4 DEF Size
    <3> QED BY <1>1, <3>1
  <2>6. s \in Scalars
    BY <1>4
  <2> QED BY <2>1, <2>4, <2>5, <2>6, ScalarSample
<1>8. CASE t = <<"string">>
  <2>1. v \in Strings
    BY <1>8 DEF Values
  <2>2. Fits("string", v) /\ Len(v) \in Nat /\ Len(v) <= 4 * DEFAULT_RPC_SZ
    BY <2>1, StringsFit
  <2>3. Size("string", v) <= 4 + 4 * DEFAULT_RPC_SZ
    <3>1. Size("string", v) = 4 + Len(v)
      BY DEF Size
    <3> QED BY <1>1, <2>2, <3>1
  <2> QED BY <1>3, <1>8, <2>2, <2>3, ScalarSample
<1>9. CASE t = <<"vector", "short">>
  <2>1. t # <<"string">>
    BY <1>5, <1>9
  <2>2. v \in {<<>>, <<-1, 0>>}
    BY <1>9, <2>1 DEF Values
  <2>3. Len(v) \in 0 .. 4 /\ v = [i \in 1 .. Len(v) |-> v[i]] /\ \A i \in 1 .. Len(v) : v[i] \in {-1, 0}
    <3>1. CASE v = <<>>
      BY <3>1
    <3>2. CASE v = <<-1, 0>>
      BY <3>2
    <3> QED BY <2>2, <3>1, <3>2
  <2>4. \A x \in {-1, 0} : Fits("short", x) /\ Size("short", x) <= 5
    <3>1. \A x : Size("short", x) = 2
      BY <1>3 DEF Size
    <3>2. \A x : Fits("short", x) <=> x \in Int /\ -Pow[2] <= 2 * x /\ 2 * x < Pow[2]
      BY <1>3 DEF Fits
    <3>3. Pow[2] \in Nat /\ Pow[2] >= 3
      BY <1>1
    <3> DEFINE p == Pow[2]
    <3>4. p \in Nat /\ p >= 3
      BY <3>3
    <3> HIDE DEF p
    <3>5. \A x \in {-1, 0} : x \in Int /\ -p <= 2 * x /\ 2 * x < p
      BY <3>4
    <3> QED BY <3>1, <3>2, <3>5 DEF p
  <2>5. \A i \in 1 .. Len(v) : Fits("short", v[i]) /\ Size("short", v[i]) <= 5
    BY <2>3, <2>4
  <2> QED BY <1>3, <1>9, <2>3, <2>5, VectorSample
<1>10. ASSUME NEW x \in Int, 0 <= x, x < Base PROVE Fits("string", <<x>>) /\ Size("string", <<x>>) = 5
  <2>1. <<x>> \in Seq(0 .. Base - 1) /\ Len(<<x>>) = 1
    <3>1. x \in 0 .. Base - 1
      BY <1>1, <1>10
    <3> QED BY <3>1
  <2> QED BY <2>1 DEF Fits, Size
<1>11. CASE t = <<"vector", "string">>
  <2>1. t # <<"string">> /\ t # <<"vector", "short">>
    BY <1>5, <1>6, <1>11
  <2>2. v \in {<<>>, <<<<>>, <<1>>>>}
    BY <1>11, <2>1 DEF Values
  <2>3. Len(v) \in 0 .. 4 /\ v = [i \in 1 .. Len(v) |-> v[i]] /\ \A i \in 1 .. Len(v) : v[i] \in {<<>>, <<1>>}
    <3>1. CASE v = <<>>
      BY <3>1
    <3>2. CASE v = <<<<>>, <<1>>>>
      BY <3>2
    <3> QED BY <2>2, <3>1, <3>2
  <2>4. \A x \in {<<>>, <<1>>} : Fits("string", x) /\ Size("string", x) <= 5
    <3>1. Fits("string", <<1>>) /\ Size("string", <<1>>) = 5
      BY <1>1, <1>10
    <3>2. <<>> \in Seq(0 .. Base - 1) /\ Len(<<>>) = 0
      OBVIOUS
    <3>3. Fits("string", <<>>) /\ Size("string", <<>>) = 4
      BY <3>2 DEF Fits, Size
    <3> QED BY <3>1, <3>3
  <2>5. \A i \in 1 .. Len(v) : Fits("string", v[i]) /\ Size("string", v[i]) <= 5
    BY <2>3, <2>4
  <2> QED BY <1>3, <1>11, <2>3, <2>5, VectorSample
<1>12. CASE t = <<"map", "char", "string">>
  <2>1. t # <<"string">> /\ t # <<"vector", "short">> /\ t # <<"vector", "string">>
    BY <1>5, <1>12
  <2>2. v \in {<<>>, [k \in {-1, 1} |-> <<Base - 1>>]}
    BY <1>12, <2>1 DEF Values
  <2>3. /\ v = [x \in DOMAIN v |-> v[x]] /\ IsFiniteSet(DOMAIN v) /\ Cardinality(DOMAIN v) \in 0 .. 2
        /\ \A x \in DOMAIN v : x \in {-1, 1} /\ v[x] = <<Base - 1>>
    <3>1. CASE v = <<>>
      <4>1. DOMAIN v = {} /\ v = [x \in DOMAIN v |-> v[x]]
        BY <3>1
      <4>2. IsFiniteSet({}) /\ Cardinality({}) = 0
        BY FS_EmptySet
      <4> QED BY <4>1, <4>2
    <3>2. CASE v = [k \in {-1, 1} |-> <<Base - 1>>]
      <4>1. DOMAIN v = {-1, 1} /\ v = [x \in DOMAIN v |-> v[x]] /\ \A x \in {-1, 1} : v[x] = <<Base - 1>>
        BY <3>2
      <4>2. IsFiniteSet({-1, 1}) /\ Cardinality({-1, 1}) = 2
        <5>1. IsFiniteSet({-1}) /\ Cardinality({-1}) = 1
          BY FS_Singleton
        <5>2. {-1, 1} = {-1} \cup {1} /\ 1 \notin {-1}
          OBVIOUS
        <5> QED BY <5>1, <5>2, FS_AddElement
      <4> QED BY <4>1, <4>2
    <3> QED BY <2>2, <3>1, <3>2
  <2>4. \A x \in {-1, 1} : Fits("char", x)
    <3>1. \A x : Fits("char", x) <=> x \in Int /\ -Pow[1] <= 2 * x /\ 2 * x < Pow[1]
      BY <1>3 DEF Fits
    <3>2. Pow[1] \in Nat /\ Pow[1] >= 3
      BY <1>1
    <3> DEFINE p == Pow[1]
    <3>3. p \in Nat /\ p >= 3
      BY <3>2
    <3> HIDE DEF p
    <3>4. \A x \in {-1, 1} : x \in Int /\ -p <= 2 * x /\ 2 * x < p
      BY <3>3
    <3> QED BY <3>1, <3>4 DEF p
  <2>5. Fits("string", <<Base - 1>>) /\ Size("string", <<Base - 1>>) = 5
    BY <1>1, <1>10
  <2>6. Widths["char"] <= 5
    BY <1>3
  <2>7. \A x \in DOMAIN v : Fits("char", x) /\ Fits("string", v[x]) /\ Size("string", v[x]) <= 5
    BY <2>3, <2>4, <2>5
  <2> QED BY <1>3, <1>12, <2>3, <2>6, <2>7, MapSample
<1> QED BY <1>7, <1>8, <1>9, <1>11, <1>12 DEF Types

\* The two headers that the run draws are headers.
LEMMA HeaderSample ==
  ASSUME NEW n \in 1 .. 2
  PROVE  HeaderFits(Header(n))
<1> DEFINE h == Header(n)
<1>1. Word \in Nat /\ Word > 40 /\ Word = Pow[4]
  BY RoomIs
<1>2. "int" # "string" /\ "uint" # "string" /\ "int" # "bool" /\ "uint" # "bool"
      /\ "uint" \notin {"char", "short", "int"} /\ Widths["int"] = 4 /\ Widths["uint"] = 4
  BY DEF Widths
<1>3. \A x : Fits("int", x) <=> x \in Int /\ -Word <= 2 * x /\ 2 * x < Word
  BY <1>1, <1>2 DEF Fits
<1>4. \A x : Fits("uint", x) <=> x \in 0 .. Word - 1
  BY <1>1, <1>2 DEF Fits
<1>5. /\ h.xid \in {Word \div 2 - 1, 1} /\ h.proc \in {-1, 1} /\ h.xid_rep \in {0, 1}
      /\ h.clt_nonce \in {Word - 1, 0} /\ h.srv_nonce \in {Word - 1, 0}
      /\ h = [xid |-> h.xid, proc |-> h.proc, clt_nonce |-> h.clt_nonce, srv_nonce |-> h.srv_nonce,
              xid_rep |-> h.xid_rep]
  <2>1. CASE n = 1
    BY <2>1 DEF Header
  <2>2. CASE n # 1
    BY <2>2 DEF Header
  <2> QED BY <2>1, <2>2
<1> HIDE DEF h
<1>6. \A x \in {Word \div 2 - 1, 1, -1, 0} : x \in Int /\ -Word <= 2 * x /\ 2 * x < Word
  BY <1>1
<1>7. \A x \in {Word - 1, 0} : x \in 0 .. Word - 1
  BY <1>1
<1>8. \A x \in {h.xid, h.proc, h.xid_rep} : Fits("int", x)
  BY <1>3, <1>5, <1>6
<1>9. \A x \in {h.clt_nonce, h.srv_nonce} : Fits("uint", x)
  BY <1>4, <1>5, <1>7
<1>10. HeaderFits(h)
  BY <1>5, <1>8, <1>9 DEF HeaderFits
<1> QED BY <1>10 DEF h

\* The calls that the run draws fit their signature and an int.
LEMMA CallSample ==
  ASSUME NEW t1 \in Types, NEW t2 \in Types, NEW v1 \in Values(t1), NEW v2 \in Values(t2),
         NEW n \in 1 .. 2
  PROVE  LET sig == <<t1, t2>>
             args == <<v1, v2>>
             h == Header(n) IN
         /\ SigFits(sig, args) /\ HeaderFits(h) /\ Len(CallRequest(sig, args, h)) < Word
         /\ Len(sig) = 2 /\ sig[1] = t1 /\ IsType(t1)
<1> DEFINE sig == <<t1, t2>>
           args == <<v1, v2>>
           h == Header(n)
           b == CallRequest(sig, args, h)
<1>1. /\ Len(sig) = 2 /\ sig[1] = t1 /\ sig[2] = t2 /\ args[1] = v1 /\ args[2] = v2
      /\ args = [i \in 1 .. 2 |-> args[i]]
  OBVIOUS
<1>2. /\ IsType(t1) /\ FitsType(t1, v1) /\ Grows(t1, v1)
      /\ IsType(t2) /\ FitsType(t2, v2) /\ Grows(t2, v2)
  BY SamplesAre DEF Sample
<1> HIDE DEF sig, args
<1>3. SigFits(sig, args)
  <2>1. \A i \in 1 .. 2 : i = 1 \/ i = 2
    OBVIOUS
  <2>2. \A i \in 1 .. 2 : IsType(sig[i]) /\ FitsType(sig[i], args[i])
    BY <1>1, <1>2, <2>1
  <2>3. Len(sig) \in Nat
    BY <1>1
  <2> QED BY <1>1, <2>2, <2>3 DEF SigFits
<1>4. HeaderFits(h)
  BY HeaderSample
<1> HIDE DEF h
<1>5. PICK f : Requested(b, f, sig, args, h)
  BY <1>3, <1>4, RequestIs
<1> HIDE DEF b
<1>6. Puts(f, NewMarshall, sig, args) /\ Len(b) = f[2].ind /\ Steps(f, 2) /\ f[0] = NewMarshall
      /\ \A i \in 1 .. 2 : f[i] = Put(f[i - 1], sig[i], args[i])
  BY <1>1, <1>5 DEF Requested, Puts
<1>7. Obj(f[0]) /\ Obj(f[1]) /\ Obj(f[2])
  <2>1. 0 \in 0 .. 2 /\ 1 \in 0 .. 2 /\ 2 \in 0 .. 2
    OBVIOUS
  <2> QED BY <1>6, <2>1, Chain
<1>8. f[1] = Put(f[0], t1, v1) /\ f[2] = Put(f[1], t2, v2)
  <2>1. 1 \in 1 .. 2 /\ 2 \in 1 .. 2 /\ 1 - 1 = 0 /\ 2 - 1 = 1
    OBVIOUS
  <2>2. f[1] = Put(f[1 - 1], sig[1], args[1]) /\ f[2] = Put(f[2 - 1], sig[2], args[2])
    BY <1>6, <2>1
  <2> QED BY <1>1, <2>1, <2>2
<1>9. /\ f[1].ind <= f[0].ind + 4 + 4 * DEFAULT_RPC_SZ
      /\ f[2].ind <= f[1].ind + 4 + 4 * DEFAULT_RPC_SZ
  BY <1>2, <1>7, <1>8 DEF Grows
<1>10. Len(b) < Word
  <2> DEFINE i == f[0].ind
             j == f[1].ind
             k == f[2].ind
             c == DEFAULT_RPC_SZ
             wd == Word
  <2>1. i \in Nat /\ j \in Nat /\ k \in Nat
    BY <1>7 DEF Obj
  <2>2. i = 24
    BY <1>6, NewIs
  <2>3. c \in Nat /\ wd \in Nat /\ 8 * c + 40 < wd
    BY RoomIs
  <2>4. j <= i + 4 + 4 * c /\ k <= j + 4 + 4 * c
    BY <1>9
  <2>5. Len(b) = k
    BY <1>6
  <2> HIDE DEF i, j, k, c, wd
  <2>6. k < wd
    BY <2>1, <2>2, <2>3, <2>4
  <2> QED BY <2>5, <2>6 DEF wd
<1>11. Len(sig) = 2 /\ sig[1] = t1
  BY <1>1
<1> QED BY <1>2, <1>3, <1>4, <1>10, <1>11 DEF sig, args, h, b

\* The handlers of another number of parameters that MismatchIsRefused tries.
LEMMA CallRefused ==
  ASSUME NEW t1 \in Types, NEW t2 \in Types, NEW v1 \in Values(t1), NEW v2 \in Values(t2),
         NEW n \in 1 .. 2, NEW s \in {<<t1>>, Append(<<t1, t2>>, t1)}
  PROVE  Dispatched(CallRequest(<<t1, t2>>, <<v1, v2>>, Header(n)), s).fn =
           [called |-> FALSE, ret |-> unmarshal_args_failure]
<1> DEFINE sig == <<t1, t2>>
           args == <<v1, v2>>
           h == Header(n)
<1>1. SigFits(sig, args) /\ HeaderFits(h) /\ Len(CallRequest(sig, args, h)) < Word
  BY CallSample
<1>2. Len(sig) = 2 /\ sig[1] = t1 /\ sig[2] = t2 /\ IsType(t1)
  BY CallSample
<1>3. CASE s = <<t1>>
  <2>1. Len(s) = 1 /\ s[1] = t1
    BY <1>3
  <2> HIDE DEF sig, args, h
  <2>2. Len(s) \in 0 .. Len(sig) - 1
    BY <1>2, <2>1
  <2>3. \A i \in 1 .. Len(s) : s[i] = sig[i]
    BY <1>2, <2>1
  <2>4. Dispatched(CallRequest(sig, args, h), s).fn = [called |-> FALSE, ret |-> unmarshal_args_failure]
    BY <1>1, <2>2, <2>3, TooManyArguments
  <2> QED BY <2>4 DEF sig, args, h
<1>4. CASE s = Append(sig, t1)
  <2>1. Len(s) = 3 /\ s[1] = t1 /\ s[2] = t2 /\ s[3] = t1
    <3>1. sig \in Seq({t1, t2}) /\ t1 \in {t1, t2}
      OBVIOUS
    <3> HIDE DEF sig
    <3>2. Len(s) = Len(sig) + 1 /\ s[Len(sig) + 1] = t1 /\ \A i \in 1 .. Len(sig) : s[i] = sig[i]
      BY <1>4, <3>1, AppendProperties
    <3> QED BY <1>2, <3>2
  <2> HIDE DEF sig, args, h
  <2>2. Len(s) = Len(sig) + 1
    BY <1>2, <2>1
  <2>3. \A i \in 1 .. Len(sig) : s[i] = sig[i]
    <3>1. \A i \in 1 .. Len(sig) : i = 1 \/ i = 2
      BY <1>2
    <3> QED BY <1>2, <2>1, <3>1
  <2>4. IsType(s[Len(s)])
    BY <1>2, <2>1
  <2>5. Dispatched(CallRequest(sig, args, h), s).fn = [called |-> FALSE, ret |-> unmarshal_args_failure]
    BY <1>1, <2>2, <2>3, <2>4, TooFewArguments
  <2> QED BY <2>5 DEF sig, args, h
<1> QED BY <1>3, <1>4

\* The results that the run draws fit their type and an int.
LEMMA ResultSample ==
  ASSUME NEW t \in Types, NEW r \in Values(t)
  PROVE  IsType(t) /\ FitsType(t, r) /\ Len(Reply(1, 0, t, r)) < Word
<1> DEFINE m == Put(NewMarshall, t, r)
           b == Reply(1, 0, t, r)
<1>1. IsType(t) /\ FitsType(t, r) /\ Grows(t, r)
  BY SamplesAre DEF Sample
<1>2. Obj(NewMarshall) /\ NewMarshall.ind = 24
  BY NewIs
<1>3. PICK c \in Nat : Wrote(NewMarshall, m, c)
  BY <1>1, <1>2, PutIs
<1>4. Obj(m) /\ m.ind <= 24 + 4 + 4 * DEFAULT_RPC_SZ /\ m.ind \in Nat /\ m.ind >= 24
  <2>1. Obj(m) /\ m.ind = 24 + c
    BY <1>2, <1>3 DEF Wrote
  <2>2. m.ind <= NewMarshall.ind + 4 + 4 * DEFAULT_RPC_SZ
    BY <1>1, <1>2 DEF Grows
  <2> HIDE DEF m
  <2> QED BY <1>2, <2>1, <2>2
<1>5. Len(b) = m.ind
  <2>1. b = Sent(PackHeader(m, ReplyTypes, <<1, 0>>))
    <3>1. \A a, d : [xid |-> a, ret |-> d].xid = a /\ [xid |-> a, ret |-> d].ret = d
      OBVIOUS
    <3> QED BY <3>1 DEF Reply, pack_reply_header
  <2> HIDE DEF m, b
  <2> QED BY <1>4, <2>1, ReplyListed, PackIs DEF RPC_HEADER_SZ
<1>6. Len(b) < Word
  <2> DEFINE k == m.ind
             c1 == DEFAULT_RPC_SZ
             wd == Word
  <2>1. k \in Nat /\ k <= 24 + 4 + 4 * c1
    BY <1>4
  <2>2. c1 \in Nat /\ wd \in Nat /\ 8 * c1 + 40 < wd
    BY RoomIs
  <2>3. Len(b) = k
    BY <1>5
  <2> HIDE DEF k, c1, wd
  <2>4. k < wd
    BY <2>1, <2>2
  <2> QED BY <2>3, <2>4 DEF wd
<1> QED BY <1>1, <1>6

\* The samples of the run, which no step changes.
Drawn ==
  /\ sample.kind = "call" =>
       \E t1, t2 \in Types : \E v1 \in Values(t1), v2 \in Values(t2), n \in 1 .. 2 :
         sample.sig = <<t1, t2>> /\ sample.args = <<v1, v2>> /\ sample.h = Header(n)
  /\ sample.kind = "result" =>
       \E t, into \in Types : \E r \in Values(t) :
         sample.t = t /\ sample.r = r /\ sample.into = into

\* No step changes the sample.
LEMMA AlwaysDrawn == DataSpec => []Drawn
<1>1. DataInit => Drawn
  <2> SUFFICES ASSUME DataInit PROVE Drawn
    OBVIOUS
  <2>1. CASE sample = [kind |-> "none"]
    BY <2>1 DEF Drawn
  <2>2. CASE \E t1, t2 \in Types : \E v1 \in Values(t1), v2 \in Values(t2), n \in 1 .. 2 :
               sample = [kind |-> "call", sig |-> <<t1, t2>>, args |-> <<v1, v2>>, h |-> Header(n)]
    <3>1. PICK t1 \in Types, t2 \in Types : \E v1 \in Values(t1), v2 \in Values(t2), n \in 1 .. 2 :
               sample = [kind |-> "call", sig |-> <<t1, t2>>, args |-> <<v1, v2>>, h |-> Header(n)]
      BY <2>2
    <3>2. PICK v1 \in Values(t1), v2 \in Values(t2), n \in 1 .. 2 :
               sample = [kind |-> "call", sig |-> <<t1, t2>>, args |-> <<v1, v2>>, h |-> Header(n)]
      BY <3>1
    <3>3. sample.kind = "call" /\ sample.sig = <<t1, t2>> /\ sample.args = <<v1, v2>> /\ sample.h = Header(n)
      BY <3>2
    <3>4. sample.kind # "result"
      BY <3>3
    <3> QED BY <3>3, <3>4 DEF Drawn
  <2>3. CASE \E t, into \in Types : \E r \in Values(t) :
               sample = [kind |-> "result", t |-> t, r |-> r, into |-> into]
    <3>1. PICK t \in Types, into \in Types : \E r \in Values(t) :
               sample = [kind |-> "result", t |-> t, r |-> r, into |-> into]
      BY <2>3
    <3>2. PICK r \in Values(t) : sample = [kind |-> "result", t |-> t, r |-> r, into |-> into]
      BY <3>1
    <3>3. sample.kind = "result" /\ sample.t = t /\ sample.r = r /\ sample.into = into
      BY <3>2
    <3>4. sample.kind # "call"
      BY <3>3
    <3> QED BY <3>3, <3>4 DEF Drawn
  <2>4. CASE \E start, now \in Clock, to, curr_to \in Timeouts :
               sample = [kind |-> "turn", start |-> start, now |-> now, to |-> to, curr_to |-> curr_to]
    <3>1. sample.kind = "turn"
      BY <2>4
    <3> QED BY <3>1 DEF Drawn
  <2> QED BY <2>1, <2>2, <2>3, <2>4 DEF DataInit, SampleInit
<1>2. Drawn /\ [DataNext]_<<vars, sample>> => Drawn'
  <2> SUFFICES ASSUME Drawn, sample' = sample PROVE Drawn'
    BY DEF DataNext
  <2> QED BY DEF Drawn
<1> QED BY <1>1, <1>2, PTL DEF DataSpec

\* The handler gets the arguments and dispatch the header that the caller packed,
\* and call_m the result that the handler packed (ExchangeIsExact): what the << and
\* pack_req_header of marshall.h wrote, in however many reallocations of the buffer, is what
\* the >> and unpack_req_header read, for bytes of any size and buffers of any capacity.
THEOREM ExchangeIsExactHolds == DataSpec => []ExchangeIsExact
<1>1. Drawn => ExchangeIsExact
  <2> SUFFICES ASSUME Drawn PROVE ExchangeIsExact
    OBVIOUS
  <2>1. ASSUME sample.kind = "call"
        PROVE  Dispatched(CallRequest(sample.sig, sample.args, sample.h), sample.sig) =
                 [handled |-> TRUE, h |-> sample.h, fn |-> [called |-> TRUE, args |-> sample.args]]
    <3>1. PICK t1 \in Types, t2 \in Types : \E v1 \in Values(t1), v2 \in Values(t2), n \in 1 .. 2 :
            sample.sig = <<t1, t2>> /\ sample.args = <<v1, v2>> /\ sample.h = Header(n)
      BY <2>1 DEF Drawn
    <3>2. PICK v1 \in Values(t1), v2 \in Values(t2), n \in 1 .. 2 :
            sample.sig = <<t1, t2>> /\ sample.args = <<v1, v2>> /\ sample.h = Header(n)
      BY <3>1
    <3> DEFINE sig == sample.sig
               args == sample.args
               h == sample.h
    <3>3. SigFits(sig, args) /\ HeaderFits(h) /\ Len(CallRequest(sig, args, h)) < Word
      BY <3>2, CallSample
    <3> HIDE DEF sig, args, h
    <3>4. Dispatched(CallRequest(sig, args, h), sig) =
            [handled |-> TRUE, h |-> h, fn |-> [called |-> TRUE, args |-> args]]
      BY <3>3, CallIsExact
    <3> QED BY <3>4 DEF sig, args, h
  <2>2. ASSUME sample.kind = "result"
        PROVE  CallResult(Reply(1, 0, sample.t, sample.r), sample.t) = [ret |-> 0, r |-> sample.r]
    <3>1. sample.t \in Types /\ sample.r \in Values(sample.t)
      BY <2>2 DEF Drawn
    <3>2. IsType(sample.t) /\ FitsType(sample.t, sample.r) /\ Len(Reply(1, 0, sample.t, sample.r)) < Word
      BY <3>1, ResultSample
    <3> QED BY <3>2, ResultIsExact
  <2> QED BY <2>1, <2>2 DEF ExchangeIsExact
<1> QED BY <1>1, AlwaysDrawn, PTL

\* A handler with fewer or more parameters than the call has arguments is not called,
\* and an integer is not taken out of a result of another size (MismatchIsRefused): the
\* okdone of rpcs::reg and of call_m wants the content read completely and not beyond.
THEOREM MismatchIsRefusedHolds == DataSpec => []MismatchIsRefused
<1>1. Drawn => MismatchIsRefused
  <2> SUFFICES ASSUME Drawn PROVE MismatchIsRefused
    OBVIOUS
  <2>1. ASSUME sample.kind = "call",
               NEW s \in {<<sample.sig[1]>>, Append(sample.sig, sample.sig[1])}
        PROVE  Dispatched(CallRequest(sample.sig, sample.args, sample.h), s).fn =
                 [called |-> FALSE, ret |-> unmarshal_args_failure]
    <3>1. PICK t1 \in Types, t2 \in Types : \E v1 \in Values(t1), v2 \in Values(t2), n \in 1 .. 2 :
            sample.sig = <<t1, t2>> /\ sample.args = <<v1, v2>> /\ sample.h = Header(n)
      BY <2>1 DEF Drawn
    <3>2. PICK v1 \in Values(t1), v2 \in Values(t2), n \in 1 .. 2 :
            sample.sig = <<t1, t2>> /\ sample.args = <<v1, v2>> /\ sample.h = Header(n)
      BY <3>1
    <3>4. s = <<sample.sig[1]>> \/ s = Append(sample.sig, sample.sig[1])
      OBVIOUS
    <3>5. sample.sig = <<t1, t2>> /\ sample.sig[1] = t1
      BY <3>2
    <3>6. s \in {<<t1>>, Append(<<t1, t2>>, t1)}
      BY <3>4, <3>5
    <3>7. Dispatched(CallRequest(<<t1, t2>>, <<v1, v2>>, Header(n)), s).fn =
            [called |-> FALSE, ret |-> unmarshal_args_failure]
      BY <3>6, CallRefused
    <3> QED BY <3>2, <3>7
  <2>2. ASSUME sample.kind = "result", sample.into[1] \in DOMAIN Widths
        PROVE  LET b == Reply(1, 0, sample.t, sample.r)
               IN  CallResult(b, sample.into).ret =
                     IF Len(b) = RPC_HEADER_SZ + Widths[sample.into[1]] THEN 0
                     ELSE unmarshal_reply_failure
    <3> DEFINE t == sample.t
               r == sample.r
               s == sample.into[1]
    <3>1. t \in Types /\ r \in Values(t) /\ sample.into \in Types
      BY <2>2 DEF Drawn
    <3>2. IsType(t) /\ FitsType(t, r) /\ Len(Reply(1, 0, t, r)) < Word
      BY <3>1, ResultSample
    <3>3. sample.into = <<s>>
      <4>1. "string" \notin DOMAIN Widths /\ "vector" \notin DOMAIN Widths /\ "map" \notin DOMAIN Widths
        BY WidthsAre
      <4>2. /\ <<"string">>[1] = "string" /\ <<"vector", "short">>[1] = "vector"
            /\ <<"vector", "string">>[1] = "vector" /\ <<"map", "char", "string">>[1] = "map"
        OBVIOUS
      <4>3. PICK x \in DOMAIN Widths : sample.into = <<x>>
        BY <2>2, <3>1, <4>1, <4>2 DEF Types
      <4> QED BY <4>3
    <3>4. s \in DOMAIN Widths
      BY <2>2
    <3> HIDE DEF t, r, s
    <3>5. CallResult(Reply(1, 0, t, r), <<s>>).ret =
            IF Len(Reply(1, 0, t, r)) = RPC_HEADER_SZ + Widths[s] THEN 0 ELSE unmarshal_reply_failure
      BY <3>2, <3>4, ResultIsRefused
    <3> QED BY <3>3, <3>5 DEF t, r, s
  <2> QED BY <2>1, <2>2 DEF MismatchIsRefused
<1> QED BY <1>1, AlwaysDrawn, PTL
=============================================================================
