---------------------------- MODULE ThrPoolProofs ----------------------------
(***************************************************************************)
(* Proofs about ThrPool for any number of workers and jobs, any capacity   *)
(* of the queue and either kind of addJob.                                 *)
(***************************************************************************)
EXTENDS ThrPool, FiniteSetTheorems, TLAPS

USE PillAssumption, CapacityAssumption, WorkersAssumption

-----------------------------------------------------------------------------
(* The invariant of the shutdown *)

Exited == {w \in Workers : worker[w].at = "exited"}

\* The pills that enq has accepted, and those of them still in the queue.
Queuing == dtor = "pills" /\ adder[Destroyer] = "added"
PillsAdded == IF Queuing THEN pills + 1 ELSE pills
PillsLeft == PillsAdded - Cardinality(Exited)

\* The progress of the destructor: it runs when no addJob does, and it queues one
\* pill per worker before it joins them.
DtorInv ==
    /\ dtor # "none" => \A j \in Jobs : adder[j] \in {"idle", "added", "refused"}
    /\ dtor = "none" => pills = 0 /\ adder[Destroyer] = "idle"
    /\ dtor = "pills" => pills < Cardinality(Workers)
    /\ dtor \in {"joining", "done"} => pills = Cardinality(Workers) /\ adder[Destroyer] = "added"
    /\ dtor = "done" => Exited = Workers

\* The pills in the queue are its last PillsLeft items; once a worker has taken a
\* pill there is nothing else in it.
PillInv ==
    /\ 0 <= PillsLeft /\ PillsLeft <= Len(q)
    /\ \A i \in 1 .. Len(q) : q[i] = Pill <=> i > Len(q) - PillsLeft
    /\ Exited # {} => PillsLeft = Len(q)

\* A job that was added is in the queue once, or has been started once.
JobInv ==
    /\ \A j \in Jobs :
          /\ adder[j] # "added" => ~Queued(j) /\ runs[j] = 0
          /\ adder[j] = "added" => runs[j] = (IF Queued(j) THEN 0 ELSE 1)
    /\ \A i, k \in 1 .. Len(q) : q[i] = q[k] /\ q[i] # Pill => i = k

IInv == TypeOK /\ EnoughAwake /\ DtorInv /\ PillInv /\ JobInv

-----------------------------------------------------------------------------
(* How the sets of workers change *)

WorkerStates == [at : {"deq", "asleep", "woken", "exited"}] \cup [at : {"running"}, job : Jobs]

\* The sets of workers are finite.
LEMMA Counts ==
  /\ IsFiniteSet(Awake) /\ Cardinality(Awake) \in Nat
  /\ IsFiniteSet(Exited) /\ Cardinality(Exited) \in Nat
  /\ Cardinality(Exited) <= Cardinality(Workers)
  /\ Cardinality(Workers) \in Nat \ {0}
<1>1. Awake \in SUBSET Workers /\ Exited \in SUBSET Workers
  BY DEF Awake, Exited
<1>2. IsFiniteSet(Awake) /\ IsFiniteSet(Exited) /\ Cardinality(Exited) <= Cardinality(Workers)
  BY <1>1, FS_Subset
<1>3. Cardinality(Awake) \in Nat /\ Cardinality(Exited) \in Nat /\ Cardinality(Workers) \in Nat
  BY <1>2, FS_CardinalityType
<1>4. Cardinality(Workers) # 0
  BY FS_EmptySet
<1> QED BY <1>2, <1>3, <1>4

\* A signal, or a spurious wakeup, puts one more worker on its way to the queue.
LEMMA WakeOne ==
  ASSUME TypeOK, NEW w \in Asleep, worker' = [worker EXCEPT ![w].at = "woken"]
  PROVE  /\ worker' \in [Workers -> WorkerStates]
         /\ Cardinality(Awake') = Cardinality(Awake) + 1
         /\ Exited' = Exited
<1>1. w \in Workers /\ worker[w] \in [at : {"deq", "asleep", "woken", "exited"}] /\ worker[w].at = "asleep"
  BY DEF Asleep, TypeOK
<1>2. \A v \in Workers : v # w => worker'[v] = worker[v]
  BY DEF TypeOK
<1>3. worker'[w].at = "woken" /\ worker'[w] \in [at : {"deq", "asleep", "woken", "exited"}]
  BY <1>1 DEF TypeOK
<1>4. worker' \in [Workers -> WorkerStates]
  BY <1>1, <1>3 DEF TypeOK, WorkerStates
<1>5. Awake' = Awake \cup {w} /\ w \notin Awake
  BY <1>1, <1>2, <1>3 DEF Awake
<1>6. Exited' = Exited
  BY <1>1, <1>2, <1>3 DEF Exited
<1> QED BY <1>4, <1>5, <1>6, Counts, FS_AddElement

\* pthread_cond_signal(&non_empty_c_) keeps up with one more item in the queue.
LEMMA SignalFacts ==
  ASSUME TypeOK, EnoughAwake, SignalNonEmpty
  PROVE  /\ worker' \in [Workers -> WorkerStates]
         /\ Exited' = Exited
         /\ Asleep' # {} => Cardinality(Awake') >= Len(q) + 1
<1>0. Len(q) \in Nat /\ Cardinality(Awake) \in Nat /\ worker \in [Workers -> WorkerStates]
  BY Counts DEF TypeOK, WorkerStates
<1>1. CASE Asleep = {}
  BY <1>0, <1>1 DEF SignalNonEmpty, Asleep, Awake, Exited
<1>2. CASE Asleep # {}
  <2>1. PICK w \in Asleep : worker' = [worker EXCEPT ![w].at = "woken"]
    BY <1>2 DEF SignalNonEmpty
  <2>2. /\ worker' \in [Workers -> WorkerStates]
        /\ Cardinality(Awake') = Cardinality(Awake) + 1
        /\ Exited' = Exited
    BY <2>1, WakeOne
  <2>3. Cardinality(Awake) >= Len(q)
    BY <1>2 DEF EnoughAwake
  <2> QED BY <1>0, <2>2, <2>3
<1> QED BY <1>1, <1>2

-----------------------------------------------------------------------------
(* The steps preserve the invariant *)

\* What the invariant says of the items.
LEMMA ItemsFacts ==
  ASSUME TypeOK
  PROVE  /\ Len(q) \in Nat /\ DOMAIN q = 1 .. Len(q) /\ \A i \in 1 .. Len(q) : q[i] \in Items
         /\ \A j : Queued(j) <=> \E i \in 1 .. Len(q) : q[i] = j
BY DEF TypeOK, Queued

\* What appending an item changes.
LEMMA AppendFacts ==
  ASSUME TypeOK, NEW item \in Items, HasSpace, q' = Append(q, item)
  PROVE  /\ q' \in Seq(Items) /\ Len(q') = Len(q) + 1
         /\ \A i \in 1 .. Len(q) : q'[i] = q[i]
         /\ q'[Len(q) + 1] = item
         /\ Capacity > 0 => Len(q') <= Capacity
         /\ \A j : Queued(j)' <=> Queued(j) \/ j = item
<1>1. /\ q \in Seq(Items) /\ Len(q) \in Nat
      /\ q' \in Seq(Items) /\ Len(q') = Len(q) + 1
      /\ \A i \in 1 .. Len(q) : q'[i] = q[i]
      /\ q'[Len(q) + 1] = item
  BY DEF TypeOK
<1>2. Capacity > 0 => Len(q') <= Capacity
  BY <1>1 DEF HasSpace, TypeOK
<1>3. DOMAIN q = 1 .. Len(q) /\ DOMAIN q' = 1 .. Len(q) + 1
  BY <1>1
<1>4. \A j : Queued(j)' <=> Queued(j) \/ j = item
  <2>1. \A i : i \in DOMAIN q' <=> i \in DOMAIN q \/ i = Len(q) + 1
    BY <1>1, <1>3
  <2>2. \A i \in DOMAIN q : q'[i] = q[i]
    BY <1>1, <1>3
  <2> QED BY <1>1, <2>1, <2>2 DEF Queued
<1> QED BY <1>1, <1>2, <1>4

\* What taking the head changes.
LEMMA TailFacts ==
  ASSUME TypeOK, q # <<>>, q' = Tail(q)
  PROVE  /\ q' \in Seq(Items) /\ Len(q) >= 1 /\ Len(q') = Len(q) - 1
         /\ Head(q) = q[1] /\ q[1] \in Items
         /\ \A i \in 1 .. Len(q) - 1 : q'[i] = q[i + 1]
         /\ \A j : Queued(j) <=> Queued(j)' \/ j = q[1]
<1>1. /\ q \in Seq(Items) /\ Len(q) \in Nat /\ Len(q) >= 1
      /\ q' \in Seq(Items) /\ Len(q') = Len(q) - 1
      /\ Head(q) = q[1] /\ q[1] \in Items
      /\ \A i \in 1 .. Len(q) - 1 : q'[i] = q[i + 1]
  BY DEF TypeOK
<1>2. DOMAIN q = 1 .. Len(q) /\ DOMAIN q' = 1 .. Len(q) - 1
  BY <1>1
<1>3. \A j : Queued(j) <=> Queued(j)' \/ j = q[1]
  <2>1. ASSUME NEW j, Queued(j), j # q[1] PROVE Queued(j)'
    <3>1. PICK i \in 1 .. Len(q) : q[i] = j
      BY <1>2, <2>1 DEF Queued
    <3>2. i - 1 \in 1 .. Len(q) - 1 /\ i = (i - 1) + 1
      BY <1>1, <2>1, <3>1
    <3>3. q'[i - 1] = j
      BY <1>1, <3>1, <3>2
    <3> QED BY <1>2, <3>2, <3>3 DEF Queued
  <2>2. ASSUME NEW j, Queued(j)' PROVE Queued(j)
    <3>1. PICK i \in 1 .. Len(q) - 1 : q'[i] = j
      BY <1>2, <2>2 DEF Queued
    <3>2. i + 1 \in 1 .. Len(q) /\ q[i + 1] = j
      BY <1>1, <3>1
    <3> QED BY <1>2, <3>2 DEF Queued
  <2>3. Queued(q[1])
    BY <1>1, <1>2 DEF Queued
  <2> QED BY <2>1, <2>2, <2>3
<1> QED BY <1>1, <1>3

\* What the invariant says of the pills before the destructor is called.
LEMMA NoPillsYet ==
  ASSUME IInv, dtor = "none"
  PROVE  pills = 0 /\ Exited = {} /\ PillsLeft = 0
<1>1. pills = 0 /\ PillsAdded = 0
  BY DEF IInv, DtorInv, PillsAdded, Queuing
<1>2. Cardinality(Exited) = 0
  BY <1>1, Counts DEF IInv, PillInv, PillsLeft
<1> QED BY <1>1, <1>2, Counts, FS_EmptySet DEF PillsLeft

\* addJob keeps the invariant.
LEMMA AddJobKeepsInv ==
  ASSUME IInv, NEW j \in Jobs, addJob(j)
  PROVE  IInv'
<1>0. /\ TypeOK /\ EnoughAwake /\ DtorInv /\ PillInv /\ JobInv
      /\ UNCHANGED <<pills, dtor, runs>> /\ adder[j] \in {"enq", "woken"}
      /\ j \in Items /\ j \in Adders /\ j # Pill /\ Destroyer # j
  BY DEF IInv, addJob, enq, Items, Adders
<1>1. dtor = "none" /\ pills = 0 /\ Exited = {} /\ PillsLeft = 0
  BY <1>0, NoPillsYet DEF DtorInv
<1>2. CASE HasSpace
  <2>1. /\ q' = Append(q, j) /\ SignalNonEmpty
        /\ adder' = [adder EXCEPT ![j] = "added"]
    BY <1>2 DEF addJob, enq
  <2>2. /\ q' \in Seq(Items) /\ Len(q') = Len(q) + 1
        /\ \A i \in 1 .. Len(q) : q'[i] = q[i]
        /\ q'[Len(q) + 1] = j
        /\ Capacity > 0 => Len(q') <= Capacity
        /\ \A k : Queued(k)' <=> Queued(k) \/ k = j
    BY <1>0, <1>2, <2>1, AppendFacts
  <2>3. /\ worker' \in [Workers -> WorkerStates]
        /\ Exited' = Exited
        /\ Asleep' # {} => Cardinality(Awake') >= Len(q) + 1
    BY <1>0, <2>1, SignalFacts
  <2>4. /\ \A e \in Adders : adder'[e] = IF e = j THEN "added" ELSE adder[e]
        /\ adder' \in [Adders -> {"idle", "enq", "asleep", "woken", "added", "refused"}]
    BY <1>0, <2>1 DEF TypeOK
  <2>5. TypeOK'
    BY <1>0, <2>2, <2>3, <2>4 DEF TypeOK, WorkerStates
  <2>6. EnoughAwake'
    BY <2>2, <2>3 DEF EnoughAwake
  <2>7. DtorInv'
    BY <1>0, <1>1, <2>3, <2>4 DEF DtorInv, Adders
  <2>8. PillInv'
    <3>1. PillsLeft' = 0
      <4>1. PillsAdded' = 0
        BY <1>0, <1>1 DEF PillsAdded, Queuing
      <4> QED BY <1>1, <2>3, <4>1, FS_EmptySet DEF PillsLeft
    <3>2. Len(q) \in Nat /\ \A i \in 1 .. Len(q) : q[i] # Pill
      BY <1>0, <1>1 DEF PillInv, TypeOK
    <3> QED BY <1>0, <1>1, <2>2, <2>3, <3>1, <3>2 DEF PillInv
  <2>9. JobInv'
    <3>1. ~Queued(j) /\ runs[j] = 0
      BY <1>0 DEF JobInv
    <3>2. Len(q) \in Nat /\ \A i \in 1 .. Len(q) : q[i] # j
      BY <1>0, <3>1, ItemsFacts
    <3>3. \A i, k \in 1 .. Len(q') : q'[i] = q'[k] /\ q'[i] # Pill => i = k
      BY <1>0, <2>2, <3>2 DEF JobInv
    <3>4. ASSUME NEW k \in Jobs
          PROVE  /\ adder'[k] # "added" => ~Queued(k)' /\ runs'[k] = 0
                 /\ adder'[k] = "added" => runs'[k] = (IF Queued(k)' THEN 0 ELSE 1)
      BY <1>0, <2>2, <2>4, <3>1 DEF JobInv, Adders
    <3> QED BY <3>3, <3>4 DEF JobInv
  <2> QED BY <2>5, <2>6, <2>7, <2>8, <2>9 DEF IInv
<1>3. CASE ~HasSpace
  <2>1. /\ UNCHANGED <<q, worker>>
        /\ adder' = [adder EXCEPT ![j] = IF Blocking THEN "asleep" ELSE "refused"]
    BY <1>3 DEF addJob, enq
  <2>2. /\ \A e \in Adders : e # j => adder'[e] = adder[e]
        /\ adder'[j] # "added"
        /\ adder' \in [Adders -> {"idle", "enq", "asleep", "woken", "added", "refused"}]
    BY <1>0, <2>1 DEF TypeOK
  <2>3. TypeOK' /\ EnoughAwake'
    BY <1>0, <2>1, <2>2 DEF TypeOK, EnoughAwake, Asleep, Awake
  <2>4. DtorInv'
    BY <1>0, <1>1, <2>1, <2>2 DEF DtorInv, Adders
  <2>5. PillInv'
    <3>1. PillsLeft' = PillsLeft
      BY <1>0, <1>1, <2>1 DEF PillsLeft, PillsAdded, Queuing, Exited
    <3> QED BY <1>0, <2>1, <3>1 DEF PillInv, Exited
  <2>6. JobInv'
    BY <1>0, <2>1, <2>2 DEF JobInv, Queued, Adders
  <2> QED BY <2>3, <2>4, <2>5, <2>6 DEF IInv
<1> QED BY <1>2, <1>3

\* Queuing a pill keeps the invariant: the pills are the tail of the queue.
LEMMA EnqPillKeepsInv ==
  ASSUME IInv, EnqPill
  PROVE  IInv'
<1>0. /\ TypeOK /\ EnoughAwake /\ DtorInv /\ PillInv /\ JobInv
      /\ UNCHANGED <<pills, dtor, runs>> /\ adder[Destroyer] \in {"enq", "woken"}
      /\ Pill \in Items /\ Destroyer \in Adders
  BY DEF IInv, EnqPill, enq, Items, Adders
<1>1. dtor # "none" /\ PillsAdded = pills /\ pills \in Nat
  BY <1>0, Counts DEF DtorInv, PillsAdded, Queuing, TypeOK
<1>2. dtor = "pills"
  BY <1>0, <1>1 DEF DtorInv, TypeOK
<1>3. CASE HasSpace
  <2>1. /\ q' = Append(q, Pill) /\ SignalNonEmpty
        /\ adder' = [adder EXCEPT ![Destroyer] = "added"]
    BY <1>3 DEF EnqPill, enq
  <2>2. /\ q' \in Seq(Items) /\ Len(q') = Len(q) + 1
        /\ \A i \in 1 .. Len(q) : q'[i] = q[i]
        /\ q'[Len(q) + 1] = Pill
        /\ Capacity > 0 => Len(q') <= Capacity
        /\ \A k : Queued(k)' <=> Queued(k) \/ k = Pill
    BY <1>0, <1>3, <2>1, AppendFacts
  <2>3. /\ worker' \in [Workers -> WorkerStates]
        /\ Exited' = Exited
        /\ Asleep' # {} => Cardinality(Awake') >= Len(q) + 1
    BY <1>0, <2>1, SignalFacts
  <2>4. /\ \A e \in Adders : adder'[e] = IF e = Destroyer THEN "added" ELSE adder[e]
        /\ adder' \in [Adders -> {"idle", "enq", "asleep", "woken", "added", "refused"}]
    BY <1>0, <2>1 DEF TypeOK
  <2>5. TypeOK'
    BY <1>0, <2>2, <2>3, <2>4 DEF TypeOK, WorkerStates
  <2>6. EnoughAwake'
    BY <2>2, <2>3 DEF EnoughAwake
  <2>7. DtorInv'
    BY <1>0, <1>2, <2>3, <2>4 DEF DtorInv, Adders
  <2>8. PillInv'
    <3>1. PillsLeft' = PillsLeft + 1 /\ PillsLeft \in Int
      <4>1. PillsAdded' = pills + 1
        BY <1>0, <1>2, <2>4 DEF PillsAdded, Queuing
      <4> QED BY <1>1, <2>3, <4>1, Counts DEF PillsLeft
    <3>2. Len(q) \in Nat
      BY <1>0 DEF TypeOK
    <3> HIDE DEF PillsLeft
    <3>3. \A i \in 1 .. Len(q') : q'[i] = Pill <=> i > Len(q') - PillsLeft'
      BY <1>0, <2>2, <3>1, <3>2 DEF PillInv
    <3> QED BY <1>0, <2>2, <2>3, <3>1, <3>2, <3>3 DEF PillInv
  <2>9. JobInv'
    <3>1. Len(q) \in Nat
      BY <1>0 DEF TypeOK
    <3>2. \A i, k \in 1 .. Len(q') : q'[i] = q'[k] /\ q'[i] # Pill => i = k
      BY <1>0, <2>2, <3>1 DEF JobInv
    <3> QED BY <1>0, <2>2, <2>4, <3>2 DEF JobInv, Adders
  <2> QED BY <2>5, <2>6, <2>7, <2>8, <2>9 DEF IInv
<1>4. CASE ~HasSpace
  <2>1. /\ UNCHANGED <<q, worker>>
        /\ adder' = [adder EXCEPT ![Destroyer] = "asleep"]
    BY <1>4 DEF EnqPill, enq
  <2>2. /\ \A e \in Adders : e # Destroyer => adder'[e] = adder[e]
        /\ adder'[Destroyer] = "asleep"
        /\ adder' \in [Adders -> {"idle", "enq", "asleep", "woken", "added", "refused"}]
    BY <1>0, <2>1 DEF TypeOK
  <2>3. TypeOK' /\ EnoughAwake'
    BY <1>0, <2>1, <2>2 DEF TypeOK, EnoughAwake, Asleep, Awake
  <2>4. DtorInv'
    BY <1>0, <1>2, <2>1, <2>2 DEF DtorInv, Adders
  <2>5. PillInv'
    <3>1. PillsLeft' = PillsLeft
      BY <1>0, <1>1, <2>1, <2>2 DEF PillsLeft, PillsAdded, Queuing, Exited
    <3> QED BY <1>0, <2>1, <3>1 DEF PillInv, Exited
  <2>6. JobInv'
    BY <1>0, <2>1, <2>2 DEF JobInv, Queued, Adders
  <2> QED BY <2>3, <2>4, <2>5, <2>6 DEF IInv
<1> QED BY <1>3, <1>4

\* A signal on has_space_c_, or a spurious wakeup, moves no thread but a sleeping one.
LEMMA SpaceFacts ==
  ASSUME TypeOK, SignalHasSpace
  PROVE  /\ adder' \in [Adders -> {"idle", "enq", "asleep", "woken", "added", "refused"}]
         /\ \A e \in Adders : adder'[e] = adder[e] \/ (adder[e] = "asleep" /\ adder'[e] = "woken")
BY DEF SignalHasSpace, TypeOK

\* When threads that add only wake up, the destructor's progress is the same.
LEMMA AddersWake ==
  ASSUME DtorInv, UNCHANGED <<pills, dtor>>, Exited \subseteq Exited', Exited' \subseteq Workers,
         \A e \in Adders : adder'[e] = adder[e] \/ (adder[e] = "asleep" /\ adder'[e] = "woken")
  PROVE  DtorInv' /\ PillsAdded' = PillsAdded
<1>1. Destroyer \in Adders /\ \A j \in Jobs : j \in Adders
  BY DEF Adders
<1>2. DtorInv'
  BY <1>1 DEF DtorInv
<1>3. PillsAdded' = PillsAdded
  BY <1>1 DEF PillsAdded, Queuing
<1> QED BY <1>2, <1>3

\* Taking a job from the queue, or going to sleep, keeps the invariant.
LEMMA TakeJobKeepsInv ==
  ASSUME IInv, NEW w \in Workers, takeJob(w)
  PROVE  IInv'
<1>0. /\ TypeOK /\ EnoughAwake /\ DtorInv /\ PillInv /\ JobInv
      /\ UNCHANGED <<pills, dtor>> /\ worker[w].at \in {"deq", "woken"}
  BY DEF IInv, takeJob
<1>1. CASE q = <<>>
  <2>1. worker' = [worker EXCEPT ![w] = [at |-> "asleep"]] /\ UNCHANGED <<q, adder, runs>>
    BY <1>1 DEF takeJob
  <2>2. \A v \in Workers : worker'[v] = IF v = w THEN [at |-> "asleep"] ELSE worker[v]
    BY <1>0, <2>1 DEF TypeOK
  <2>3. TypeOK'
    BY <1>0, <2>1 DEF TypeOK
  <2>4. EnoughAwake'
    <3>1. Len(q') = 0
      BY <1>1, <2>1
    <3>2. Cardinality(Awake') \in Nat
      <4>1. Awake' \in SUBSET Workers
        BY DEF Awake
      <4> QED BY <4>1, FS_Subset, FS_CardinalityType
    <3> QED BY <3>1, <3>2 DEF EnoughAwake
  <2>5. Exited' = Exited
    BY <1>0, <2>2 DEF Exited
  <2>6. DtorInv' /\ PillsLeft' = PillsLeft
    BY <1>0, <2>1, <2>5 DEF DtorInv, PillsLeft, PillsAdded, Queuing
  <2>7. PillInv' /\ JobInv'
    BY <1>0, <2>1, <2>5, <2>6 DEF PillInv, JobInv, Queued
  <2> QED BY <2>3, <2>4, <2>6, <2>7 DEF IInv
<1>2. CASE q # <<>>
  <2>0. PICK job : job = q[1]
    OBVIOUS
  <2>1. /\ q' \in Seq(Items) /\ Len(q) >= 1 /\ Len(q') = Len(q) - 1
        /\ Head(q) = q[1] /\ q[1] \in Items
        /\ \A i \in 1 .. Len(q) - 1 : q'[i] = q[i + 1]
        /\ \A j : Queued(j) <=> Queued(j)' \/ j = q[1]
    BY <1>0, <1>2, TailFacts DEF takeJob, NextItem
  <2>2. /\ SignalHasSpace
        /\ worker' = [worker EXCEPT ![w] = IF job = Pill THEN [at |-> "exited"]
                                           ELSE [at |-> "running", job |-> job]]
        /\ runs' = IF job = Pill THEN runs ELSE [runs EXCEPT ![job] = @ + 1]
    BY <1>2, <2>0, <2>1 DEF takeJob, NextItem
  <2>3. /\ adder' \in [Adders -> {"idle", "enq", "asleep", "woken", "added", "refused"}]
        /\ \A e \in Adders : adder'[e] = adder[e] \/ (adder[e] = "asleep" /\ adder'[e] = "woken")
    BY <1>0, <2>2, SpaceFacts
  <2>4. Len(q) \in Nat /\ job \in Items /\ (job # Pill => job \in Jobs)
    BY <1>0, <2>0, <2>1 DEF TypeOK, Items
  <2>5. \A j \in Jobs : runs'[j] = IF j = job THEN runs[j] + 1 ELSE runs[j]
    BY <1>0, <2>2, <2>4 DEF TypeOK
  <2>6. \A v \in Workers :
          /\ v # w => worker'[v] = worker[v]
          /\ worker'[w].at = IF job = Pill THEN "exited" ELSE "running"
    BY <1>0, <2>2 DEF TypeOK
  <2>7. TypeOK'
    <3>1. worker' \in [Workers -> WorkerStates]
      BY <1>0, <2>2, <2>4 DEF TypeOK, WorkerStates
    <3>2. runs' \in [Jobs -> Nat]
      BY <1>0, <2>2, <2>4 DEF TypeOK
    <3> QED BY <1>0, <2>1, <2>3, <2>4, <3>1, <3>2 DEF TypeOK, WorkerStates
  <2>8. EnoughAwake'
    <3>1. Awake' = Awake \ {w} /\ w \in Awake /\ Asleep' = Asleep
      BY <1>0, <2>6 DEF Awake, Asleep
    <3>2. Cardinality(Awake') = Cardinality(Awake) - 1 /\ Cardinality(Awake) \in Nat
      BY <3>1, Counts, FS_RemoveElement
    <3> QED BY <1>0, <2>1, <2>4, <3>1, <3>2 DEF EnoughAwake
  <2>9. /\ job = Pill => Exited' = Exited \cup {w} /\ w \notin Exited
        /\ job # Pill => Exited' = Exited
    BY <1>0, <2>6 DEF Exited
  <2>10. DtorInv' /\ PillsAdded' = PillsAdded
    <3>1. Exited \subseteq Exited' /\ Exited' \subseteq Workers
      BY <2>9 DEF Exited
    <3> QED BY <1>0, <2>3, <3>1, AddersWake
  <2>11. PillsLeft' = (IF job = Pill THEN PillsLeft - 1 ELSE PillsLeft) /\ PillsLeft \in Int
    <3>1. job = Pill => Cardinality(Exited') = Cardinality(Exited) + 1
      BY <2>9, Counts, FS_AddElement
    <3>2. PillsAdded \in Int
      BY <1>0, Counts DEF TypeOK, PillsAdded
    <3> QED BY <2>9, <2>10, <3>1, <3>2, Counts DEF PillsLeft
  <2>12. PillInv'
    <3>1. /\ 0 <= PillsLeft /\ PillsLeft <= Len(q)
          /\ \A i \in 1 .. Len(q) : q[i] = Pill <=> i > Len(q) - PillsLeft
          /\ Exited # {} => PillsLeft = Len(q)
      BY <1>0 DEF PillInv
    <3>2. job = Pill <=> PillsLeft = Len(q)
      BY <2>0, <2>1, <2>4, <2>11, <3>1
    <3> HIDE DEF PillsLeft
    <3>3. 0 <= PillsLeft' /\ PillsLeft' <= Len(q') /\ Len(q') - PillsLeft' = (IF job = Pill THEN 0 ELSE Len(q) - PillsLeft - 1)
      BY <2>1, <2>4, <2>11, <3>1, <3>2
    <3>4. ASSUME NEW i \in 1 .. Len(q') PROVE q'[i] = Pill <=> i > Len(q') - PillsLeft'
      <4>1. i \in 1 .. Len(q) - 1 /\ i + 1 \in 1 .. Len(q)
        BY <2>1, <2>4
      <4>2. q'[i] = Pill <=> i + 1 > Len(q) - PillsLeft
        BY <2>1, <3>1, <4>1
      <4> QED BY <2>4, <2>11, <3>2, <3>3, <4>1, <4>2
    <3>5. Exited' # {} => PillsLeft' = Len(q')
      BY <2>1, <2>4, <2>9, <2>11, <3>1, <3>2
    <3> QED BY <3>3, <3>4, <3>5 DEF PillInv
  <2>13. JobInv'
    <3>1. \A i \in 1 .. Len(q) - 1 : q'[i] # job \/ job = Pill
      <4> SUFFICES ASSUME NEW i \in 1 .. Len(q) - 1, job # Pill PROVE q[i + 1] # q[1]
        BY <2>0, <2>1
      <4>1. i + 1 \in 1 .. Len(q) /\ 1 \in 1 .. Len(q) /\ i + 1 # 1
        BY <2>1, <2>4
      <4> QED BY <1>0, <2>0, <4>1 DEF JobInv
    <3>2. job # Pill => ~Queued(job)' /\ Queued(job)
      <4>1. DOMAIN q' = 1 .. Len(q) - 1
        BY <2>1, <2>4
      <4> QED BY <2>0, <2>1, <3>1, <4>1 DEF Queued
    <3>3. \A i, k \in 1 .. Len(q') : q'[i] = q'[k] /\ q'[i] # Pill => i = k
      <4> SUFFICES ASSUME NEW i \in 1 .. Len(q'), NEW k \in 1 .. Len(q'), q'[i] = q'[k], q'[i] # Pill
                   PROVE  i = k
        OBVIOUS
      <4>1. /\ i \in 1 .. Len(q) - 1 /\ i + 1 \in 1 .. Len(q)
            /\ k \in 1 .. Len(q) - 1 /\ k + 1 \in 1 .. Len(q)
        BY <2>1, <2>4
      <4>2. q[i + 1] = q[k + 1] /\ q[i + 1] # Pill
        BY <2>1, <4>1
      <4>3. i + 1 = k + 1
        BY <1>0, <4>1, <4>2 DEF JobInv
      <4> QED BY <4>3
    <3>4. ASSUME NEW k \in Jobs
          PROVE  /\ adder'[k] # "added" => ~Queued(k)' /\ runs'[k] = 0
                 /\ adder'[k] = "added" => runs'[k] = (IF Queued(k)' THEN 0 ELSE 1)
      <4>1. adder'[k] = "added" <=> adder[k] = "added"
        BY <2>3 DEF Adders
      <4>2. CASE k = job
        BY <1>0, <2>5, <3>2, <4>1, <4>2 DEF JobInv
      <4>3. CASE k # job
        <5>1. Queued(k)' <=> Queued(k)
          BY <2>0, <2>1, <4>3
        <5> QED BY <1>0, <2>5, <4>1, <4>3, <5>1 DEF JobInv
      <4> QED BY <4>2, <4>3
    <3> QED BY <3>3, <3>4 DEF JobInv
  <2> QED BY <2>7, <2>8, <2>10, <2>12, <2>13 DEF IInv
<1> QED BY <1>1, <1>2

\* The end of a job, and a wakeup without a signal, keep the invariant.
LEMMA WorkerMovesKeepsInv ==
  ASSUME IInv, SpuriousWake \/ \E w \in Workers : JobDone(w)
  PROVE  IInv'
<1>0. /\ TypeOK /\ EnoughAwake /\ DtorInv /\ PillInv /\ JobInv
      /\ UNCHANGED <<q, pills, dtor, runs>>
      /\ Len(q) \in Nat /\ Cardinality(Awake) \in Nat
  BY Counts DEF IInv, SpuriousWake, JobDone, TypeOK
<1>1. ASSUME UNCHANGED adder, worker' \in [Workers -> WorkerStates], Exited' = Exited,
             Cardinality(Awake') = Cardinality(Awake) + 1, Asleep' \subseteq Asleep
      PROVE  IInv'
  <2>1. TypeOK' /\ EnoughAwake'
    BY <1>0, <1>1 DEF TypeOK, EnoughAwake, WorkerStates
  <2>2. DtorInv' /\ PillsLeft' = PillsLeft
    BY <1>0, <1>1 DEF DtorInv, PillsLeft, PillsAdded, Queuing
  <2>3. PillInv' /\ JobInv'
    BY <1>0, <1>1, <2>2 DEF PillInv, JobInv, Queued
  <2> QED BY <2>1, <2>2, <2>3 DEF IInv
<1>2. ASSUME NEW w \in Workers, JobDone(w) PROVE IInv'
  <2>1. UNCHANGED adder /\ worker[w].at = "running" /\ worker' = [worker EXCEPT ![w] = [at |-> "deq"]]
    BY <1>2 DEF JobDone
  <2>2. \A v \in Workers : worker'[v] = IF v = w THEN [at |-> "deq"] ELSE worker[v]
    BY <1>0, <2>1 DEF TypeOK
  <2>3. worker' \in [Workers -> WorkerStates]
    BY <1>0, <2>1 DEF TypeOK, WorkerStates
  <2>4. Awake' = Awake \cup {w} /\ w \notin Awake /\ Exited' = Exited /\ Asleep' \subseteq Asleep
    BY <2>1, <2>2 DEF Awake, Exited, Asleep
  <2>5. Cardinality(Awake') = Cardinality(Awake) + 1
    BY <2>4, Counts, FS_AddElement
  <2> QED BY <1>1, <2>1, <2>3, <2>4, <2>5
<1>3. ASSUME NEW w \in Asleep, worker' = [worker EXCEPT ![w].at = "woken"], UNCHANGED adder PROVE IInv'
  <2>1. Asleep' \subseteq Asleep
    <3>1. \A v \in Workers : v # w => worker'[v] = worker[v]
      BY <1>0, <1>3 DEF TypeOK
    <3> QED BY <3>1 DEF Asleep
  <2> QED BY <1>0, <1>1, <1>3, <2>1, WakeOne
<1>4. ASSUME NEW e \in Adders, adder[e] = "asleep", adder' = [adder EXCEPT ![e] = "woken"],
             UNCHANGED worker
      PROVE IInv'
  <2>1. \A d \in Adders : adder'[d] = IF d = e THEN "woken" ELSE adder[d]
    BY <1>0, <1>4 DEF TypeOK
  <2>2. TypeOK' /\ EnoughAwake' /\ Exited' = Exited
    BY <1>0, <1>4 DEF TypeOK, EnoughAwake, Asleep, Awake, Exited
  <2>3. DtorInv' /\ PillsAdded' = PillsAdded
    BY <1>0, <1>4, <2>1, <2>2, AddersWake DEF Exited
  <2>4. PillInv'
    BY <1>0, <2>2, <2>3 DEF PillInv, PillsLeft
  <2>5. JobInv'
    BY <1>0, <1>4, <2>1 DEF JobInv, Queued, Adders
  <2> QED BY <2>2, <2>3, <2>4, <2>5 DEF IInv
<1> QED BY <1>2, <1>3, <1>4 DEF SpuriousWake

\* The entry of addJob and the steps of the destructor keep the invariant.
LEMMA DestructorKeepsInv ==
  ASSUME IInv, (\E j \in Jobs : CallAddJob(j)) \/ Destroy \/ NextPill \/ Join
  PROVE  IInv'
<1>0. /\ TypeOK /\ EnoughAwake /\ DtorInv /\ PillInv /\ JobInv
      /\ UNCHANGED <<q, worker, runs>>
      /\ Destroyer \in Adders /\ Jobs \subseteq Adders
  BY DEF IInv, CallAddJob, Destroy, NextPill, Join, Adders
<1>1. EnoughAwake' /\ Exited' = Exited
  BY <1>0 DEF EnoughAwake, Asleep, Awake, Exited
<1>2. ASSUME PillsAdded' = PillsAdded PROVE PillInv'
  BY <1>0, <1>1, <1>2 DEF PillInv, PillsLeft
<1>3. pills \in Nat /\ Cardinality(Workers) \in Nat
  BY <1>0, Counts DEF TypeOK
<1>4. ASSUME NEW j \in Jobs, CallAddJob(j) PROVE IInv'
  <2>1. /\ dtor = "none" /\ adder[j] = "idle" /\ UNCHANGED <<pills, dtor>>
        /\ \A e \in Adders : adder'[e] = IF e = j THEN "enq" ELSE adder[e]
        /\ j # Destroyer
    BY <1>0, <1>4 DEF CallAddJob, TypeOK
  <2>2. TypeOK'
    BY <1>0, <1>4 DEF CallAddJob, TypeOK
  <2>3. DtorInv'
    BY <1>0, <1>1, <2>1 DEF DtorInv
  <2>4. PillInv'
    BY <1>2, <2>1 DEF PillsAdded, Queuing
  <2>5. JobInv'
    BY <1>0, <2>1 DEF JobInv, Queued
  <2> QED BY <1>1, <2>2, <2>3, <2>4, <2>5 DEF IInv
<1>5. CASE Destroy
  <2>1. /\ dtor = "none" /\ dtor' = "pills" /\ UNCHANGED pills
        /\ \A j \in Jobs : adder[j] \in {"idle", "added", "refused"}
        /\ \A e \in Adders : adder'[e] = IF e = Destroyer THEN "enq" ELSE adder[e]
    BY <1>0, <1>5 DEF Destroy, TypeOK
  <2>2. TypeOK'
    BY <1>0, <1>5 DEF Destroy, TypeOK
  <2>3. DtorInv'
    BY <1>0, <1>1, <2>1, Counts DEF DtorInv
  <2>4. PillInv'
    BY <1>0, <1>2, <2>1 DEF PillsAdded, Queuing
  <2>5. JobInv'
    BY <1>0, <2>1 DEF JobInv, Queued
  <2> QED BY <1>1, <2>2, <2>3, <2>4, <2>5 DEF IInv
<1>6. CASE NextPill
  <2>1. /\ dtor = "pills" /\ adder[Destroyer] = "added" /\ pills' = pills + 1
        /\ pills < Cardinality(Workers)
    BY <1>0, <1>6 DEF NextPill, DtorInv
  <2>2. \/ /\ pills' < Cardinality(Workers) /\ dtor' = "pills"
           /\ adder' = [adder EXCEPT ![Destroyer] = "enq"]
        \/ pills' = Cardinality(Workers) /\ dtor' = "joining" /\ UNCHANGED adder
    BY <1>3, <1>6, <2>1 DEF NextPill
  <2>3. /\ \A e \in Adders : e # Destroyer => adder'[e] = adder[e]
        /\ dtor' = "pills" => adder'[Destroyer] = "enq"
        /\ dtor' = "joining" => adder'[Destroyer] = "added"
    BY <1>0, <2>1, <2>2 DEF TypeOK
  <2>4. TypeOK'
    BY <1>0, <1>3, <2>1, <2>2 DEF TypeOK
  <2>5. DtorInv'
    BY <1>0, <1>1, <1>3, <2>1, <2>2, <2>3 DEF DtorInv
  <2>6. PillInv'
    BY <1>2, <2>1, <2>2, <2>3 DEF PillsAdded, Queuing
  <2>7. JobInv'
    BY <1>0, <2>3 DEF JobInv, Queued
  <2> QED BY <1>1, <2>4, <2>5, <2>6, <2>7 DEF IInv
<1>7. CASE Join
  <2>1. /\ dtor = "joining" /\ dtor' = "done" /\ UNCHANGED <<adder, pills>>
        /\ Exited = Workers
    BY <1>7 DEF Join, Exited
  <2>2. TypeOK'
    BY <1>0, <1>7 DEF Join, TypeOK
  <2>3. DtorInv'
    BY <1>0, <1>1, <2>1 DEF DtorInv
  <2>4. PillInv'
    BY <1>2, <2>1 DEF PillsAdded, Queuing
  <2>5. JobInv'
    BY <1>0, <2>1 DEF JobInv, Queued
  <2> QED BY <1>1, <2>2, <2>3, <2>4, <2>5 DEF IInv
<1> QED BY <1>4, <1>5, <1>6, <1>7

-----------------------------------------------------------------------------
\* The inductive invariant holds in every reachable state.
LEMMA InductiveInvariant == Spec => []IInv
<1>1. Init => IInv
  <2> SUFFICES ASSUME Init PROVE IInv
    OBVIOUS
  <2>0. Len(q) = 0 /\ q \in Seq(Items) /\ Exited = {} /\ Asleep = {} /\ Destroyer \in Adders /\ Jobs \subseteq Adders
    BY DEF Init, Exited, Asleep, Adders
  <2>1. TypeOK
    BY <2>0, Counts DEF Init, TypeOK
  <2>2. EnoughAwake /\ DtorInv
    BY <2>0 DEF Init, EnoughAwake, DtorInv
  <2>3. PillInv
    BY <2>0, FS_EmptySet DEF Init, PillInv, PillsLeft, PillsAdded, Queuing
  <2>4. JobInv
    BY <2>0 DEF Init, JobInv, Queued
  <2> QED BY <2>1, <2>2, <2>3, <2>4 DEF IInv
<1>2. IInv /\ [Next]_vars => IInv'
  <2> SUFFICES ASSUME IInv, [Next]_vars PROVE IInv'
    OBVIOUS
  <2>1. CASE UNCHANGED vars
    BY <2>1 DEF vars, IInv, TypeOK, EnoughAwake, DtorInv, PillInv, PillsLeft, PillsAdded, Queuing,
                JobInv, Queued, Asleep, Awake, Exited
  <2>2. CASE Next
    BY <2>2, AddJobKeepsInv, EnqPillKeepsInv, TakeJobKeepsInv, WorkerMovesKeepsInv,
       DestructorKeepsInv DEF Next, DestructorStep
  <2> QED BY <2>1, <2>2
<1> QED BY <1>1, <1>2, PTL DEF Spec

\* The state has its type in every reachable state; in particular the queue never
\* holds more than fifo::max_ items.
THEOREM TypeCorrect == Spec => []TypeOK
<1>1. IInv => TypeOK
  BY DEF IInv
<1> QED BY <1>1, InductiveInvariant, PTL

\* No wakeup is lost: one signal per enq keeps as many workers on their way to
\* the queue as there are items in it, while any worker sleeps.
THEOREM EnoughAwakeHolds == Spec => []EnoughAwake
<1>1. IInv => EnoughAwake
  BY DEF IInv
<1> QED BY <1>1, InductiveInvariant, PTL

\* Shutdown drains the pool: when the destructor returns, every job that addJob
\* accepted has been executed once, no other job has, and the queue is empty.
THEOREM ShutdownDrainsHolds == Spec => []ShutdownDrains
<1>1. IInv => ShutdownDrains
  <2> SUFFICES ASSUME IInv, dtor = "done" PROVE ShutdownDrains
    BY DEF ShutdownDrains
  <2>1. pills = Cardinality(Workers) /\ Exited = Workers
    BY DEF IInv, DtorInv
  <2>2. PillsLeft = 0
    BY <2>1, Counts DEF PillsLeft, PillsAdded, Queuing
  <2>3. Len(q) = 0
    BY <2>1, <2>2 DEF IInv, PillInv
  <2>4. q = <<>> /\ \A j \in Jobs : ~Queued(j)
    BY <2>3, ItemsFacts DEF IInv, TypeOK
  <2> QED BY <2>4 DEF IInv, JobInv, ShutdownDrains
<1> QED BY <1>1, InductiveInvariant, PTL
=============================================================================
