------------------------------ MODULE LockSpec ------------------------------
(***************************************************************************)
(* What the lock service promises: a lock is a blocking object with one    *)
(* owner.  A call is issued, takes effect at one instant between its       *)
(* invocation and its return, and returns.  An acquire takes effect only   *)
(* while the lock has no owner, so it cannot return before the caller has  *)
(* the lock; a release takes effect only for the owner and is ignored for  *)
(* every other client, who still gets OK back.                             *)
(*                                                                         *)
(* LockServer.tla (lock_server.cc) is shown to implement this module.      *)
(***************************************************************************)
CONSTANTS
    Clients,    \* the client ids (cl->id(), the rpcc nonce)
    LockIds,    \* the lock ids in use (lock_protocol::lockid_t)
    Callers,    \* the threads of control that carry calls
    NoClient    \* the owner of a lock that is free (0 in class lock)

VARIABLES
    owner,      \* owner[l]: the client that holds lock l, or NoClient
    call        \* call[t]: the call carried by t, and whether it took effect

avars == <<owner, call>>

Ops == {"acquire", "release", "stat"}

NoCall == [at |-> "idle"]

Calls == [at : {"pending", "done"}, op : Ops, clt : Clients, lid : LockIds]

TypeOK ==
    /\ owner \in [LockIds -> Clients \cup {NoClient}]
    /\ call \in [Callers -> Calls \cup {NoCall}]

Init ==
    /\ owner = [l \in LockIds |-> NoClient]
    /\ call = [t \in Callers |-> NoCall]

\* A client issues a call.
Invoke(t, op, clt, lid) ==
    /\ call[t].at = "idle"
    /\ call' = [call EXCEPT ![t] = [at |-> "pending", op |-> op, clt |-> clt, lid |-> lid]]
    /\ UNCHANGED owner

Done(t) == call' = [call EXCEPT ![t].at = "done"]

\* The lock passes to the caller: only from the free state.
TakeEffectAcquire(t) ==
    /\ call[t].at = "pending"
    /\ call[t].op = "acquire"
    /\ owner[call[t].lid] = NoClient
    /\ owner' = [owner EXCEPT ![call[t].lid] = call[t].clt]
    /\ Done(t)

\* The owner gives the lock back.
TakeEffectRelease(t) ==
    /\ call[t].at = "pending"
    /\ call[t].op = "release"
    /\ owner[call[t].lid] = call[t].clt
    /\ owner' = [owner EXCEPT ![call[t].lid] = NoClient]
    /\ Done(t)

\* stat, and a release by a client that does not own the lock, change nothing.
TakeEffectNothing(t) ==
    /\ call[t].at = "pending"
    /\ \/ call[t].op = "stat"
       \/ call[t].op = "release" /\ owner[call[t].lid] # call[t].clt
    /\ UNCHANGED owner
    /\ Done(t)

\* The call returns, after it took effect.
Return(t) ==
    /\ call[t].at = "done"
    /\ call' = [call EXCEPT ![t] = NoCall]
    /\ UNCHANGED owner

Next ==
    \E t \in Callers :
        \/ \E op \in Ops, clt \in Clients, lid \in LockIds : Invoke(t, op, clt, lid)
        \/ TakeEffectAcquire(t)
        \/ TakeEffectRelease(t)
        \/ TakeEffectNothing(t)
        \/ Return(t)

Spec == Init /\ [][Next]_avars
=============================================================================
