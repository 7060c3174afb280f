----------------------------- MODULE XidWindows -----------------------------
(***************************************************************************)
(* The two windows of the at-most-once protocol as sets and functions: the *)
(* client's xid_rep_window_ and the server's reply window of one client.   *)
(* Rpc.tla uses these definitions; WindowLists.tla checks that the lists   *)
(* of rpc.cc compute them.                                                 *)
(***************************************************************************)
EXTENDS Integers

CONSTANT MaxXid     \* bound: calls per client (2^32 - 1 before xid_ wraps)

ASSUME XidAssumption == MaxXid \in Nat

Xids == 1 .. MaxXid

Bug_IsXidRep(r, A) ==
    \/ A = {} /\ r = 0
    \/ r \in A /\ \A y \in A : y <= r

\* r is xid_rep_window_.front() when update_xid_rep was called for the xids in
\* A: the last xid before the first gap.
IsXidRep(r, A) == 1 .. r \subseteq A /\ r + 1 \notin A

\* A reply window: whether each xid is in the list, and whether its reply is.
ReplyWindows == [Xids -> {"absent", "inprogress", "present"}]

EmptyWindow == [x \in Xids |-> "absent"]

Bug_Trim(w, xid_rep) == [x \in Xids |-> IF x <= xid_rep THEN "absent" ELSE w[x]]

\* checkduplicate_and_update first deletes the entries below xid_rep.
Trim(w, xid_rep) == [x \in Xids |-> IF x < xid_rep THEN "absent" ELSE w[x]]

Bug_IsForgotten(w, x) == FALSE

\* The front of the trimmed window has a larger xid than the request.
IsForgotten(w, x) ==
    /\ \E y \in Xids : w[y] # "absent"
    /\ \A y \in Xids : w[y] # "absent" => y > x

\* add_reply: remember the reply if the request is still in the window.
Answered(w, x) == [w EXCEPT ![x] = IF @ = "absent" THEN @ ELSE "present"]
=============================================================================
