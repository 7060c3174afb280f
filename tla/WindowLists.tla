---------------------------- MODULE WindowLists ----------------------------
(***************************************************************************)
(* The two lists of the at-most-once protocol (rpc.cc) for one client, as  *)
(* the code handles them: rpcc::xid_rep_window_ with update_xid_rep, and   *)
(* the client's list in rpcs::reply_window_ with checkduplicate_and_update *)
(* and add_reply.  Next to the reply list the function-valued window that  *)
(* Rpc.tla uses is kept with the operators of XidWindows.                  *)
(*                                                                         *)
(* Requests arrive in any order, repeatedly, late or never; got_pdu calls  *)
(* update_xid_rep for every reply, duplicates included, and call1 calls it *)
(* again when a call ends, in time or not, so an xid may be passed several *)
(* times and in any order.                                                 *)
(***************************************************************************)
EXTENDS XidWindows, SequencesExt

CONSTANT MaxTimes   \* bound: how often one xid is passed to update_xid_rep

ASSUME TimesAssumption == MaxTimes \in Nat

VARIABLES
    rep,                \* the xid_rep packed into the header of each request made
    xid_rep_window,     \* the client's list of xids, never empty
    times,              \* times[x] \in 0 .. MaxTimes: calls of update_xid_rep(x)
    list,               \* the server's list of reply_t (xid, cb_present)
    result,             \* the rpcstate_t that checkduplicate_and_update returned
    running,            \* the xids whose handler runs
    w,                  \* the window as a function
    verdict             \* what the operators of XidWindows say of the last request

clientVars == <<rep, xid_rep_window, times>>
serverVars == <<list, result, running, w, verdict>>
vars == <<clientVars, serverVars>>

Init ==
    /\ rep = <<>>
    /\ xid_rep_window = <<0>>
    /\ times = [x \in Xids |-> 0]
    /\ list = <<>>
    /\ result = "none"
    /\ running = {}
    /\ w = EmptyWindow
    /\ verdict = "none"

-----------------------------------------------------------------------------
(* rpcc *)

\* call1 takes the next xid and packs the front of the list into the header.
Request ==
    /\ Len(rep) < MaxXid
    /\ rep' = Append(rep, Head(xid_rep_window))
    /\ UNCHANGED <<xid_rep_window, times, serverVars>>

Bug_Insert(l, x) == Append(l, x)

\* Insert x before the first element that is larger, or at the end.
Insert(l, x) ==
    LET i == SelectInSeq(l, LAMBDA y : y > x)
    IN  IF i = 0 THEN Append(l, x) ELSE InsertAt(l, i, x)

\* while (front() + 1 == v) pop_front(), after d elements have been popped.
PopWhile(l, d, v) == Min({k \in d .. Len(l) - 1 : l[k + 1] + 1 # v})

Bug_Compress(l) == IF Len(l) > 1 /\ l[1] + 1 = l[2] THEN Tail(l) ELSE l

\* compress: for every element after the first, pop while it follows the front.
\* popped[i]: how many elements are gone once l[i] has had its turn.
Popped(l) ==
    LET popped[i \in 1 .. Len(l)] == IF i = 1 THEN 0 ELSE PopWhile(l, popped[i - 1], l[i])
    IN  popped

Compress(l) == SubSeq(l, Popped(l)[Len(l)] + 1, Len(l))

update_xid_rep(x) ==
    /\ times[x] < MaxTimes
    /\ times' = [times EXCEPT ![x] = @ + 1]
    /\ xid_rep_window' = IF x <= Head(xid_rep_window)
                         THEN xid_rep_window
                         ELSE Compress(Insert(xid_rep_window, x))
    /\ UNCHANGED <<rep, serverVars>>

-----------------------------------------------------------------------------
(* rpcs *)

\* One turn of the first loop of checkduplicate_and_update: erase the element,
\* or keep it and perhaps return.
ScanStep(acc, e, xid, xid_rep) ==
    LET kept == Append(acc.kept, e) IN
    CASE acc.stat # "none"                    -> [acc EXCEPT !.kept = kept]
      [] acc.stat = "none" /\ e.xid < xid_rep -> acc
      [] acc.stat = "none" /\ e.xid >= xid_rep /\ e.xid = xid ->
             [kept |-> kept, stat |-> IF e.cb_present THEN "DONE" ELSE "INPROGRESS"]
      [] OTHER -> [kept |-> kept, stat |-> IF Head(kept).xid > xid THEN "FORGOTTEN" ELSE "none"]

\* The loop, turn by turn.
Scanned(l, xid, xid_rep) ==
    LET acc[i \in 0 .. Len(l)] == IF i = 0 THEN [kept |-> <<>>, stat |-> "none"]
                                  ELSE ScanStep(acc[i - 1], l[i], xid, xid_rep)
    IN  acc

Scan(l, xid, xid_rep) == Scanned(l, xid, xid_rep)[Len(l)]

\* The second loop: insert a new reply_t before the first larger xid.
InsertNew(l, xid) ==
    LET i == SelectInSeq(l, LAMBDA e : e.xid > xid)
        new_rep == [xid |-> xid, cb_present |-> FALSE]
    IN  IF i = 0 THEN Append(l, new_rep) ELSE InsertAt(l, i, new_rep)

Classify(v, x) ==
    CASE v[x] = "inprogress" -> "INPROGRESS"
      [] v[x] = "present"    -> "DONE"
      [] v[x] = "absent"     -> IF IsForgotten(v, x) THEN "FORGOTTEN" ELSE "NEW"

checkduplicate_and_update(xid, xid_rep) ==
    LET scan == Scan(list, xid, xid_rep)
        v == Trim(w, xid_rep)
    IN  /\ result' = IF scan.stat = "none" THEN "NEW" ELSE scan.stat
        /\ list' = IF scan.stat = "none" THEN InsertNew(scan.kept, xid) ELSE scan.kept
        /\ verdict' = Classify(v, xid)
        /\ w' = IF verdict' = "NEW" THEN [v EXCEPT ![xid] = "inprogress"] ELSE v
        /\ running' = IF result' = "NEW" THEN running \cup {xid} ELSE running
        /\ UNCHANGED clientVars

Bug_add_reply(xid) ==
    /\ xid \in running
    /\ running' = running \ {xid}
    /\ list' = IF list = <<>> THEN list ELSE [list EXCEPT ![1].cb_present = TRUE]
    /\ w' = Answered(w, xid)
    /\ UNCHANGED <<clientVars, result, verdict>>

\* The first element with this xid gets the reply; without one nothing happens.
add_reply(xid) ==
    LET i == SelectInSeq(list, LAMBDA e : e.xid = xid) IN
    /\ xid \in running
    /\ running' = running \ {xid}
    /\ list' = IF i = 0 THEN list ELSE [list EXCEPT ![i].cb_present = TRUE]
    /\ w' = Answered(w, xid)
    /\ UNCHANGED <<clientVars, result, verdict>>

Next ==
    \/ Request
    \/ \E x \in DOMAIN rep :
           \/ update_xid_rep(x)
           \/ checkduplicate_and_update(x, rep[x])
           \/ add_reply(x)

Spec == Init /\ [][Next]_vars

-----------------------------------------------------------------------------
acked == {x \in Xids : times[x] > 0}

\* The front of the client's list, which every request carries as xid_rep, is
\* the end of the contiguous prefix of the acknowledged xids, whatever the
\* order of the updates and however often one is repeated.
FrontIsXidRep == IsXidRep(Head(xid_rep_window), acked)

\* Nothing beyond the prefix is lost: the list holds, in order, the front and
\* every acknowledged xid above it, so a gap closed later is still compressed.
ListHoldsTheRest ==
    /\ IsSorted(xid_rep_window, LAMBDA a, b : a <= b)
    /\ ToSet(Tail(xid_rep_window)) \ {Head(xid_rep_window)} =
           {x \in acked : x > Head(xid_rep_window)}

\* The function that a reply list stands for.
AsWindow(l) ==
    [x \in Xids |->
        IF \E i \in DOMAIN l : l[i].xid = x /\ l[i].cb_present THEN "present"
        ELSE IF \E i \in DOMAIN l : l[i].xid = x THEN "inprogress" ELSE "absent"]

\* The reply list decides and remembers exactly what the function does, in every
\* order of requests, replies and trimming: deleting while iterating, with the
\* test on front() inside the loop, is the same as trimming first.
ListImplementsWindow == result = verdict /\ AsWindow(list) = w
=============================================================================
