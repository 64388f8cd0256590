---------------------------- MODULE CallSoonQueue ----------------------------
(***************************************************************************)
(* What Loop.call_soon promises its callers, and nothing about how: "This  *)
(* operates as a FIFO queue: callbacks are called in the order in which    *)
(* they are registered.  Each callback will be called exactly once."       *)
(* (loop.pyx, call_soon and call_soon_threadsafe.)                         *)
(***************************************************************************)
EXTENDS Naturals, Sequences

CONSTANT Handles

VARIABLES
    order,      \* the handles submitted so far, in order
    status      \* what has become of each

vars == <<order, status>>

Statuses == {"new", "pending", "active", "done", "dropped"}

Init ==
    /\ order = <<>>
    /\ status = [h \in Handles |-> "new"]

Submit(h) ==
    /\ status[h] = "new"
    /\ order' = Append(order, h)
    /\ status' = [status EXCEPT ![h] = "pending"]

\* cancel() drops one handle, close() drops all that are left.
Drop(S) ==
    /\ \A h \in S : status[h] = "pending"
    /\ status' = [h \in Handles |-> IF h \in S THEN "dropped" ELSE status[h]]
    /\ UNCHANGED order

\* Every handle submitted before h has been dealt with.
IsOldest(h) ==
    \A i, j \in 1..Len(order) :
        order[j] = h /\ i < j => status[order[i]] \in {"done", "dropped"}

\* A user's callback starts; the handle of stop() starts and ends at once.
Start(h) ==
    /\ status[h] = "pending" /\ IsOldest(h)
    /\ \A g \in Handles : status[g] # "active"
    /\ \E s \in {"active", "done"} : status' = [status EXCEPT ![h] = s]
    /\ UNCHANGED order

Finish(h) ==
    /\ status[h] = "active"
    /\ status' = [status EXCEPT ![h] = "done"]
    /\ UNCHANGED order

Next ==
    \/ \E h \in Handles : Submit(h) \/ Start(h) \/ Finish(h)
    \/ \E S \in SUBSET Handles : Drop(S)

Spec == Init /\ [][Next]_vars
=============================================================================
