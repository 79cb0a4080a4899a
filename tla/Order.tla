------------------------------- MODULE Order -------------------------------
(***************************************************************************)
(* What the relay promises of the commands of one run: the run has at most *)
(* one order open at a time, an order is taken by the watcher at most      *)
(* once, and what has ended stays as it ended.  An order that nobody takes *)
(* expires, one that is taken and not reported is lost.                    *)
(***************************************************************************)
CONSTANT Orders

VARIABLE order

Open == {"pending", "taken"}
Ended == {"done", "failed", "expired", "lost"}
NoneOpen == \A i \in Orders : order[i] \notin Open

Move(i, from, to) == order[i] = from /\ order' = [order EXCEPT ![i] = to]

Init == order = [i \in Orders |-> "none"]

Post(i) == NoneOpen /\ Move(i, "none", "pending")
Take(i) == Move(i, "pending", "taken")
Report(i) == \E end \in {"done", "failed"} : Move(i, "taken", end)
Expire(i) == Move(i, "pending", "expired") \/ Move(i, "taken", "lost")

Next == \E i \in Orders : Post(i) \/ Take(i) \/ Report(i) \/ Expire(i)

Spec == Init /\ [][Next]_order
=============================================================================
