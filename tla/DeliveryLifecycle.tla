--------------------------- MODULE DeliveryLifecycle --------------------------
(***************************************************************************)
(* What the engine promises the producer of a delivery, with no store, no  *)
(* lease and no replica in sight: an enqueued delivery stays open until it *)
(* is reported sent, which needs a receiver that accepted it, or given up; *)
(* either report is final.  A delivery the receiver accepted may still be  *)
(* given up (at least once, not exactly once).                             *)
(***************************************************************************)
CONSTANT Deliveries

VARIABLES
  state,      \* what is known of each delivery
  accepted    \* whether a receiver has accepted it

vars == <<state, accepted>>

Init ==
  /\ state = [d \in Deliveries |-> "absent"]
  /\ accepted = [d \in Deliveries |-> FALSE]

Move(d, from, to) == state[d] = from /\ state' = [state EXCEPT ![d] = to]

Enqueue(d) == Move(d, "absent", "open") /\ UNCHANGED accepted

Accept(d) ==
  /\ state[d] = "open"
  /\ accepted' = [accepted EXCEPT ![d] = TRUE]
  /\ UNCHANGED state

ReportSent(d) == accepted[d] /\ Move(d, "open", "sent") /\ UNCHANGED accepted

GiveUp(d) == Move(d, "open", "dead") /\ UNCHANGED accepted

Next == \E d \in Deliveries : Enqueue(d) \/ Accept(d) \/ ReportSent(d) \/ GiveUp(d)

Spec == Init /\ [][Next]_vars
===============================================================================
