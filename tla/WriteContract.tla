---------------------------- MODULE WriteContract ----------------------------
(***************************************************************************)
(* What a caller of submitTrafficWrite may rely on, without queue, mutex,  *)
(* writer goroutine or Start/Stop: a called write is either performed,     *)
(* once, and then acknowledged, or refused and never performed; and every  *)
(* call is answered.                                                       *)
(***************************************************************************)
CONSTANT Requests
VARIABLE status

Status == {"idle", "called", "done", "acked", "refused"}

Init == status = [r \in Requests |-> "idle"]

Move(r, from, to) == status[r] = from /\ status' = [status EXCEPT ![r] = to]

Call(r)    == Move(r, "idle", "called")
Perform(r) == Move(r, "called", "done")
Ack(r)     == Move(r, "done", "acked")
Refuse(r)  == Move(r, "called", "refused")

Answer(r) == Perform(r) \/ Ack(r) \/ Refuse(r)

Next == \E r \in Requests : Call(r) \/ Answer(r)

Spec == Init /\ [][Next]_status

FairSpec == Spec /\ \A r \in Requests : WF_status(Answer(r))
=============================================================================
