------------------------------ MODULE Delivery ------------------------------
(***************************************************************************)
(* What the console may expect of a deployment, whatever file keeps its    *)
(* result: it runs once, its result is delivered, at once or later, and a  *)
(* result that waits is not forgotten, and is dropped only by an error of  *)
(* the disk that keeps it.                                                 *)
(***************************************************************************)
CONSTANTS
    Deployment,
    Insistent  \* the deployments whose failure waits for delivery too

VARIABLES
    status,  \* what became of each deployment
    unsaved  \* the results that an error of the disk took

promised == <<status, unsaved>>

Status == {"requested", "running", "succeeded", "failed", "waiting",
           "delivered", "dropped"}

Init == status = [d \in Deployment |-> "requested"] /\ unsaved = {}

Move(d, from, to) ==
    /\ status[d] \in from /\ status' = [status EXCEPT ![d] = to]
    /\ UNCHANGED unsaved

Start(d) == Move(d, {"requested"}, "running")

End(d) == \E r \in {"succeeded", "failed"} : Move(d, {"running"}, r)

Deliver(d) == Move(d, {"succeeded", "failed", "waiting"}, "delivered")

(* The worker does not acknowledge the result.                             *)
Wait(d) ==
    \/ Move(d, {"succeeded"}, "waiting")
    \/ d \in Insistent /\ Move(d, {"failed"}, "waiting")

Drop(d) == d \notin Insistent /\ Move(d, {"failed"}, "dropped")

(* An error of the disk takes some of the results that wait.               *)
Lose(S) ==
    /\ \A d \in S : status[d] = "waiting"
    /\ status' = [d \in Deployment |-> IF d \in S THEN "dropped" ELSE status[d]]
    /\ unsaved' = unsaved \cup S

Next ==
    \/ \E d \in Deployment :
          Start(d) \/ End(d) \/ Deliver(d) \/ Wait(d) \/ Drop(d)
    \/ \E S \in SUBSET Deployment : Lose(S)

(* A result that waits is delivered at last, or taken by the disk.         *)
Spec ==
    /\ Init /\ [][Next]_promised
    /\ \A d \in Deployment :
          WF_promised(status[d] = "waiting" /\ Deliver(d))
=============================================================================
