---------------------------- MODULE MCPendingAcks ----------------------------
(* Instances of PendingAcks: two or three deployments, one or two job runs. *)
EXTENDS PendingAcks, TLC

CONSTANTS d1, d2, d3, run1, run2

\* Two packages, one of them updated.
TwoDeployments == {d1, d2}

TwoOperations == (d1 :> "install") @@ (d2 :> "update")

\* One deployment of each kind.
ThreeDeployments == {d1, d2, d3}

ThreeOperations ==
    (d1 :> "install") @@ (d2 :> "update") @@ (d3 :> "uninstall")

\* The runs of the job are alike: sound, for only invariants use it.
RunSymmetry == Permutations(JobRun)
============================================================================
